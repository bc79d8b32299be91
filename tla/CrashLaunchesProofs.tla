-------------------------- MODULE CrashLaunchesProofs --------------------------
(* Proofs about CrashLaunches for every number of launches, every clock and    *)
(* every size of the report store: what follows a crash at start-up, what a    *)
(* launch believes of earlier ones, what is sent, deleted and kept.            *)
EXTENDS CrashLaunches, FiniteSetTheorems, TLAPS

Typed ==
  /\ launch \in Nat /\ saver \in 0..launch /\ about \in Nat /\ hasty \subseteq 1..launch
  /\ state \in [crashedLast : BOOLEAN, crashedThis : BOOLEAN, early : BOOLEAN, count : Nat]
  /\ file \in [crashed : BOOLEAN, early : BOOLEAN, count : Nat, cut : Nat]

\* A note of a start-up crash that survives can be read from the file.
OnFile == saver \in hasty => file.early /\ file.cut >= 2

\* Once the monitor is enabled the file is this launch's, and the launch has not
\* noted a crash before it crashes.
Enabled == main \notin {"off", "armed"}
Owned   == /\ main = "overwriting" => handler # "none"
           /\ enabled \/ handler = "noting" \/ Enabled => Enabled /\ saver = launch
           /\ main = "armed" \/ (main # "off" /\ handler = "none") => launch \notin hasty

\* The launch knows of the start-up crash before it, and does not go on until the
\* sender has finished.
Known  == main # "off" => about < launch /\ (about \in hasty => state.early)
Waits  == main = "running" => sender = "idle" \/ about \notin hasty

Given == Typed /\ OnFile /\ Owned /\ Known /\ Waits

LEMMA InitGiven == Init => Given
  BY DEF Init, Given, Typed, OnFile, Owned, Known, Waits, Enabled, Blank

LEMMA LaunchKeeps == ASSUME Given, Launch PROVE Given'
<1>1. /\ main = "off" /\ launch' = launch + 1 /\ about' = saver /\ state' = Loaded /\ main' = "armed"
      /\ UNCHANGED <<handler, enabled, sender, file, hasty, saver>>
  BY DEF Launch
<1>2. Loaded \in [crashedLast : BOOLEAN, crashedThis : BOOLEAN, early : BOOLEAN, count : Nat]
  BY DEF Given, Typed, Loaded
<1>3. saver \in hasty => Loaded.early
  BY DEF Given, Typed, OnFile, Loaded
<1>4. Typed' /\ OnFile'
  BY <1>1, <1>2 DEF Given, Typed, OnFile
<1>5. Owned'
  BY <1>1 DEF Given, Typed, Owned, Enabled
<1>6. Known' /\ Waits'
  BY <1>1, <1>3 DEF Given, Typed, Known, Waits
<1> QED
  BY <1>4, <1>5, <1>6 DEF Given

LEMMA EnableKeeps == ASSUME Given, EnableState PROVE Given'
<1>1. /\ main = "armed" /\ main' = "saving" /\ state' = Reset(state) /\ file' = Saved(Reset(state), FALSE)
      /\ saver' = launch
      /\ UNCHANGED <<launch, handler, sender, hasty, about>>
  BY DEF EnableState
<1>2. /\ Reset(state) \in [crashedLast : BOOLEAN, crashedThis : BOOLEAN, early : BOOLEAN, count : Nat]
      /\ Reset(state).early = state.early
  <2> DEFINE n == (IF state.crashedLast THEN 0 ELSE state.count) + 1
  <2>1. state \in [crashedLast : BOOLEAN, crashedThis : BOOLEAN, early : BOOLEAN, count : Nat]
    BY DEF Given, Typed
  <2>2. n \in Nat
    BY <2>1
  <2>3. Reset(state) = [state EXCEPT !.crashedThis = FALSE, !.count = n]
    BY DEF Reset
  <2> HIDE DEF n
  <2> QED
    BY <2>1, <2>2, <2>3
<1>3. file' \in [crashed : BOOLEAN, early : BOOLEAN, count : Nat, cut : Nat]
  BY <1>1, <1>2 DEF Saved
<1>4. launch \notin hasty
  BY <1>1 DEF Given, Owned
<1>5. Typed' /\ OnFile'
  <2>1. state' \in [crashedLast : BOOLEAN, crashedThis : BOOLEAN, early : BOOLEAN, count : Nat]
    BY <1>1, <1>2
  <2>2. saver' \in 0..launch' /\ launch' \in Nat /\ about' \in Nat /\ hasty' \subseteq 1..launch'
    BY <1>1 DEF Given, Typed
  <2>3. saver' \notin hasty'
    BY <1>1, <1>4
  <2> QED
    BY <1>3, <2>1, <2>2, <2>3 DEF Typed, OnFile
<1>6. Owned'
  BY <1>1, <1>4 DEF Owned, Enabled
<1>7. Known' /\ Waits'
  BY <1>1, <1>2 DEF Given, Known, Waits
<1> QED
  BY <1>5, <1>6, <1>7 DEF Given

\* One more field reaches the file.
LEMMA FieldWritten ==
  ASSUME Given, WriteField
  PROVE  /\ file' \in [crashed : BOOLEAN, early : BOOLEAN, count : Nat, cut : Nat]
         /\ file'.early = file.early /\ file'.cut = file.cut + 1
  BY DEF Given, Typed, WriteField

LEMMA SaveFieldKeeps == ASSUME Given, SaveField PROVE Given'
<1>1. /\ WriteField /\ main = "saving" /\ main' \in {"saving", "started"}
      /\ UNCHANGED <<launch, handler, sender, enabled, state, saver, about, hasty>>
  BY DEF SaveField, past
<1>2. Typed' /\ OnFile'
  BY <1>1, FieldWritten DEF Given, Typed, OnFile
<1>3. Owned' /\ Known' /\ Waits'
  BY <1>1 DEF Given, Owned, Known, Waits, Enabled
<1> QED
  BY <1>2, <1>3 DEF Given

LEMMA OverwriteKeeps == ASSUME Given, Overwrite PROVE Given'
<1> PICK k \in 0..Fields, crashed \in BOOLEAN, early \in {file.early, FALSE} :
       /\ file' = [file EXCEPT !.cut = k, !.crashed = crashed, !.early = early]
       /\ hasty' = IF k >= 2 /\ early THEN hasty \cup {launch} ELSE hasty \ {launch}
  BY DEF Overwrite
<1>1. /\ main = "overwriting" /\ main' = "started" /\ handler' # "none" /\ k \in Nat
      /\ UNCHANGED <<launch, handler, sender, enabled, state, saver, about>>
  BY DEF Overwrite, Given, Owned, Fields
<1>2. saver = launch /\ launch # 0 /\ about # launch
  BY <1>1 DEF Given, Typed, Owned, Known, Enabled
<1>3. Typed'
  <2>1. /\ file \in [crashed : BOOLEAN, early : BOOLEAN, count : Nat, cut : Nat]
        /\ launch \in Nat /\ hasty \subseteq 1..launch /\ launch \in 1..launch
    BY <1>2 DEF Given, Typed
  <2>2. early \in BOOLEAN
    BY <2>1
  <2>3. file' \in [crashed : BOOLEAN, early : BOOLEAN, count : Nat, cut : Nat]
    BY <1>1, <2>1, <2>2
  <2>4. hasty' \subseteq 1..launch
    BY <2>1
  <2> QED
    BY <1>1, <2>3, <2>4 DEF Given, Typed
<1>4. OnFile'
  BY <1>1, <1>2 DEF Given, Typed, OnFile
<1>5. Owned' /\ Known' /\ Waits'
  BY <1>1, <1>2 DEF Given, Owned, Known, Waits, Enabled
<1> QED
  BY <1>3, <1>4, <1>5 DEF Given

\* Sending leaves alone what is known of the crash.
Knowledge == <<launch, handler, enabled, state, file, hasty, saver, about>>

LEMMA SendKeeps ==
  ASSUME Given, SendAll \/ SendReport \/ SkipReport \/ ListReports \/ DeleteReport \/ EndSending
  PROVE  Given'
<1>1. UNCHANGED Knowledge
  BY DEF SendAll, SendReport, SkipReport, ListReports, DeleteReport, EndSending, Knowledge, disk, past
<1>2. (Enabled /\ Enabled' /\ main' # "overwriting") \/ main' = main
  BY DEF SendAll, SendReport, SkipReport, ListReports, DeleteReport, EndSending, Enabled
<1>3. main # "off" \/ main' = main
  BY DEF SendAll, SendReport, SkipReport, ListReports, DeleteReport, EndSending
<1>4. Typed' /\ OnFile' /\ Owned' /\ Known'
  BY <1>1, <1>2, <1>3 DEF Given, Typed, OnFile, Owned, Known, Enabled, Knowledge
<1>5. Waits'
  <2> SUFFICES ASSUME main' = "running" PROVE sender' = "idle" \/ about \notin hasty
    BY <1>1 DEF Waits, Knowledge
  <2>1. CASE SendAll
    BY <2>1 DEF SendAll, Given, Known
  <2>2. CASE EndSending
    BY <2>2 DEF EndSending
  <2>3. CASE SendReport \/ SkipReport \/ ListReports \/ DeleteReport
    BY <2>3 DEF SendReport, SkipReport, ListReports, DeleteReport, Given, Waits
  <2> QED
    BY <2>1, <2>2, <2>3
<1> QED
  BY <1>4, <1>5 DEF Given

LEMMA CrashKeeps == ASSUME Given, NEW early \in BOOLEAN, Crash(early) PROVE Given'
<1>1. /\ main # "off" /\ handler = "none" /\ launch \notin hasty
      /\ UNCHANGED <<launch, sender, enabled, hasty, saver, about>>
  BY DEF Crash, Given, Owned
<1>2. CASE enabled
  <2>1. /\ state' = [state EXCEPT !.crashedThis = TRUE] /\ file' = Saved(state', early)
        /\ handler' = "noting" /\ main' = IF main = "saving" THEN "overwriting" ELSE main
    BY <1>2 DEF Crash
  <2>2. saver = launch /\ Enabled
    BY <1>2 DEF Given, Owned
  <2>3. Typed'
    BY <1>1, <2>1 DEF Given, Typed, Saved
  <2>4. OnFile' /\ Owned'
    BY <1>1, <2>1, <2>2 DEF OnFile, Owned, Enabled
  <2>5. Known' /\ Waits'
    BY <1>1, <2>1 DEF Given, Typed, Known, Waits
  <2> QED
    BY <2>3, <2>4, <2>5 DEF Given
<1>3. CASE ~enabled
  <2>1. handler' = "create" /\ UNCHANGED <<state, file, main>>
    BY <1>3 DEF Crash
  <2> QED
    BY <1>1, <2>1 DEF Given, Typed, OnFile, Owned, Known, Waits, Enabled
<1> QED
  BY <1>2, <1>3

LEMMA NoteKeeps == ASSUME Given, NoteField PROVE Given'
<1>1. /\ WriteField /\ handler = "noting" /\ handler' \in {"noting", "create"}
      /\ hasty' = IF file.early /\ file.cut + 1 >= 2 THEN hasty \cup {launch} ELSE hasty
      /\ UNCHANGED <<launch, main, sender, enabled, state, saver, about>>
  BY DEF NoteField
<1>2. Enabled /\ saver = launch
  BY <1>1 DEF Given, Owned
<1>3. launch # 0 /\ about # launch
  BY <1>2 DEF Given, Typed, Known, Enabled
<1>4. Typed'
  BY <1>1, <1>3, FieldWritten DEF Given, Typed
<1>5. OnFile'
  BY <1>1, <1>2, FieldWritten DEF Given, Typed, OnFile
<1>6. Owned' /\ Known' /\ Waits'
  BY <1>1, <1>2, <1>3 DEF Given, Owned, Known, Waits, Enabled
<1> QED
  BY <1>4, <1>5, <1>6 DEF Given

\* Writing the report leaves alone what is known of the crash, too.
LEMMA ReportKeeps ==
  ASSUME Given,
         CreateReport \/ CloseReport \/ Recrash \/ ReopenReport \/ EmbedOld \/ RemoveOld
  PROVE  Given'
<1>1. /\ UNCHANGED <<launch, main, sender, state, file, hasty, saver, about>>
      /\ handler' \notin {"none", "noting"} /\ handler # "none" /\ (enabled' => enabled)
  <2> USE DEF past, Finish
  <2>1. CASE CreateReport \/ CloseReport
    BY <2>1 DEF CreateReport, CloseReport
  <2>2. CASE Recrash
    BY <2>2 DEF Recrash
  <2>3. CASE ReopenReport
    BY <2>3 DEF ReopenReport
  <2>4. CASE EmbedOld
    BY <2>4 DEF EmbedOld
  <2>5. CASE RemoveOld
    BY <2>5 DEF RemoveOld
  <2> QED
    BY <2>1, <2>2, <2>3, <2>4, <2>5
<1> QED
  BY <1>1 DEF Given, Typed, OnFile, Owned, Known, Waits, Enabled

LEMMA EndKeeps == ASSUME Given, End PROVE Given'
<1>1. /\ main' = "off" /\ handler' = "none" /\ sender' = "idle" /\ ~enabled' /\ state' = Blank
      /\ UNCHANGED <<launch, file, hasty, saver, about>>
  BY DEF End, disk
<1> QED
  BY <1>1 DEF Given, Typed, OnFile, Owned, Known, Waits, Enabled, Blank

LEMMA NextGiven == Given /\ [Next]_vars => Given'
<1> SUFFICES ASSUME Given, [Next]_vars PROVE Given'
  OBVIOUS
<1>1. ASSUME NEW early \in BOOLEAN, Crash(early) PROVE Given'
  BY <1>1, CrashKeeps
<1>2. CASE UNCHANGED vars
  BY <1>2 DEF vars, process, disk, past, Given, Typed, OnFile, Owned, Known, Waits, Enabled
<1> QED
  BY <1>1, <1>2, LaunchKeeps, EnableKeeps, SaveFieldKeeps, OverwriteKeeps, SendKeeps, NoteKeeps,
     ReportKeeps, EndKeeps DEF Next

\* After a launch whose start-up crash was noted, whatever else went wrong in it, the
\* next one does not go on before the sender has finished.
THEOREM StartupCrashesGoFirst == Spec => []StartupCrashFirst
<1>1. Given => StartupCrashFirst
  BY DEF Given, Waits, StartupCrashFirst
<1> QED
  BY <1>1, InitGiven, NextGiven, PTL DEF Spec
-----------------------------------------------------------------------------
\* The listing of the store: Sorted(S) lists every file of S, each once.
LEMMA NamesFinite ==
  ASSUME NEW S, S \subseteq Names
  PROVE  IsFiniteSet(S) /\ Cardinality(S) \in Nat
<1>1. IsFiniteSet(IDs)
  <2>1. 0 \in Int /\ Wrap - 1 \in Int
    BY LaunchesAssumption DEF LaunchesAssumption
  <2> QED
    BY <2>1, FS_Interval DEF IDs
<1>3. IsFiniteSet({"json", "old"})
  <2>1. IsFiniteSet({"json"}) /\ {"json"} \cup {"old"} = {"json", "old"}
    BY FS_Singleton
  <2> QED
    BY <2>1, FS_AddElement
<1>2. IsFiniteSet(Names)
  BY <1>1, <1>3, FS_Product DEF Names
<1> QED
  BY <1>2, FS_Subset, FS_CardinalityType

LEMMA NameParts == \A n \in Names : /\ n[1] \in Int /\ n[2] \in {"json", "old"}
                                    /\ n[1] \in IDs /\ n = <<n[1], n[2]>>
  BY LaunchesAssumption DEF Names, IDs, LaunchesAssumption

LEMMA PrecedesOrders ==
  ASSUME NEW k \in Names, NEW m \in Names, NEW n \in Names
  PROVE  /\ ~Precedes(n, n)
         /\ Precedes(k, m) /\ Precedes(m, n) => Precedes(k, n)
         /\ m # n => Precedes(m, n) \/ Precedes(n, m)
<1>1. ~Precedes(n, n) /\ (Precedes(k, m) /\ Precedes(m, n) => Precedes(k, n))
  BY NameParts DEF Precedes
<1>2. ASSUME m # n PROVE Precedes(m, n) \/ Precedes(n, m)
  <2>1. m[1] # n[1] \/ m[2] # n[2]
    BY <1>2, NameParts
  <2> QED
    BY <2>1, NameParts DEF Precedes
<1> QED
  BY <1>1, <1>2

LEMMA RankRises ==
  ASSUME NEW S, S \subseteq Names, NEW m \in S, NEW n \in S, Precedes(m, n)
  PROVE  Rank(S, m) < Rank(S, n)
<1> DEFINE Below(x) == {k \in S : Precedes(k, x)}
<1>1. /\ Below(m) \cup {m} \in SUBSET Below(n) /\ m \notin Below(m)
      /\ Below(m) \subseteq Names /\ Below(n) \subseteq Names
  BY PrecedesOrders
<1>2. IsFiniteSet(Below(m)) /\ IsFiniteSet(Below(n)) /\ Cardinality(Below(m)) \in Nat /\ Cardinality(Below(n)) \in Nat
  BY <1>1, NamesFinite
<1>3. Cardinality(Below(m) \cup {m}) = Cardinality(Below(m)) + 1
  BY <1>1, <1>2, FS_AddElement
<1>4. Cardinality(Below(m) \cup {m}) <= Cardinality(Below(n))
  BY <1>1, <1>2, FS_Subset
<1>5. Rank(S, m) = Cardinality(Below(m)) /\ Rank(S, n) = Cardinality(Below(n))
  BY DEF Rank
<1> HIDE DEF Below
<1> QED
  BY <1>2, <1>3, <1>4, <1>5

LEMMA RankTypes ==
  ASSUME NEW S, S \subseteq Names, NEW n \in S
  PROVE  Rank(S, n) \in 0..(Cardinality(S) - 1)
<1> DEFINE Below == {k \in S : Precedes(k, n)}
<1>1. Below \in SUBSET S /\ n \in S \ Below /\ Below \subseteq Names
  BY PrecedesOrders
<1>2. IsFiniteSet(S) /\ Cardinality(S) \in Nat /\ Cardinality(Below) \in Nat
  BY <1>1, NamesFinite
<1>3. Cardinality(Below) <= Cardinality(S) /\ Cardinality(S) # Cardinality(Below)
  BY <1>1, <1>2, FS_Subset
<1>4. Rank(S, n) = Cardinality(Below)
  BY DEF Rank
<1> HIDE DEF Below
<1> QED
  BY <1>2, <1>3, <1>4

LEMMA RankInjective ==
  ASSUME NEW S, S \subseteq Names, NEW m \in S, NEW n \in S, Rank(S, m) = Rank(S, n)
  PROVE  m = n
<1> SUFFICES ASSUME m # n PROVE FALSE
  OBVIOUS
<1>1. Precedes(m, n) \/ Precedes(n, m)
  BY PrecedesOrders
<1>2. Rank(S, m) \in Int /\ Rank(S, n) \in Int
  BY RankTypes, NamesFinite
<1>3. Rank(S, m) < Rank(S, n) \/ Rank(S, n) < Rank(S, m)
  BY <1>1, RankRises
<1> QED
  BY <1>2, <1>3

LEMMA RankReached ==
  ASSUME NEW S, S \subseteq Names, NEW i \in 1..Cardinality(S)
  PROVE  \E n \in S : Rank(S, n) = i - 1
<1> DEFINE c == Cardinality(S)
           f == [n \in S |-> Rank(S, n)]
           T == 0..(c - 1)
<1>1. c \in Nat
  BY NamesFinite
<1>2. f \in [S -> T]
  BY RankTypes
<1>3. f \in Injection(S, T)
  <2>1. ASSUME NEW m \in S, NEW n \in S, f[m] = f[n] PROVE m = n
    BY <2>1, RankInjective
  <2> HIDE DEF f, T
  <2> QED
    BY <1>2, <2>1 DEF Injection, IsInjective
<1>4. IsFiniteSet(T) /\ Cardinality(T) = c
  <2>1. 0 \in Int /\ c - 1 \in Int /\ (IF 0 > c - 1 THEN 0 ELSE (c - 1) - 0 + 1) = c
    BY <1>1
  <2> HIDE DEF c
  <2> QED
    BY <2>1, FS_Interval
<1>5. f \in Surjection(S, T)
  BY <1>3, <1>4, FS_Injection
<1>6. i - 1 \in T
  BY <1>1
<1> HIDE DEF T
<1>7. \E n \in S : f[n] = i - 1
  BY <1>5, <1>6 DEF Surjection
<1> QED
  BY <1>7

\* The i-th file listed, and where a file is listed.
LEMMA SortedIs ==
  ASSUME NEW S, S \subseteq Names
  PROVE  /\ \A i \in 1..Cardinality(S) : Sorted(S)[i] \in S /\ Rank(S, Sorted(S)[i]) = i - 1
         /\ \A n \in S : Rank(S, n) + 1 \in 1..Cardinality(S) /\ Sorted(S)[Rank(S, n) + 1] = n
<1>1. \A i \in 1..Cardinality(S) : Sorted(S)[i] \in S /\ Rank(S, Sorted(S)[i]) = i - 1
  BY RankReached DEF Sorted
<1>2. ASSUME NEW n \in S
      PROVE  Rank(S, n) + 1 \in 1..Cardinality(S) /\ Sorted(S)[Rank(S, n) + 1] = n
  <2>1. Rank(S, n) \in 0..(Cardinality(S) - 1) /\ Cardinality(S) \in Nat
    BY RankTypes, NamesFinite
  <2> PICK i : i = Rank(S, n) + 1
    OBVIOUS
  <2>2. i \in 1..Cardinality(S) /\ i - 1 = Rank(S, n)
    BY <2>1
  <2>3. Sorted(S)[i] \in S /\ Rank(S, Sorted(S)[i]) = Rank(S, n)
    BY <1>1, <2>2
  <2> QED
    BY <2>2, <2>3, RankInjective
<1> QED
  BY <1>1, <1>2

-----------------------------------------------------------------------------
\* The types of the state, by the actions that change them.
ClockTypes ==
  /\ clock \in Nat /\ clock <= launch * MaxStep /\ launch \in 0..Launches
  /\ ids \in Seq(IDs) /\ Len(ids) = launch /\ (main # "off" => launch > 0)

Handlers == {"none", "noting", "create", "write", "reopen", "embed", "unlink", "rest", "done"}
ActorTypes ==
  /\ main \in {"off", "armed", "saving", "overwriting", "started", "blocked", "running"}
  /\ handler \in Handlers /\ sender \in {"idle", "sending", "deleting"}
  /\ enabled \in BOOLEAN /\ named \in BOOLEAN /\ recrash \in BOOLEAN
  /\ main = "off" => handler = "none" /\ ~enabled
  /\ main \notin {"blocked", "running"} => sender = "idle"
  /\ handler \in {"reopen", "embed", "unlink", "rest"} => named /\ recrash
  /\ batch # <<>> => sender = "sending"
  /\ doomed # {} => sender = "deleting"

\* A launch counts no more launches than there have been; who writes the file has
\* not yet written all of it, and only one of the two writers is at work.
CountTypes ==
  /\ file.cut \in 0..Fields /\ file.count <= saver
  /\ state.count <= launch /\ (main = "armed" => state.count < launch)
  /\ main = "saving" => file.cut < Fields /\ handler # "noting"
  /\ handler = "noting" => file.cut < Fields
  /\ about <= launch

Told == SUBSET (1..launch)
StoreTypes ==
  /\ dir \in [Names -> [tells : Told, readable : BOOLEAN, there : BOOLEAN]]
  /\ batch \in Seq(Told) /\ doomed \subseteq Names

PastTypes == /\ crashes \cup started \cup noted \cup hasty \cup skipped \cup late \subseteq 1..launch
             /\ sent \in [1..Launches -> Nat]

Types == ClockTypes /\ ActorTypes /\ CountTypes /\ StoreTypes /\ PastTypes

LEMMA Sizes == /\ Launches \in Nat /\ Wrap \in Nat \ {0} /\ MaxStep \in Nat /\ MaxReportCount \in Nat
               /\ IDs = 0..(Wrap - 1)
  BY LaunchesAssumption DEF LaunchesAssumption, IDs

LEMMA InitTypes == Init => Types
<1> SUFFICES ASSUME Init PROVE Types
  OBVIOUS
<1> USE Sizes DEF Init, Blank
<1>1. ClockTypes
  BY DEF ClockTypes
<1>2. ActorTypes
  BY DEF ActorTypes, Handlers
<1>3. CountTypes
  BY DEF CountTypes, Fields
<1>4. StoreTypes
  <2>1. Nothing \in [tells : Told, readable : BOOLEAN, there : BOOLEAN]
    BY DEF Nothing, Told
  <2>2. dir \in [Names -> [tells : Told, readable : BOOLEAN, there : BOOLEAN]]
    BY <2>1
  <2>3. batch \in Seq(Told) /\ doomed \subseteq Names
    OBVIOUS
  <2> QED
    BY <2>2, <2>3 DEF StoreTypes
<1>5. PastTypes
  BY DEF PastTypes
<1> QED
  BY <1>1, <1>2, <1>3, <1>4, <1>5 DEF Types

LEMMA NextClock == ASSUME ClockTypes, [Next]_vars PROVE ClockTypes'
<1>1. CASE Launch
  <2>1. /\ launch < Launches /\ launch' = launch + 1 /\ ids' = Append(ids, NextID(clock'))
        /\ \E t \in 0..MaxStep : clock' = clock + t
    BY <1>1 DEF Launch
  <2>2. clock' \in Nat /\ clock' <= clock + MaxStep
    BY <2>1, Sizes DEF ClockTypes
  <2>3. (launch + 1) * MaxStep = launch * MaxStep + MaxStep /\ launch * MaxStep \in Nat
    BY Sizes DEF ClockTypes
  <2>4. NextID(clock') \in IDs
    <3>1. \A n \in Nat \ {0} : \A x \in Nat : x % n \in 0..(n - 1)
      OBVIOUS
    <3> QED
      BY <2>2, <3>1, Sizes DEF NextID
  <2>5. clock' <= launch' * MaxStep
    BY <2>1, <2>2, <2>3, Sizes DEF ClockTypes
  <2> QED
    BY <2>1, <2>2, <2>4, <2>5, Sizes DEF ClockTypes
<1>2. CASE UNCHANGED <<clock, launch, ids>> /\ main # "off"
  BY <1>2 DEF ClockTypes
<1>3. CASE UNCHANGED <<clock, launch, ids, main>>
  BY <1>3 DEF ClockTypes
<1>4. CASE EnableState \/ SaveField \/ Overwrite
  BY <1>2, <1>4 DEF EnableState, SaveField, Overwrite
<1>5. CASE SendAll \/ SendReport \/ SkipReport \/ ListReports \/ DeleteReport \/ EndSending
  BY <1>2, <1>5 DEF SendAll, SendReport, SkipReport, ListReports, DeleteReport, EndSending, Free
<1>6. ASSUME NEW early \in BOOLEAN, Crash(early) PROVE ClockTypes'
  BY <1>2, <1>6 DEF Crash
<1>7. CASE NoteField \/ CreateReport \/ CloseReport \/ Recrash \/ ReopenReport \/ EmbedOld \/ RemoveOld
  BY <1>3, <1>7 DEF NoteField, CreateReport, CloseReport, Recrash, ReopenReport, EmbedOld, RemoveOld
<1>8. CASE End
  BY <1>2, <1>8 DEF End
<1>9. CASE UNCHANGED vars
  BY <1>3, <1>9 DEF vars, process
<1> QED
  BY <1>1, <1>4, <1>5, <1>6, <1>7, <1>8, <1>9 DEF Next

LEMMA NextActors == ASSUME ActorTypes, [Next]_vars PROVE ActorTypes'
<1> USE DEF ActorTypes, Handlers
<1>1. CASE Launch
  BY <1>1 DEF Launch
<1>2. CASE EnableState
  BY <1>2 DEF EnableState, Free
<1>3. CASE SaveField \/ Overwrite
  BY <1>3 DEF SaveField, Overwrite
<1>4. CASE SendAll
  BY <1>4 DEF SendAll
<1>5. CASE SendReport \/ SkipReport
  <2>1. /\ sender = "sending" /\ main # "off"
        /\ UNCHANGED <<main, handler, sender, enabled, named, recrash, doomed>>
    BY <1>5 DEF SendReport, SkipReport, Free
  <2> QED
    BY <2>1
<1>13. CASE DeleteReport
  <2>1. sender = "deleting" /\ UNCHANGED <<main, handler, sender, enabled, named, recrash, batch>>
    BY <1>13 DEF DeleteReport
  <2> QED
    BY <2>1
<1>6. CASE ListReports \/ EndSending
  BY <1>6 DEF ListReports, EndSending, Free
<1>7. ASSUME NEW early \in BOOLEAN, Crash(early) PROVE ActorTypes'
  BY <1>7 DEF Crash
<1>8. CASE NoteField \/ CreateReport \/ CloseReport
  BY <1>8 DEF NoteField, CreateReport, CloseReport, Finish
<1>9. CASE Recrash
  BY <1>9 DEF Recrash
<1>10. CASE ReopenReport \/ EmbedOld \/ RemoveOld
  BY <1>10 DEF ReopenReport, EmbedOld, RemoveOld
<1>11. CASE End
  BY <1>11 DEF End
<1>12. CASE UNCHANGED vars
  BY <1>12 DEF vars, process
<1> QED
  BY <1>1, <1>2, <1>3, <1>4, <1>5, <1>6, <1>7, <1>8, <1>9, <1>10, <1>11, <1>12, <1>13 DEF Next

LEMMA NextCounts == ASSUME Given, ActorTypes, CountTypes, [Next]_vars PROVE CountTypes'
<1>1. /\ launch \in Nat /\ saver \in 0..launch /\ about \in Nat
      /\ state \in [crashedLast : BOOLEAN, crashedThis : BOOLEAN, early : BOOLEAN, count : Nat]
      /\ file \in [crashed : BOOLEAN, early : BOOLEAN, count : Nat, cut : Nat]
  BY DEF Given, Typed
<1>2. main \notin {"off", "armed"} => saver = launch
  BY DEF Given, Owned, Enabled
<1>3. CASE Launch
  <2>1. /\ launch' = launch + 1 /\ about' = saver /\ main' = "armed" /\ state' = Loaded
        /\ UNCHANGED <<file, saver, handler>> /\ main = "off"
    BY <1>3 DEF Launch
  <2>2. state'.count \in {0, file.count}
    BY <2>1 DEF Loaded
  <2>3. handler = "none"
    BY <2>1 DEF ActorTypes
  <2> QED
    BY <1>1, <2>1, <2>2, <2>3 DEF CountTypes, Fields
<1>4. CASE EnableState
  <2>1. /\ main = "armed" /\ main' = "saving" /\ saver' = launch /\ handler \in {"none", "done"}
        /\ state' = Reset(state) /\ file' = Saved(Reset(state), FALSE)
        /\ UNCHANGED <<launch, about, handler>>
    BY <1>4 DEF EnableState, Free
  <2>2. state'.count = (IF state.crashedLast THEN 0 ELSE state.count) + 1
    BY <1>1, <2>1 DEF Reset
  <2>3. file'.count = state'.count /\ file'.cut = 0
    BY <2>1 DEF Saved
  <2> QED
    <3>1. state'.count <= launch /\ state'.count \in Nat
      BY <1>1, <2>1, <2>2 DEF CountTypes
    <3>2. /\ main' = "saving" /\ handler' # "noting" /\ saver' = launch /\ launch' = launch
          /\ about' <= launch' /\ file'.cut = 0 /\ file'.count <= saver'
      BY <2>1, <2>3, <3>1 DEF CountTypes
    <3> QED
      BY <3>1, <3>2 DEF CountTypes, Fields
<1>5. CASE SaveField
  <2>1. /\ main = "saving" /\ file' = [file EXCEPT !.cut = @ + 1] /\ UNCHANGED <<launch, state, handler, saver, about>>
        /\ main' = IF file.cut + 1 = Fields THEN "started" ELSE "saving"
    BY <1>5 DEF SaveField, WriteField, past
  <2>2. file'.cut = file.cut + 1 /\ file'.count = file.count
    BY <1>1, <2>1
  <2> QED
    BY <1>1, <2>1, <2>2 DEF CountTypes, Fields
<1>6. CASE Overwrite
  <2>1. /\ \E k \in 0..Fields, crashed \in BOOLEAN, early \in BOOLEAN :
             file' = [file EXCEPT !.cut = k, !.crashed = crashed, !.early = early]
        /\ main' = "started" /\ handler \in {"none", "done"}
        /\ UNCHANGED <<launch, state, handler, saver, about>>
    BY <1>1, <1>6 DEF Overwrite, Free
  <2>2. file'.cut \in 0..Fields /\ file'.count = file.count
    BY <1>1, <2>1
  <2> QED
    BY <1>1, <2>1, <2>2 DEF CountTypes, Fields
<1>7. CASE SendAll \/ SendReport \/ SkipReport \/ ListReports \/ DeleteReport \/ EndSending
  <2>1. /\ UNCHANGED <<launch, state, file, handler, saver, about>>
        /\ main' = main \/ main' \in {"blocked", "running"}
    BY <1>7 DEF SendAll, SendReport, SkipReport, ListReports, DeleteReport, EndSending, disk, past
  <2> QED
    BY <2>1 DEF CountTypes
<1>8. ASSUME NEW early \in BOOLEAN, Crash(early) PROVE CountTypes'
  <2>1. UNCHANGED <<launch, saver, about>>
    BY <1>8 DEF Crash
  <2>2. CASE enabled
    <3>1. /\ state' = [state EXCEPT !.crashedThis = TRUE] /\ file' = Saved(state', early)
          /\ handler' = "noting" /\ main' = IF main = "saving" THEN "overwriting" ELSE main
      BY <1>8, <2>2 DEF Crash
    <3>2. file'.count = state.count /\ file'.cut = 0 /\ state'.count = state.count
      BY <1>1, <3>1 DEF Saved
    <3>3. saver = launch
      BY <2>2 DEF Given, Owned
    <3> QED
      BY <1>1, <2>1, <3>1, <3>2, <3>3 DEF CountTypes, Fields
  <2>3. CASE ~enabled
    <3>1. handler' = "create" /\ UNCHANGED <<state, file, main>>
      BY <1>8, <2>3 DEF Crash
    <3> QED
      BY <2>1, <3>1 DEF CountTypes
  <2> QED
    BY <2>2, <2>3
<1>9. CASE NoteField
  <2>1. /\ handler = "noting" /\ file' = [file EXCEPT !.cut = @ + 1] /\ UNCHANGED <<launch, main, state, saver, about>>
        /\ handler' = IF file.cut + 1 = Fields THEN "create" ELSE "noting"
    BY <1>9 DEF NoteField, WriteField
  <2>2. file'.cut = file.cut + 1 /\ file'.count = file.count
    BY <1>1, <2>1
  <2> QED
    BY <1>1, <2>1, <2>2 DEF CountTypes, Fields
<1>10. CASE /\ UNCHANGED <<launch, main, state, file, saver, about>>
            /\ handler' = "noting" => handler = "noting"
  BY <1>10 DEF CountTypes
<1>11. CASE CreateReport \/ CloseReport \/ Recrash \/ ReopenReport \/ EmbedOld \/ RemoveOld
  BY <1>10, <1>11 DEF CreateReport, CloseReport, Recrash, ReopenReport, EmbedOld, RemoveOld, Finish, past
<1>12. CASE End
  <2>1. main' = "off" /\ handler' = "none" /\ state' = Blank /\ UNCHANGED <<launch, file, saver, about>>
    BY <1>12 DEF End, disk
  <2> QED
    BY <1>1, <2>1 DEF CountTypes, Blank
<1>13. CASE UNCHANGED vars
  BY <1>10, <1>13 DEF vars, process, disk, past
<1> QED
  BY <1>3, <1>4, <1>5, <1>6, <1>7, <1>8, <1>9, <1>11, <1>12, <1>13 DEF Next

LEMMA NextPast == ASSUME ClockTypes, ActorTypes, StoreTypes, PastTypes, [Next]_vars PROVE PastTypes'
<1> DEFINE Union == crashes \cup started \cup noted \cup hasty \cup skipped \cup late
<1>1. launch \in Nat /\ launch <= Launches
  BY Sizes DEF ClockTypes
<1>2. main # "off" => launch \in 1..launch
  BY <1>1 DEF ClockTypes
<1>3. CASE UNCHANGED <<launch, sent>> /\ Union' \subseteq Union \cup {launch} /\ main # "off"
  BY <1>2, <1>3 DEF PastTypes
<1>4. CASE UNCHANGED <<launch, sent, crashes, started, noted, hasty, skipped, late>>
  BY <1>4 DEF PastTypes
<1>5. CASE Launch
  <2>1. /\ launch' \in Nat /\ launch <= launch' /\ Union' \subseteq Union
        /\ sent' \in [1..Launches -> Nat]
    BY <1>1, <1>5 DEF Launch
  <2> QED
    BY <1>1, <2>1 DEF PastTypes
<1>6. CASE SendReport
  BY <1>6 DEF SendReport, PastTypes
<1>14. CASE SkipReport
  <2>1. /\ batch # <<>> /\ skipped' = skipped \cup Head(batch)
        /\ UNCHANGED <<launch, sent, crashes, started, noted, hasty, late>>
    BY <1>14 DEF SkipReport
  <2>2. Head(batch) \in Told
    BY <2>1 DEF StoreTypes
  <2> QED
    BY <2>1, <2>2 DEF PastTypes, Told
<1>7. CASE EnableState \/ SaveField \/ Overwrite
  BY <1>3, <1>4, <1>7 DEF EnableState, SaveField, Overwrite, past, outcome
<1>8. CASE SendAll \/ ListReports \/ DeleteReport \/ EndSending
  BY <1>4, <1>8 DEF SendAll, ListReports, DeleteReport, EndSending, past, outcome
<1>9. ASSUME NEW early \in BOOLEAN, Crash(early) PROVE PastTypes'
  BY <1>3, <1>9 DEF Crash, outcome
<1>10. CASE NoteField
  BY <1>3, <1>10 DEF NoteField, ActorTypes, outcome
<1>15. CASE CloseReport
  <2>1. /\ late' \subseteq late \cup dir[ReportName("json")].tells
        /\ UNCHANGED <<launch, sent, crashes, started, noted, hasty, skipped>>
        /\ main # "off"
    BY <1>15 DEF CloseReport, ActorTypes
  <2>2. launch \in 1..Len(ids) /\ ids[launch] \in IDs
    <3>1. launch \in 1..Len(ids)
      BY <1>1, <2>1 DEF ClockTypes
    <3> QED
      BY <3>1 DEF ClockTypes
  <2>3. ReportName("json") \in Names
    BY <2>2 DEF ReportName, Names
  <2>4. dir[ReportName("json")].tells \in Told
    BY <2>3 DEF StoreTypes
  <2> QED
    BY <2>1, <2>4 DEF PastTypes, Told
<1>11. CASE CreateReport \/ Recrash \/ ReopenReport \/ EmbedOld \/ RemoveOld
  BY <1>4, <1>11 DEF CreateReport, Recrash, ReopenReport, EmbedOld, RemoveOld, past, outcome
<1>12. CASE End \/ UNCHANGED vars
  BY <1>4, <1>12 DEF End, vars, past, outcome
<1> QED
  BY <1>5, <1>6, <1>7, <1>8, <1>9, <1>10, <1>11, <1>12, <1>14, <1>15 DEF Next

\* The names of this launch's reports.
Json(id) == <<id, "json">>
Own == ids[launch]

LEMMA OwnNames ==
  ASSUME ClockTypes, main # "off"
  PROVE  /\ launch \in 1..Launches /\ launch \in 1..launch /\ Own \in IDs
         /\ ReportName("json") = Json(Own) /\ ReportName("old") = <<Own, "old">>
         /\ ReportName("json") \in Names /\ ReportName("old") \in Names
<1>1. launch \in 1..Len(ids) /\ launch \in 1..Launches
  BY Sizes DEF ClockTypes
<1>2. Own \in IDs
  BY <1>1 DEF ClockTypes, Own
<1> QED
  BY <1>1, <1>2 DEF ClockTypes, ReportName, Own, Json, Names

LEMMA CountedNames == Counted \subseteq Names /\ There \subseteq Names
  BY DEF Counted, There

Files == [tells : Told, readable : BOOLEAN, there : BOOLEAN]

LEMMA FilesGrow == ASSUME ClockTypes, launch' \in Nat, launch <= launch' PROVE Files \subseteq Files' /\ Told \subseteq Told'
<1>1. launch \in Nat
  BY Sizes DEF ClockTypes
<1>2. Told \subseteq Told'
  BY <1>1 DEF Told
<1> QED
  BY <1>2 DEF Files

\* What the sender reads: the readable reports of the listed IDs.
Legible == {n \in Counted : dir[Json(n[1])].readable}

LEMMA AllReportsIs ==
  ASSUME StoreTypes
  PROVE  /\ AllReports \in Seq(Told) /\ Len(AllReports) = Cardinality(Legible)
         /\ DOMAIN AllReports = 1..Cardinality(Legible) /\ Cardinality(Legible) \in Nat
         /\ \A i \in 1..Cardinality(Legible) : AllReports[i] = dir[Json(Sorted(Legible)[i][1])].tells
<1>1. Legible \subseteq Names /\ Cardinality(Legible) \in Nat
  BY CountedNames, NamesFinite DEF Legible
<1>2. AllReports = [i \in 1..Cardinality(Legible) |-> dir[Json(Sorted(Legible)[i][1])].tells]
  BY DEF AllReports, Legible, Json
<1>3. \A i \in 1..Cardinality(Legible) : dir[Json(Sorted(Legible)[i][1])].tells \in Told
  <2> SUFFICES ASSUME NEW i \in 1..Cardinality(Legible) PROVE dir[Json(Sorted(Legible)[i][1])].tells \in Told
    OBVIOUS
  <2>1. Sorted(Legible)[i] \in Names
    BY <1>1, SortedIs
  <2>2. Json(Sorted(Legible)[i][1]) \in Names
    BY <2>1, NameParts DEF Json, Names
  <2>3. dir[Json(Sorted(Legible)[i][1])] \in Files
    BY <2>2 DEF StoreTypes, Files
  <2> QED
    BY <2>3 DEF Files
<1> QED
  BY <1>1, <1>2, <1>3

LEMMA NextStore == ASSUME ClockTypes, ActorTypes, StoreTypes, [Next]_vars PROVE StoreTypes'
<1>1. /\ dir \in [Names -> Files] /\ batch \in Seq(Told) /\ doomed \subseteq Names
  BY DEF StoreTypes, Files
<1>2. CASE /\ UNCHANGED launch /\ dir' \in [Names -> Files] /\ batch' \in Seq(Told) /\ doomed' \subseteq Names
  BY <1>2 DEF StoreTypes, Files, Told
<1>3. Nothing \in Files /\ \A t \in Told : Report(t, FALSE) \in Files
  BY DEF Nothing, Files, Told, Report
<1>4. CASE UNCHANGED <<launch, dir, batch, doomed>>
  BY <1>1, <1>2, <1>4
<1>5. CASE Launch
  <2>1. /\ launch' = launch + 1 /\ dir' = Pruned /\ UNCHANGED <<batch, doomed>>
    BY <1>5 DEF Launch
  <2>2. launch' \in Nat /\ launch <= launch'
    BY <2>1, Sizes DEF ClockTypes
  <2>3. Pruned \in [Names -> Files]
    BY <1>1, <1>3 DEF Pruned
  <2>4. dir' \in [Names -> Files'] /\ batch' \in Seq(Told')
    BY <1>1, <2>1, <2>2, <2>3, FilesGrow
  <2> QED
    BY <1>1, <2>1, <2>4 DEF StoreTypes, Files
<1>6. CASE EnableState \/ SaveField \/ Overwrite
  BY <1>4, <1>6 DEF EnableState, SaveField, Overwrite
<1>7. CASE SendAll
  BY <1>1, <1>2, <1>7, AllReportsIs DEF SendAll, disk
<1>8. CASE SendReport \/ SkipReport
  <2>1. batch' = Tail(batch) /\ batch # <<>> /\ UNCHANGED <<launch, dir, doomed>>
    BY <1>8 DEF SendReport, SkipReport, disk
  <2> QED
    BY <1>1, <1>2, <2>1
<1>9. CASE ListReports
  BY <1>1, <1>2, <1>9, CountedNames DEF ListReports, disk
<1>10. CASE DeleteReport
  <2> PICK n \in doomed : dir' = [dir EXCEPT ![n] = Nothing] /\ doomed' = doomed \ {n}
    BY <1>10 DEF DeleteReport
  <2>1. UNCHANGED <<launch, batch>>
    BY <1>10 DEF DeleteReport
  <2> QED
    BY <1>1, <1>2, <1>3, <2>1
<1>11. CASE EndSending
  BY <1>4, <1>11 DEF EndSending, disk
<1>12. ASSUME NEW early \in BOOLEAN, Crash(early) PROVE StoreTypes'
  BY <1>4, <1>12 DEF Crash
<1>13. CASE NoteField
  BY <1>4, <1>13 DEF NoteField
<1>14. ASSUME CreateReport \/ CloseReport \/ Recrash \/ ReopenReport \/ EmbedOld \/ RemoveOld
       PROVE  /\ main # "off" /\ UNCHANGED <<launch, batch, doomed>>
  BY <1>14 DEF CreateReport, CloseReport, Recrash, ReopenReport, EmbedOld, RemoveOld, ActorTypes
<1>15. main # "off" => /\ ReportName("json") \in Names /\ ReportName("old") \in Names
                       /\ Report({launch}, FALSE) \in Files
  BY <1>3, OwnNames DEF Told
<1>16. CASE CreateReport \/ ReopenReport
  <2>1. dir' = dir \/ dir' = [dir EXCEPT ![ReportName("json")] = Report({launch}, FALSE)]
    BY <1>16 DEF CreateReport, ReopenReport
  <2> QED
    BY <1>1, <1>2, <1>14, <1>15, <1>16, <2>1
<1>17. CASE CloseReport
  <2> PICK fits \in BOOLEAN : dir' = [dir EXCEPT ![ReportName("json")].readable = fits]
    BY <1>17 DEF CloseReport
  <2>1. [dir[ReportName("json")] EXCEPT !.readable = fits] \in Files
    BY <1>1, <1>14, <1>15, <1>17 DEF Files
  <2> QED
    BY <1>1, <1>2, <1>14, <1>15, <1>17, <2>1
<1>18. CASE Recrash
  <2>1. dir' = dir \/ dir' = [dir EXCEPT ![ReportName("old")] = dir[ReportName("json")],
                                        ![ReportName("json")] = Nothing]
    BY <1>18 DEF Recrash
  <2>2. dir[ReportName("json")] \in Files
    BY <1>1, <1>14, <1>15, <1>18
  <2> QED
    BY <1>1, <1>2, <1>3, <1>14, <1>15, <1>18, <2>1, <2>2
<1>19. CASE EmbedOld
  <2> DEFINE new == [dir[ReportName("json")] EXCEPT !.tells = @ \cup dir[ReportName("old")].tells]
  <2>1. dir' = [dir EXCEPT ![ReportName("json")] = new]
    BY <1>19 DEF EmbedOld
  <2>2. dir[ReportName("json")] \in Files /\ dir[ReportName("old")] \in Files
    BY <1>1, <1>14, <1>15, <1>19
  <2>3. new \in Files
    BY <2>2 DEF Files, Told
  <2> HIDE DEF new
  <2> QED
    BY <1>1, <1>2, <1>14, <1>19, <2>1, <2>3
<1>20. CASE RemoveOld
  <2>1. dir' = [dir EXCEPT ![ReportName("old")] = Nothing]
    BY <1>20 DEF RemoveOld
  <2> QED
    BY <1>1, <1>2, <1>3, <1>14, <1>20, <2>1
<1>21. CASE End
  BY <1>1, <1>2, <1>21 DEF End, disk
<1>22. CASE UNCHANGED vars
  BY <1>4, <1>22 DEF vars, process, disk
<1> QED
  BY <1>5, <1>6, <1>7, <1>8, <1>9, <1>10, <1>11, <1>12, <1>13, <1>16, <1>17, <1>18, <1>19,
     <1>20, <1>21, <1>22 DEF Next

LEMMA NextTypes == ASSUME Given, Types, [Next]_vars PROVE Types'
  BY NextClock, NextActors, NextCounts, NextStore, NextPast DEF Types

LEMMA TypesInvariant == Spec => [](Given /\ Types)
<1>1. Init => Given /\ Types
  BY InitGiven, InitTypes
<1>2. Given /\ Types /\ [Next]_vars => Given' /\ Types'
  BY NextGiven, NextTypes
<1> QED
  BY <1>1, <1>2, PTL DEF Spec

\* The state keeps its types over any number of launches; the sender holds nothing when
\* it is idle, and a handler that embeds an old report has one named.
THEOREM LaunchesTyped == Spec => []LaunchesTypeOK
<1>1. ASSUME Given, Types PROVE LaunchesTypeOK
  <2>1. launch * MaxStep <= Launches * MaxStep /\ launch \in Nat
    BY <1>1, Sizes DEF Types, ClockTypes
  <2>2. clock \in 0..(Launches * MaxStep) /\ launch \in 0..Launches /\ Len(ids) = launch
    <3>1. launch * MaxStep \in Nat /\ Launches * MaxStep \in Nat
      BY <2>1, Sizes
    <3> QED
      BY <1>1, <2>1, <3>1 DEF Types, ClockTypes
  <2>3. /\ saver \in 0..launch /\ about \in 0..launch
        /\ state \in [crashedLast : BOOLEAN, crashedThis : BOOLEAN, early : BOOLEAN, count : 0..Launches]
        /\ file \in [crashed : BOOLEAN, early : BOOLEAN, count : 0..Launches, cut : 0..Fields]
    <3>1. state.count \in 0..Launches /\ file.count \in 0..Launches /\ file.cut \in 0..Fields
      BY <1>1, Sizes DEF Given, Typed, Types, CountTypes, ClockTypes
    <3> QED
      BY <1>1, <2>1, <3>1 DEF Given, Typed, Types, CountTypes
  <2>4. /\ dir \in [Names -> [tells : SUBSET (1..Launches), readable : BOOLEAN, there : BOOLEAN]]
        /\ batch \in Seq(SUBSET (1..Launches)) /\ doomed \subseteq Names
    <3>1. Told \subseteq SUBSET (1..Launches)
      BY <2>2, Sizes DEF Told
    <3>2. [tells : Told, readable : BOOLEAN, there : BOOLEAN]
            \subseteq [tells : SUBSET (1..Launches), readable : BOOLEAN, there : BOOLEAN]
      BY <3>1
    <3>3. \A S, T, f : S \subseteq T /\ f \in [Names -> S] => f \in [Names -> T]
      OBVIOUS
    <3>4. \A S, T, f : S \subseteq T /\ f \in Seq(S) => f \in Seq(T)
      OBVIOUS
    <3> QED
      BY <1>1, <3>1, <3>2, <3>3, <3>4 DEF Types, StoreTypes
  <2> QED
    BY <1>1, <2>2, <2>3, <2>4 DEF Types, ActorTypes, Handlers, PastTypes, LaunchesTypeOK
<1> QED
  BY <1>1, TypesInvariant, PTL

-----------------------------------------------------------------------------
\* What a launch believes of the launches before it. A crash is noted if and only if
\* its first field is in the file of the launch that saved last.
NoteOnFile == /\ file.crashed /\ file.cut >= 1 <=> saver \in noted
              /\ file.crashed => saver \in crashes
              /\ handler = "noting" => file.crashed
              /\ main = "saving" => ~file.crashed
              /\ main = "overwriting" => saver \in crashes

\* A launch knows this of the saver before it, and notes nothing before it crashes.
NoteKnown ==
  /\ main # "off" => /\ about < launch /\ (state.crashedLast => about \in crashes)
                     /\ state.crashedLast <=> about \in noted
  /\ main = "armed" => saver < launch
  /\ main = "armed" \/ (main # "off" /\ handler = "none") => launch \notin noted

\* No launch after the saver has opened the file, and a file left torn is recorded so.
Saves == /\ noted \subseteq started /\ started \subseteq 1..saver /\ torn \subseteq 0..saver
         /\ saver \in torn => file.cut < Fields
         /\ Enabled => launch \in started \ torn
         /\ main = "off" /\ saver > 0 /\ file.cut < Fields => saver \in torn

\* The launches of which a note or a torn file remains, before launch m, and the
\* launches after the last of them that saved.
Marked(m) == {0} \cup {l \in noted \cup torn : l < m}
Later(m)  == {l \in started : \A x \in Marked(m) : l > x}
LastMark  == \E x \in Marked(launch) : \A y \in Marked(launch) : y <= x

CountOnFile == file.count = Cardinality(Later(saver))
CountKnown  == /\ main = "armed" => (IF state.crashedLast THEN 0 ELSE state.count)
                                      = Cardinality(Later(launch))
               /\ Enabled => state.count = file.count

History == NoteOnFile /\ NoteKnown /\ Saves /\ LastMark /\ CountOnFile /\ CountKnown

LEMMA InitHistory == Init => History
<1> SUFFICES ASSUME Init PROVE History
  OBVIOUS
<1>1. /\ saver = 0 /\ launch = 0 /\ main = "off" /\ handler = "none" /\ started = {} /\ noted = {} /\ torn = {}
      /\ file.count = 0 /\ file.cut = 0 /\ file.crashed = FALSE
  BY DEF Init
<1>2. NoteOnFile /\ NoteKnown /\ Saves
  BY <1>1 DEF NoteOnFile, NoteKnown, Saves, Enabled
<1>3. LastMark
  BY <1>1 DEF LastMark, Marked
<1>4. Cardinality(Later(saver)) = 0
  BY <1>1, FS_EmptySet DEF Later
<1> QED
  BY <1>1, <1>2, <1>3, <1>4 DEF History, CountOnFile, CountKnown, Enabled

\* The launches counted are finitely many, and all before or at the saver.
LEMMA LaterIs ==
  ASSUME Given, History, NEW m
  PROVE  IsFiniteSet(Later(m)) /\ Later(m) \subseteq 1..saver /\ Cardinality(Later(m)) \in Nat
<1>1. Later(m) \subseteq 1..saver
  BY DEF History, Saves, Later
<1>2. IsFiniteSet(1..saver)
  <2>1. 1 \in Int /\ saver \in Int
    BY DEF Given, Typed
  <2> QED
    BY <2>1, FS_Interval
<1> QED
  BY <1>1, <1>2, FS_Subset, FS_CardinalityType

LEMMA LaunchHistory == ASSUME Given, Types, History, Launch PROVE History'
<1>1. /\ main = "off" /\ launch' = launch + 1 /\ about' = saver /\ state' = Loaded /\ main' = "armed"
      /\ UNCHANGED <<handler, enabled, file, crashes, started, noted, torn, saver>>
  BY DEF Launch
<1>2. /\ launch \in Nat /\ saver \in 0..launch /\ noted \subseteq 1..saver /\ torn \subseteq 0..saver
      /\ file \in [crashed : BOOLEAN, early : BOOLEAN, count : Nat, cut : Nat]
  BY DEF Given, Typed, History, Saves
<1>3. /\ Loaded.crashedLast = (file.cut >= 1 /\ file.crashed)
      /\ Loaded.count = IF file.cut >= Fields THEN file.count ELSE 0
  BY DEF Loaded, Fields
<1>10. \A l \in noted \cup torn \cup started : l \in Nat /\ l <= saver
  BY <1>2 DEF History, Saves
<1>4. NoteOnFile' /\ handler = "none"
  BY <1>1 DEF History, NoteOnFile, Types, ActorTypes
<1>5. NoteKnown'
  <2>1. state'.crashedLast <=> saver \in noted
    BY <1>1, <1>3 DEF History, NoteOnFile
  <2>2. state'.crashedLast => saver \in crashes
    BY <1>1, <1>3 DEF History, NoteOnFile
  <2>3. saver < launch' /\ launch' \notin noted
    BY <1>1, <1>2
  <2> QED
    BY <1>1, <2>1, <2>2, <2>3 DEF NoteKnown
<1>6. Saves'
  BY <1>1 DEF History, Saves, Enabled
<1>7. LastMark'
  <2>1. PICK x \in Marked(launch) : \A y \in Marked(launch) : y <= x
    BY DEF History, LastMark
  <2>2. x \in Nat /\ x <= launch
    BY <1>2, <2>1 DEF Marked
  <2>3. \A y \in Marked(launch + 1) : y \in Marked(launch) \/ y = launch
    BY <1>2 DEF Marked
  <2>4. Marked(launch) \subseteq Marked(launch + 1)
    <3> SUFFICES ASSUME NEW l \in noted \cup torn, l < launch PROVE l < launch + 1
      BY DEF Marked
    <3> QED
      BY <1>2, <1>10
  <2>5. Marked(launch)' = Marked(launch + 1)
    BY <1>1 DEF Marked
  <2>6. CASE launch \in noted \cup torn
    <3>1. launch \in Marked(launch + 1)
      BY <1>2, <2>6 DEF Marked
    <3>2. \A y \in Marked(launch + 1) : y <= launch
      BY <1>2, <2>1, <2>2, <2>3
    <3> QED
      BY <2>5, <3>1, <3>2 DEF LastMark
  <2>7. CASE launch \notin noted \cup torn
    <3>1. Marked(launch + 1) = Marked(launch)
      BY <1>2, <2>3, <2>4, <2>7 DEF Marked
    <3> QED
      BY <2>1, <2>5, <3>1 DEF LastMark
  <2> QED
    BY <2>6, <2>7
<1>8. CountOnFile'
  BY <1>1 DEF History, CountOnFile, Later, Marked
<1>9. CountKnown'
  <2>1. Later(launch)' = Later(launch + 1)
    BY <1>1 DEF Later, Marked
  <2>2. (IF Loaded.crashedLast THEN 0 ELSE Loaded.count) = Cardinality(Later(launch + 1))
    <3>1. CASE saver \in noted \cup torn
      <4>1. saver \in Marked(launch + 1)
        BY <1>2, <3>1 DEF Marked
      <4>2. Later(launch + 1) = {}
        <5> SUFFICES ASSUME NEW l \in started, l > saver PROVE FALSE
          BY <4>1 DEF Later
        <5>1. l \in noted \cup torn \cup started
          OBVIOUS
        <5>2. l \in Nat /\ l <= saver
          BY <1>10, <5>1
        <5>3. saver \in Int
          BY <1>2
        <5> QED
          BY <5>2, <5>3
      <4>3. saver \in noted => Loaded.crashedLast
        BY <1>3 DEF History, NoteOnFile
      <4>4. saver \in torn => Loaded.count = 0
        BY <1>2, <1>3 DEF History, Saves, Fields
      <4> QED
        BY <3>1, <4>2, <4>3, <4>4, FS_EmptySet
    <3>2. CASE saver \notin noted \cup torn
      <4>1. Marked(launch + 1) = Marked(saver)
        <5>1. \A l \in noted \cup torn : l < launch + 1 <=> l < saver
          BY <1>2, <1>10, <3>2
        <5> QED
          BY <5>1 DEF Marked
      <4>2. Later(launch + 1) = Later(saver)
        BY <4>1 DEF Later
      <4>3. ~Loaded.crashedLast
        BY <1>3, <3>2 DEF History, NoteOnFile
      <4>4. file.count = Cardinality(Later(saver))
        BY DEF History, CountOnFile
      <4>5. CASE file.cut >= Fields
        BY <1>3, <4>2, <4>3, <4>4, <4>5
      <4>6. CASE ~(file.cut >= Fields)
        <5>1. saver = 0
          BY <1>1, <1>2, <3>2, <4>6 DEF History, Saves, Fields
        <5>2. Later(saver) = {}
          <6>1. started = {}
            BY <5>1 DEF History, Saves
          <6> QED
            BY <6>1 DEF Later
        <5> QED
          BY <1>3, <4>2, <4>3, <4>6, <5>2, FS_EmptySet
      <4> QED
        BY <4>5, <4>6
    <3> QED
      BY <3>1, <3>2
  <2> QED
    BY <1>1, <2>1, <2>2 DEF CountKnown, Enabled
<1> QED
  BY <1>4, <1>5, <1>6, <1>7, <1>8, <1>9 DEF History

LEMMA EnableHistory == ASSUME Given, Types, History, EnableState PROVE History'
<1>1. /\ main = "armed" /\ main' = "saving" /\ saver' = launch /\ started' = started \cup {launch}
      /\ state' = Reset(state) /\ file' = Saved(Reset(state), FALSE) /\ handler \in {"none", "done"}
      /\ UNCHANGED <<launch, handler, crashes, noted, torn, about>>
  BY DEF EnableState, Free
<1>2. /\ launch \in Nat /\ launch > 0 /\ saver \in 0..launch /\ saver < launch /\ launch \notin noted
      /\ \A l \in noted \cup torn \cup started : l \in Nat /\ l <= saver
      /\ state \in [crashedLast : BOOLEAN, crashedThis : BOOLEAN, early : BOOLEAN, count : Nat]
  BY <1>1 DEF Given, Typed, History, NoteKnown, Saves, Types, ClockTypes
<1>3. /\ file'.crashed = FALSE /\ file'.cut = 0 /\ file'.count = state'.count
      /\ state'.count = (IF state.crashedLast THEN 0 ELSE state.count) + 1
      /\ state'.crashedLast = state.crashedLast
  BY <1>1, <1>2 DEF Saved, Reset
<1>4. NoteOnFile'
  BY <1>1, <1>2, <1>3 DEF NoteOnFile
<1>5. NoteKnown'
  BY <1>1, <1>2, <1>3 DEF History, NoteKnown
<1>6. Saves'
  <2>1. launch \notin torn
    BY <1>2
  <2>2. noted' \subseteq started' /\ started' \subseteq 1..saver' /\ torn' \subseteq 0..saver'
    BY <1>1, <1>2 DEF History, Saves
  <2> QED
    BY <1>1, <2>1, <2>2 DEF Saves
<1>7. LastMark'
  BY <1>1 DEF History, LastMark, Marked
<1>8. Later(launch)' = Later(launch) \cup {launch} /\ launch \notin Later(launch)
  <2>1. Marked(launch)' = Marked(launch)
    BY <1>1 DEF Marked
  <2>2. \A x \in Marked(launch) : launch > x
    BY <1>2 DEF Marked
  <2> QED
    BY <1>1, <1>2, <2>1, <2>2 DEF Later
<1>9. Cardinality(Later(launch)') = Cardinality(Later(launch)) + 1
  BY <1>8, LaterIs, FS_AddElement
<1>10. Later(saver)' = Later(launch)'
  BY <1>1 DEF Later, Marked
<1>11. state'.count = Cardinality(Later(launch)) + 1
  BY <1>1, <1>3 DEF History, CountKnown
<1>12. CountOnFile' /\ CountKnown'
  BY <1>1, <1>3, <1>9, <1>10, <1>11 DEF CountOnFile, CountKnown
<1> QED
  BY <1>4, <1>5, <1>6, <1>7, <1>12 DEF History

\* A step of the launch that saved, at its own note.
LEMMA NotesKeepCounts ==
  ASSUME Given, History, Enabled, saver = launch,
         noted' \cup {launch} = noted \cup {launch}, UNCHANGED <<launch, started, torn, saver>>
  PROVE  Later(saver)' = Later(saver) /\ LastMark'
<1>1. launch \in Nat
  BY DEF Given, Typed
<1>2. \A l : l < launch => (l \in noted' <=> l \in noted)
  BY <1>1
<1>3. Marked(launch)' = Marked(launch) /\ Marked(saver)' = Marked(saver)
  BY <1>1, <1>2 DEF Marked
<1> QED
  BY <1>3 DEF Later, LastMark, History

LEMMA FieldHistory ==
  ASSUME Given, Types, History, SaveField \/ NoteField \/ Overwrite PROVE History'
<1>1. /\ Enabled /\ saver = launch /\ Enabled' /\ main' # "armed" /\ main # "off" /\ main' # "off"
      /\ UNCHANGED <<launch, state, saver, about, started, torn, crashes>>
  <2>1. CASE SaveField \/ Overwrite
    BY <2>1 DEF SaveField, Overwrite, Given, Owned, Enabled, past
  <2>2. CASE NoteField
    BY <2>2 DEF NoteField, Given, Owned, Enabled
  <2> QED
    BY <2>1, <2>2
<1>2. /\ launch \in Nat /\ launch > 0 /\ about < launch /\ launch \notin torn
      /\ file \in [crashed : BOOLEAN, early : BOOLEAN, count : Nat, cut : Nat]
      /\ noted \subseteq 1..launch /\ launch \in started
  <2> QED
    BY <1>1 DEF Given, Typed, History, NoteKnown, Saves, Types, ClockTypes
<1>3. file'.count = file.count /\ noted' \cup {launch} = noted \cup {launch}
  <2>1. CASE SaveField \/ NoteField
    BY <1>2, <2>1 DEF SaveField, NoteField, WriteField, past
  <2>2. CASE Overwrite
    BY <1>2, <2>2 DEF Overwrite
  <2> QED
    BY <2>1, <2>2
<1>4. NoteOnFile'
  <2>1. CASE SaveField
    <3>1. /\ main = "saving" /\ noted' = noted /\ ~file.crashed /\ handler' # "noting"
      BY <2>1 DEF SaveField, past, History, NoteOnFile, Free
    <3>2. launch \notin noted
      BY <1>1, <3>1 DEF History, NoteOnFile
    <3> QED
      BY <1>1, <1>2, <1>3, <2>1, <3>1, <3>2 DEF NoteOnFile, SaveField, WriteField, History
  <2>2. CASE NoteField
    <3>1. /\ file' = [file EXCEPT !.cut = @ + 1] /\ noted' = noted \cup {launch} /\ file.crashed
          /\ main' = main /\ handler = "noting"
      BY <2>2 DEF NoteField, WriteField, History, NoteOnFile
    <3>2. file'.cut >= 1 /\ main # "saving"
      BY <1>2, <3>1 DEF Types, CountTypes
    <3>3. file'.crashed /\ saver \in crashes
      BY <1>2, <3>1 DEF History, NoteOnFile
    <3> QED
      BY <1>1, <3>1, <3>2, <3>3 DEF NoteOnFile
  <2>3. CASE Overwrite
    <3> PICK k \in 0..Fields, crashed \in BOOLEAN, early \in BOOLEAN :
           /\ file' = [file EXCEPT !.cut = k, !.crashed = crashed, !.early = early]
           /\ noted' = IF k >= 1 /\ crashed THEN noted \cup {launch} ELSE noted \ {launch}
      BY <1>2, <2>3 DEF Overwrite
    <3>1. main = "overwriting" /\ main' = "started" /\ handler' # "noting"
      BY <2>3 DEF Overwrite, Free
    <3>2. saver \in crashes
      BY <3>1 DEF History, NoteOnFile
    <3>3. file'.cut = k /\ file'.crashed = crashed /\ k \in Nat
      BY <1>2 DEF Fields
    <3> QED
      BY <1>1, <1>2, <3>1, <3>2, <3>3 DEF NoteOnFile
  <2> QED
    BY <2>1, <2>2, <2>3
<1>5. NoteKnown'
  <2>1. /\ state.crashedLast => about \in crashes
        /\ state.crashedLast <=> about \in noted
    BY <1>1 DEF History, NoteKnown
  <2>2. about \in noted' <=> about \in noted
    BY <1>2, <1>3
  <2>3. handler' = "none" => launch \notin noted'
    BY <1>1 DEF SaveField, NoteField, Overwrite, past, Given, Owned, History, NoteKnown
  <2> QED
    BY <1>1, <1>2, <2>1, <2>2, <2>3 DEF NoteKnown
<1>6. Saves'
  <2>1. noted' \subseteq started
    BY <1>2, <1>3 DEF History, Saves
  <2> QED
    BY <1>1, <1>2, <2>1 DEF History, Saves
<1>7. Later(saver)' = Later(saver) /\ LastMark'
  BY <1>1, <1>3, NotesKeepCounts
<1>8. CountOnFile' /\ CountKnown'
  BY <1>1, <1>3, <1>7 DEF History, CountOnFile, CountKnown
<1> QED
  BY <1>4, <1>5, <1>6, <1>7, <1>8 DEF History

LEMMA CrashHistory == ASSUME Given, Types, History, NEW early \in BOOLEAN, Crash(early) PROVE History'
<1>1. /\ main # "off" /\ handler = "none" /\ crashes' = crashes \cup {launch}
      /\ UNCHANGED <<launch, enabled, started, noted, torn, saver, about>>
  BY DEF Crash
<1>2. /\ launch \in Nat /\ about < launch /\ launch \notin noted
      /\ state \in [crashedLast : BOOLEAN, crashedThis : BOOLEAN, early : BOOLEAN, count : Nat]
  BY <1>1 DEF Given, Typed, History, NoteKnown
<1>3. LastMark'
  BY <1>1 DEF History, LastMark, Marked
<1>4. Later(saver)' = Later(saver) /\ Later(launch)' = Later(launch)
  BY <1>1 DEF Later, Marked
<1>5. CASE enabled
  <2>1. /\ state' = [state EXCEPT !.crashedThis = TRUE] /\ file' = Saved(state', early)
        /\ handler' = "noting" /\ main' = IF main = "saving" THEN "overwriting" ELSE main
    BY <1>5 DEF Crash
  <2>2. saver = launch /\ Enabled
    BY <1>5 DEF Given, Owned
  <2>3. /\ file'.crashed = TRUE /\ file'.cut = 0 /\ file'.count = state.count
        /\ state'.crashedLast = state.crashedLast /\ state'.count = state.count
    BY <1>2, <2>1 DEF Saved
  <2>4. /\ main' # "saving" /\ main' # "armed" /\ main' # "off"
    BY <2>1, <2>2 DEF Enabled
  <2>5. NoteOnFile'
    BY <1>1, <1>2, <2>1, <2>2, <2>3, <2>4 DEF NoteOnFile
  <2>6. NoteKnown'
    BY <1>1, <1>2, <2>1, <2>3, <2>4 DEF History, NoteKnown
  <2>7. Saves'
    BY <1>1, <2>2, <2>3, <2>4 DEF History, Saves, Fields, Enabled
  <2>8. state.count = file.count /\ file.count = Cardinality(Later(saver))
    BY <2>2 DEF History, CountOnFile, CountKnown
  <2>9. CountOnFile' /\ CountKnown'
    BY <1>4, <2>3, <2>4, <2>8 DEF CountOnFile, CountKnown
  <2> QED
    BY <1>3, <2>5, <2>6, <2>7, <2>9 DEF History
<1>6. CASE ~enabled
  <2>1. handler' = "create" /\ UNCHANGED <<state, file, main>>
    BY <1>6 DEF Crash
  <2>2. NoteOnFile' /\ NoteKnown' /\ Saves'
    BY <1>1, <1>2, <2>1 DEF History, NoteOnFile, NoteKnown, Saves, Enabled
  <2>3. CountOnFile' /\ CountKnown'
    BY <1>4, <2>1 DEF History, CountOnFile, CountKnown, Enabled
  <2> QED
    BY <1>3, <2>2, <2>3 DEF History
<1> QED
  BY <1>5, <1>6

\* Sending and reporting leave the history alone, but the launch may go on.
LEMMA OtherHistory ==
  ASSUME Given, History,
         UNCHANGED <<launch, state, file, crashes, started, noted, torn, saver, about>>,
         main' = main \/ (Enabled /\ main' \in {"blocked", "running"}),
         handler' = handler \/ (handler # "none" /\ handler' \notin {"none", "noting"})
  PROVE  History'
<1>1. /\ (main' = "off" <=> main = "off") /\ (main' = "armed" <=> main = "armed")
      /\ (Enabled' <=> Enabled) /\ (main' = "saving" => main = "saving")
  BY DEF Enabled
<1>2. NoteOnFile' /\ NoteKnown' /\ Saves'
  BY <1>1 DEF History, NoteOnFile, NoteKnown, Saves
<1>3. LastMark' /\ CountOnFile' /\ CountKnown'
  BY <1>1 DEF History, LastMark, CountOnFile, CountKnown, Later, Marked
<1> QED
  BY <1>2, <1>3 DEF History

LEMMA EndHistory == ASSUME Given, Types, History, End PROVE History'
<1>1. /\ main # "off" /\ main' = "off" /\ handler' = "none"
      /\ torn' = IF file.cut < Fields THEN torn \cup {saver} ELSE torn
      /\ UNCHANGED <<launch, file, crashes, started, noted, saver, about>>
  BY DEF End, disk
<1>2. /\ launch \in Nat /\ saver \in 0..launch
      /\ \A l \in noted \cup torn \cup started : l \in Nat /\ l <= saver
  BY DEF Given, Typed, History, Saves
<1>3. NoteOnFile' /\ NoteKnown'
  BY <1>1 DEF History, NoteOnFile, NoteKnown
<1>4. Saves'
  <2>1. torn' \subseteq 0..saver /\ (saver \in torn' => file.cut < Fields)
    BY <1>1, <1>2 DEF History, Saves
  <2> QED
    BY <1>1, <2>1 DEF History, Saves, Enabled
<1>5. LastMark'
  <2>1. PICK x \in Marked(launch) : \A y \in Marked(launch) : y <= x
    BY DEF History, LastMark
  <2>2. CASE torn' = torn
    BY <1>1, <2>2 DEF History, LastMark, Marked
  <2>3. CASE torn' = torn \cup {saver} /\ saver < launch
    <3>1. saver \in Marked(launch)'
      BY <1>1, <2>3 DEF Marked
    <3>2. \A y \in Marked(launch)' : y <= saver
      BY <1>1, <1>2, <2>3 DEF Marked
    <3> QED
      BY <3>1, <3>2 DEF LastMark
  <2>4. CASE torn' = torn \cup {saver} /\ ~(saver < launch)
    <3>1. Marked(launch)' = Marked(launch)
      BY <1>1, <2>4 DEF Marked
    <3> QED
      BY <2>1, <3>1, <1>1 DEF LastMark
  <2> QED
    BY <1>1, <2>2, <2>3, <2>4
<1>6. CountOnFile'
  <2>1. Marked(saver)' = Marked(saver)
    BY <1>1, <1>2 DEF Marked
  <2> QED
    BY <1>1, <2>1 DEF History, CountOnFile, Later
<1>7. CountKnown'
  BY <1>1 DEF CountKnown, Enabled
<1> QED
  BY <1>3, <1>4, <1>5, <1>6, <1>7 DEF History

LEMMA NextHistory == ASSUME Given, Types, History, [Next]_vars PROVE History'
<1>1. CASE Launch \/ EnableState \/ SaveField \/ Overwrite \/ NoteField \/ End
  BY <1>1, LaunchHistory, EnableHistory, FieldHistory, EndHistory
<1>2. ASSUME NEW early \in BOOLEAN, Crash(early) PROVE History'
  BY <1>2, CrashHistory
<1>3. CASE SendAll \/ SendReport \/ SkipReport \/ ListReports \/ DeleteReport \/ EndSending
  BY <1>3, OtherHistory DEF SendAll, SendReport, SkipReport, ListReports, DeleteReport, EndSending, disk, past, Enabled
<1>4. CASE CreateReport \/ CloseReport
  BY <1>4, OtherHistory DEF CreateReport, CloseReport, Finish, past
<1>5. CASE Recrash
  BY <1>5, OtherHistory DEF Recrash, past
<1>6. CASE ReopenReport \/ EmbedOld
  BY <1>6, OtherHistory DEF ReopenReport, EmbedOld, past
<1>7. CASE RemoveOld
  BY <1>7, OtherHistory DEF RemoveOld, past
<1>8. CASE UNCHANGED vars
  BY <1>8, OtherHistory DEF vars, process, disk, past
<1> QED
  BY <1>1, <1>2, <1>3, <1>4, <1>5, <1>6, <1>7, <1>8 DEF Next

\* Whatever launches crash, are killed while the file is written, or never open it, a
\* launch reads a crash from the state file only if the launch before that saved had
\* one, misses no crash whose note survived, and counts the launches since.
THEOREM CrashHistoryStaysTrue == Spec => []CrashHistoryTrue
<1>1. ASSUME Given, Types, History, main # "off" PROVE CrashHistoryTrue
  <2> DEFINE M == {0} \cup {l \in noted \cup torn : l < launch}
  <2>1. (state.crashedLast => about \in crashes) /\ (about \in noted => state.crashedLast)
    BY <1>1 DEF History, NoteKnown
  <2>2. ASSUME main # "armed"
        PROVE  state.count = Cardinality({l \in started : l > Max(M)})
    <3>1. M = Marked(launch)
      BY DEF Marked
    <3>2. PICK x \in M : \A y \in M : y <= x
      BY <1>1, <3>1 DEF History, LastMark
    <3>3. \A y \in M : y \in Int
      BY <1>1 DEF Given, Typed, History, Saves
    <3>4. Max(M) \in M /\ \A y \in M : Max(M) >= y
      <4>1. \E z \in M : \A y \in M : z >= y
        BY <3>2, <3>3
      <4> HIDE DEF M
      <4> QED
        BY <4>1 DEF Max
    <3>5. \A l \in started : l \in Int
      BY <1>1 DEF Given, Typed, History, Saves
    <3>6. {l \in started : l > Max(M)} = {l \in started : \A y \in M : l > y}
      <4> HIDE DEF M
      <4> QED
        BY <3>3, <3>4, <3>5
    <3>7. {l \in started : l > Max(M)} = Later(launch)
      BY <3>1, <3>6 DEF Later
    <3>8. state.count = file.count /\ saver = launch
      BY <1>1, <2>2 DEF History, CountKnown, Given, Owned, Enabled
    <3> QED
      BY <1>1, <3>7, <3>8 DEF History, CountOnFile
  <2> QED
    BY <2>1, <2>2 DEF CrashHistoryTrue
<1>2. Given /\ Types /\ History => CrashHistoryTrue
  BY <1>1 DEF CrashHistoryTrue
<1>3. Init => Given /\ Types /\ History
  BY InitGiven, InitTypes, InitHistory
<1>4. Given /\ Types /\ History /\ [Next]_vars => Given' /\ Types' /\ History'
  BY NextGiven, NextTypes, NextHistory
<1> QED
  BY <1>2, <1>3, <1>4, PTL DEF Spec

-----------------------------------------------------------------------------
\* The reports that the sender deletes. Once it has begun, the crashes of every report
\* that can be read are settled - sent, passed over, or finished too late - or are to be.
\* A recrash report is not to be read while it takes in the report before it.
Settled == {l \in 1..Launches : sent[l] > 0} \cup skipped \cup late
Pending == UNION {batch[i] : i \in DOMAIN batch}
Owed(r) == r.there /\ r.readable
Delivered == sender # "idle" => \A id \in IDs \ {0} : LET r == dir[Json(id)]
                                                      IN Owed(r) => r.tells \subseteq Settled \cup Pending
Unread   == handler = "embed" => ~dir[Json(Own)].readable
Delivery == Delivered /\ Unread

LEMMA JsonNames == \A id \in IDs : Json(id) \in Names /\ Json(id)[1] = id /\ Json(id)[2] = "json"
  BY DEF Json, Names

LEMMA SendAllDelivers == ASSUME Types, Delivery, SendAll PROVE Delivery'
<1>1. /\ batch' = AllReports /\ handler' \in {"none", "done"} /\ dir' = dir
  BY DEF SendAll, disk, Free
<1>2. ASSUME NEW id \in IDs \ {0}, dir[Json(id)].there, dir[Json(id)].readable
      PROVE  \E i \in DOMAIN AllReports : AllReports[i] = dir[Json(id)].tells
  <2>1. Json(id) \in Legible /\ Legible \subseteq Names
    BY <1>2, JsonNames, CountedNames, Sizes DEF Legible, Counted, There
  <2> PICK i \in 1..Cardinality(Legible) : Sorted(Legible)[i] = Json(id)
    BY <2>1, SortedIs
  <2> QED
    BY AllReportsIs, JsonNames DEF Types
<1>3. Delivered'
  <2> SUFFICES ASSUME NEW id \in IDs \ {0}, dir[Json(id)].there, dir[Json(id)].readable
               PROVE  dir[Json(id)].tells \subseteq Pending'
    BY <1>1 DEF Delivered, Owed
  <2> PICK i \in DOMAIN batch' : batch'[i] = dir[Json(id)].tells
    BY <1>1, <1>2
  <2> QED
    BY DEF Pending
<1> QED
  BY <1>1, <1>3 DEF Delivery, Unread

\* What the sink is given, to send or to pass over, is settled.
LEMMA GiveDelivers == ASSUME Types, Delivery, SendReport \/ SkipReport PROVE Delivery'
<1>1. /\ sender = "sending" /\ batch # <<>> /\ batch' = Tail(batch)
      /\ late' = late /\ UNCHANGED <<launch, handler, sender, dir, ids>>
  BY DEF SendReport, SkipReport, disk
<1>2. batch \in Seq(Told) /\ Len(batch) \in Nat /\ Head(batch) \subseteq 1..Launches
  <2>1. batch \in Seq(Told) /\ Len(batch) \in Nat
    BY DEF Types, StoreTypes
  <2>2. Head(batch) \in Told
    BY <1>1, <2>1
  <2> QED
    BY <2>1, <2>2, Sizes DEF Told, Types, ClockTypes
<1>3. Settled \cup Head(batch) \subseteq Settled'
  <2>1. sent \in [1..Launches -> Nat]
    BY DEF Types, PastTypes
  <2>2. CASE SendReport
    <3>1. /\ sent' = [l \in 1..Launches |-> sent[l] + (IF l \in Head(batch) THEN 1 ELSE 0)]
          /\ skipped' = skipped
      BY <2>2 DEF SendReport
    <3>2. \A l \in 1..Launches : l \in Head(batch) \/ sent[l] > 0 => sent'[l] > 0
      BY <2>1, <3>1
    <3> QED
      BY <1>1, <1>2, <3>1, <3>2 DEF Settled
  <2>3. CASE SkipReport
    BY <1>1, <2>3 DEF SkipReport, Settled
  <2> QED
    BY <2>2, <2>3
<1>4. Pending \subseteq Head(batch) \cup Pending'
  <2> SUFFICES ASSUME NEW i \in DOMAIN batch
               PROVE  batch[i] = Head(batch) \/ \E j \in DOMAIN batch' : batch[i] = batch'[j]
    BY DEF Pending
  <2>1. i \in 1..Len(batch)
    BY <1>2
  <2>2. CASE i = 1
    BY <1>1, <1>2, <2>1, <2>2
  <2>3. CASE i # 1
    <3>1. i - 1 \in DOMAIN batch' /\ batch'[i - 1] = batch[i]
      BY <1>1, <1>2, <2>1, <2>3
    <3> QED
      BY <3>1
  <2> QED
    BY <2>2, <2>3
<1>5. Delivered'
  <2> SUFFICES ASSUME NEW id \in IDs \ {0}, Owed(dir[Json(id)])
               PROVE  dir[Json(id)].tells \subseteq Settled' \cup Pending'
    BY <1>1 DEF Delivered, Owed
  <2>1. dir[Json(id)].tells \subseteq Settled \cup Pending
    BY <1>1 DEF Delivery, Delivered
  <2> QED
    BY <1>3, <1>4, <2>1
<1> QED
  BY <1>1, <1>5 DEF Delivery, Unread, Own

\* A report that comes, goes or changes owes nothing if it is gone or cannot be read.
LEMMA DirDelivers ==
  ASSUME Delivery, UNCHANGED <<sender, batch, sent, skipped, late>>, Unread',
         \A id \in IDs : Owed(dir'[Json(id)]) => dir'[Json(id)] = dir[Json(id)]
  PROVE  Delivery'
<1>1. Delivered'
  BY DEF Delivery, Delivered, Owed, Pending, Settled
<1> QED
  BY <1>1 DEF Delivery

\* The handler finishes a report, and too late if the sender has begun.
LEMMA CloseDelivers == ASSUME Types, Delivery, CloseReport PROVE Delivery'
<1>1. main # "off"
  BY DEF Types, ActorTypes, CloseReport
<1>2. Own \in IDs /\ ReportName("json") = Json(Own) /\ Json(Own) \in Names
  BY <1>1, OwnNames DEF Types
<1> PICK fits \in BOOLEAN : dir' = [dir EXCEPT ![Json(Own)].readable = fits]
  BY <1>2 DEF CloseReport
<1>3. /\ handler' = "done" /\ UNCHANGED <<sender, batch, sent, skipped>>
      /\ late' = IF sender = "idle" THEN late ELSE late \cup dir[Json(Own)].tells
  BY <1>2 DEF CloseReport, Finish
<1>4. \A id \in IDs : dir'[Json(id)] = dir[Json(id)] \/ (id = Own /\ dir'[Json(id)].tells = dir[Json(id)].tells)
  BY <1>2, JsonNames DEF Types, StoreTypes, Json
<1>5. Delivered'
  <2> SUFFICES ASSUME sender # "idle", NEW id \in IDs \ {0}, Owed(dir'[Json(id)])
               PROVE  dir'[Json(id)].tells \subseteq Settled' \cup Pending'
    BY <1>3 DEF Delivered
  <2>1. Settled \subseteq Settled' /\ Pending' = Pending
    BY <1>3 DEF Settled, Pending
  <2>2. CASE dir'[Json(id)] = dir[Json(id)]
    BY <2>1, <2>2 DEF Delivery, Delivered
  <2>3. CASE id = Own /\ dir'[Json(id)].tells = dir[Json(id)].tells
    BY <1>3, <2>3 DEF Settled
  <2> QED
    BY <1>4, <2>2, <2>3
<1> QED
  BY <1>3, <1>5 DEF Delivery, Unread

LEMMA NextDelivers == ASSUME Types, Delivery, [Next]_vars PROVE Delivery'
<1>1. dir \in [Names -> Files]
  BY DEF Types, StoreTypes, Files
<1>2. handler # "none" => main # "off"
  BY DEF Types, ActorTypes
<1>3. main # "off" => /\ Own \in IDs
                      /\ ReportName("json") = Json(Own) /\ ReportName("old") = <<Own, "old">>
                      /\ ReportName("json") \in Names /\ ReportName("old") \in Names
  BY OwnNames DEF Types
<1>4. \A id \in IDs : Json(id) # <<Own, "old">> /\ (Json(id) = Json(Own) => id = Own)
  BY DEF Json
<1>5. CASE Launch
  <2>1. UNCHANGED <<handler, sender>> /\ main = "off"
    BY <1>5 DEF Launch
  <2>2. sender = "idle" /\ handler = "none"
    BY <2>1 DEF Types, ActorTypes
  <2> QED
    BY <2>1, <2>2 DEF Delivery, Unread, Delivered
<1>6. CASE UNCHANGED <<launch, sender, ids, batch, dir, sent, skipped, late>> /\ handler' \in {"noting", "create", handler}
  BY <1>6, DirDelivers DEF Delivery, Unread, Own
<1>7. CASE EnableState \/ SaveField \/ Overwrite \/ NoteField
  BY <1>6, <1>7 DEF EnableState, SaveField, Overwrite, NoteField, past, outcome
<1>8. ASSUME NEW early \in BOOLEAN, Crash(early) PROVE Delivery'
  BY <1>6, <1>8 DEF Crash, outcome
<1>9. CASE ListReports
  <2>1. /\ sender = "sending" /\ UNCHANGED <<launch, handler, dir, ids, batch, sent, skipped, late>>
    BY <1>9 DEF ListReports, disk, past, outcome
  <2> QED
    BY <2>1 DEF Delivery, Unread, Delivered, Own, Owed, Pending, Settled
<1>10. CASE DeleteReport
  <2> PICK n \in doomed : dir' = [dir EXCEPT ![n] = Nothing]
    BY <1>10 DEF DeleteReport
  <2>1. handler' \in {"none", "done"} /\ UNCHANGED <<sender, batch, sent, skipped, late>>
    BY <1>10 DEF DeleteReport, Free, past, outcome
  <2>2. \A id \in IDs : dir'[Json(id)] \in {dir[Json(id)], Nothing}
    BY <1>1, JsonNames
  <2> QED
    BY <2>1, <2>2, DirDelivers DEF Owed, Nothing, Unread
<1>11. CASE EndSending \/ End
  BY <1>11 DEF EndSending, End, Free, Delivery, Unread, Delivered
<1>12. CASE CreateReport
  <2>1. /\ handler' \in {"done", "write"} /\ UNCHANGED <<sender, batch, sent, skipped, late>>
        /\ \/ dir' = dir
           \/ dir' = [dir EXCEPT ![Json(Own)] = Report({launch}, FALSE)]
    BY <1>2, <1>3, <1>12 DEF CreateReport, Finish, past, outcome
  <2>2. \A id \in IDs : dir'[Json(id)] \in {dir[Json(id)], Report({launch}, FALSE)}
    BY <1>1, <2>1, JsonNames
  <2> QED
    BY <2>1, <2>2, DirDelivers DEF Owed, Report, Unread
<1>14. CASE Recrash
  <2>1. /\ UNCHANGED <<sender, batch, sent, skipped, late>> /\ handler' \in {"reopen", "done"} /\ handler # "none"
        /\ \/ dir' = dir
           \/ dir' = [dir EXCEPT ![ReportName("old")] = dir[ReportName("json")], ![ReportName("json")] = Nothing]
    BY <1>14 DEF Recrash, past, outcome
  <2>2. \A id \in IDs : dir'[Json(id)] \in {dir[Json(id)], Nothing}
    BY <1>1, <1>2, <1>3, <1>4, <2>1, JsonNames
  <2> QED
    BY <2>1, <2>2, DirDelivers DEF Owed, Nothing, Unread
<1>15. CASE ReopenReport
  <2>1. /\ handler = "reopen" /\ UNCHANGED <<launch, ids, sender, batch, sent, skipped, late>>
        /\ dir' = [dir EXCEPT ![Json(Own)] = Report({launch}, FALSE)]
    BY <1>2, <1>3, <1>15 DEF ReopenReport, past, outcome
  <2>2. \A id \in IDs : dir'[Json(id)] \in {dir[Json(id)], Report({launch}, FALSE)}
    BY <1>1, <2>1, JsonNames
  <2>3. Unread'
    BY <1>1, <1>2, <1>3, <2>1, JsonNames DEF Unread, Own, Report
  <2> QED
    BY <2>1, <2>2, <2>3, DirDelivers DEF Owed, Report
<1>16. CASE EmbedOld
  <2>1. /\ handler = "embed" /\ handler' = "unlink" /\ UNCHANGED <<sender, batch, sent, skipped, late>>
        /\ dir' = [dir EXCEPT ![Json(Own)].tells = @ \cup dir[ReportName("old")].tells]
    BY <1>2, <1>3, <1>16 DEF EmbedOld, past, outcome
  <2>2. ~dir'[Json(Own)].readable
    BY <1>1, <1>2, <1>3, <2>1, JsonNames DEF Files, Delivery, Unread
  <2>3. \A id \in IDs : dir'[Json(id)] = dir[Json(id)] \/ id = Own
    BY <1>1, <1>4, <2>1, JsonNames
  <2> QED
    BY <2>1, <2>2, <2>3, DirDelivers DEF Owed, Unread
<1>17. CASE RemoveOld
  <2>1. /\ handler = "unlink" /\ handler' = "rest" /\ UNCHANGED <<sender, batch, sent, skipped, late>>
        /\ dir' = [dir EXCEPT ![<<Own, "old">>] = Nothing]
    BY <1>2, <1>3, <1>17 DEF RemoveOld, past, outcome
  <2>2. \A id \in IDs : dir'[Json(id)] = dir[Json(id)]
    BY <1>1, <1>4, <2>1, JsonNames
  <2> QED
    BY <2>1, <2>2, DirDelivers DEF Unread
<1>18. CASE UNCHANGED vars
  BY <1>6, <1>18 DEF vars, process, disk, past, outcome
<1> QED
  BY <1>5, <1>7, <1>8, <1>9, <1>10, <1>11, <1>12, <1>14, <1>15, <1>16, <1>17, <1>18,
     SendAllDelivers, GiveDelivers, CloseDelivers DEF Next

LEMMA InitDelivers == Init => Delivery
  BY DEF Init, Delivery, Delivered, Unread

\* Whatever the crash handler does to the store while the sender lists it, sends from it and
\* deletes in it, a readable report goes only after the crashes it tells of have been sent by
\* this launch, passed over by its sink, or finished after the sender had read the store.
THEOREM DeletedWasAlwaysSent == Spec => DeletedWasSent
<1> DEFINE Sent == sender = "deleting" /\ sender' = "deleting" =>
              \A id \in IDs \ {0} :
                LET n == <<id, "json">>
                IN dir[n].there /\ ~dir'[n].there /\ dir[n].readable
                     => dir[n].tells \subseteq {l \in 1..Launches : sent[l] > 0} \cup skipped \cup late
<1>1. ASSUME Types, Delivery PROVE Sent
  <2> SUFFICES ASSUME sender = "deleting", NEW id \in IDs \ {0}, Owed(dir[Json(id)])
               PROVE  dir[Json(id)].tells \subseteq Settled
    BY DEF Owed, Json, Settled
  <2>1. batch = <<>>
    BY <1>1 DEF Types, ActorTypes
  <2>2. Pending = {}
    BY <2>1 DEF Pending
  <2> QED
    BY <1>1, <2>2 DEF Delivery, Delivered
<1>2. Given /\ Types /\ Delivery => [Sent]_vars
  BY <1>1
<1>3. Init => Given /\ Types /\ Delivery
  BY InitGiven, InitTypes, InitDelivers
<1>4. Given /\ Types /\ Delivery /\ [Next]_vars => Given' /\ Types' /\ Delivery'
  BY NextGiven, NextTypes, NextDelivers
<1>5. Spec => [][Sent]_vars
  <2> HIDE DEF Sent
  <2> QED
    BY <1>2, <1>3, <1>4, PTL DEF Spec
<1> QED
  BY <1>5 DEF DeletedWasSent

-----------------------------------------------------------------------------
\* The size of the store. Pruning leaves no more reports than the limit, and a launch
\* adds only the one of its own ID, which lasts until the next launch prunes.
JsonCounted == {n \in Counted : n[2] = "json"}
Bounded == /\ main = "off" => Cardinality(JsonCounted) <= MaxReportCount + 1
           /\ main # "off" => Cardinality(JsonCounted \ {Json(Own)}) <= MaxReportCount

LEMMA JsonCountedIs ==
  /\ JsonCounted \subseteq Names /\ IsFiniteSet(JsonCounted) /\ Cardinality(JsonCounted) \in Nat
  /\ JsonCounted = {n \in Names : dir[n].there /\ n[1] > 0 /\ n[2] = "json"}
<1>1. JsonCounted = {n \in Names : dir[n].there /\ n[1] > 0 /\ n[2] = "json"}
  BY DEF JsonCounted, Counted, There
<1> QED
  BY <1>1, NamesFinite

LEMMA JsonCountedNext ==
  JsonCounted' \subseteq Names /\ JsonCounted' = {n \in Names : dir'[n].there /\ n[1] > 0 /\ n[2] = "json"}
  BY DEF JsonCounted, Counted, There

LEMMA InitBounded == Init => Bounded
<1> SUFFICES ASSUME Init PROVE Bounded
  OBVIOUS
<1>1. JsonCounted = {}
  BY JsonCountedIs DEF Init, Nothing
<1> QED
  BY <1>1, FS_EmptySet, Sizes DEF Bounded, Init

\* Of a set no larger than m, or of all but the first ones of a larger set, m are left.
LEMMA LastOnes ==
  ASSUME NEW S, S \subseteq Names, NEW m \in Nat, NEW T, T \subseteq S,
         \A n \in T : Rank(S, n) + 1 > Cardinality(S) - m
  PROVE  Cardinality(T) <= m
<1>1. IsFiniteSet(S) /\ Cardinality(S) \in Nat /\ T \subseteq Names
  BY NamesFinite
<1>2. CASE Cardinality(S) <= m
  <2>1. Cardinality(T) <= Cardinality(S) /\ Cardinality(T) \in Nat
    BY <1>1, FS_Subset, FS_CardinalityType
  <2> QED
    BY <1>1, <1>2, <2>1
<1>3. CASE Cardinality(S) > m
  <2> PICK a : a = Cardinality(S) - m
    OBVIOUS
  <2> PICK b : b = Cardinality(S) - 1
    OBVIOUS
  <2> DEFINE f == [n \in T |-> Rank(S, n)]
             R == a..b
  <2>1. a \in Int /\ b \in Int /\ (IF a > b THEN 0 ELSE b - a + 1) = m
    BY <1>1, <1>3
  <2>2. IsFiniteSet(R) /\ Cardinality(R) = m
    BY <2>1, FS_Interval
  <2>3. ASSUME NEW n \in T PROVE Rank(S, n) \in R
    <3>1. Rank(S, n) \in 0..(Cardinality(S) - 1)
      BY RankTypes
    <3>2. Rank(S, n) + 1 > Cardinality(S) - m
      OBVIOUS
    <3> QED
      BY <1>1, <3>1, <3>2
  <2>4. ASSUME NEW k \in T, NEW n \in T, f[k] = f[n] PROVE k = n
    BY <2>4, RankInjective
  <2>5. f \in [T -> R]
    BY <2>3
  <2> HIDE DEF f, R
  <2>6. f \in Injection(T, R)
    BY <2>4, <2>5 DEF Injection, IsInjective
  <2> QED
    BY <2>2, <2>6, FS_Injection
<1> QED
  BY <1>1, <1>2, <1>3

LEMMA PruneBounds ==
  ASSUME Types, Launch
  PROVE  Cardinality(JsonCounted') <= MaxReportCount
<1>1. dir \in [Names -> Files] /\ dir' = Pruned
  BY DEF Types, StoreTypes, Files, Launch
<1>2. JsonCounted' = {n \in Names : Pruned[n].there /\ n[1] > 0 /\ n[2] = "json"}
  BY <1>1, JsonCountedNext
<1> PICK N : N = Cardinality(Counted)
  OBVIOUS
<1>3. N \in Nat /\ Counted \subseteq Names /\ Len(ReportIDs) = N /\ MaxReportCount \in Nat
  BY NamesFinite, CountedNames, Sizes DEF ReportIDs
<1>4. ASSUME NEW n \in JsonCounted'
      PROVE  n \in Counted /\ Rank(Counted, n) + 1 > N - MaxReportCount
  <2>1. n \in Names /\ Pruned[n].there /\ n[1] > 0 /\ n[2] = "json"
    BY <1>2
  <2>2. /\ dir[n].there
        /\ ~ n[1] \in {ReportIDs[i] : i \in {k \in 1..N : k <= N - MaxReportCount}}
    BY <1>3, <2>1 DEF Pruned, Nothing
  <2>3. n \in Counted
    BY <2>1, <2>2 DEF Counted, There
  <2>4. Rank(Counted, n) + 1 \in 1..N /\ Sorted(Counted)[Rank(Counted, n) + 1] = n
    BY <1>3, <2>3, SortedIs
  <2>5. ReportIDs[Rank(Counted, n) + 1] = n[1]
    BY <2>4 DEF ReportIDs
  <2> QED
    BY <1>3, <2>2, <2>3, <2>4, <2>5
<1>5. JsonCounted' \subseteq Counted
  BY <1>4
<1> QED
  BY <1>3, <1>4, <1>5, LastOnes

LEMMA NextBounded == ASSUME Types, Bounded, [Next]_vars PROVE Bounded'
<1>1. dir \in [Names -> Files]
  BY DEF Types, StoreTypes, Files
<1>2. main # "off" => /\ Own \in IDs /\ ReportName("json") = Json(Own) /\ ReportName("old") = <<Own, "old">>
  BY OwnNames DEF Types
<1>3. ASSUME UNCHANGED <<launch, ids, main>> \/ (UNCHANGED <<launch, ids>> /\ main # "off" /\ main' # "off"),
             \A n \in Names : dir'[n].there => dir[n].there \/ n[2] = "old" \/ (main # "off" /\ n = Json(Own))
      PROVE  Bounded'
  <2>1. JsonCounted' \subseteq JsonCounted \cup (IF main # "off" THEN {Json(Own)} ELSE {})
    BY <1>3, JsonCountedIs, JsonCountedNext
  <2>2. CASE main # "off"
    <3>1. JsonCounted' \ {Json(Own)} \subseteq JsonCounted \ {Json(Own)} /\ JsonCounted \ {Json(Own)} \subseteq Names
      BY <2>1, <2>2, JsonCountedIs
    <3>2. /\ IsFiniteSet(JsonCounted \ {Json(Own)}) /\ Cardinality(JsonCounted \ {Json(Own)}) \in Nat
          /\ Cardinality(JsonCounted' \ {Json(Own)}) \in Nat
          /\ Cardinality(JsonCounted' \ {Json(Own)}) <= Cardinality(JsonCounted \ {Json(Own)})
      BY <3>1, NamesFinite, FS_Subset
    <3>3. Own' = Own /\ main' # "off"
      BY <1>3, <2>2 DEF Own
    <3> QED
      BY <2>2, <3>2, <3>3, Sizes DEF Bounded, Json
  <2>3. CASE main = "off"
    <3>1. JsonCounted' \subseteq JsonCounted /\ main' = "off"
      BY <1>3, <2>1, <2>3
    <3>2. /\ Cardinality(JsonCounted') \in Nat /\ Cardinality(JsonCounted') <= Cardinality(JsonCounted)
      BY <3>1, JsonCountedIs, FS_Subset, FS_CardinalityType
    <3> QED
      BY <2>3, <3>1, <3>2, JsonCountedIs, Sizes DEF Bounded
  <2> QED
    BY <2>2, <2>3
<1>4. CASE Launch
  <2>1. main' # "off" /\ JsonCounted' \subseteq Names /\ IsFiniteSet(JsonCounted')
    BY <1>4, JsonCountedNext, NamesFinite DEF Launch
  <2>2. Cardinality(JsonCounted' \ {Json(Own)'}) <= Cardinality(JsonCounted')
    BY <2>1, FS_Subset
  <2>3. Cardinality(JsonCounted') \in Nat /\ Cardinality(JsonCounted' \ {Json(Own)'}) \in Nat
    BY <2>1, NamesFinite
  <2> QED
    BY <1>4, <2>1, <2>2, <2>3, PruneBounds, Sizes DEF Bounded
<1>5. CASE EnableState \/ SaveField \/ Overwrite
  BY <1>3, <1>5 DEF EnableState, SaveField, Overwrite
<1>6. CASE SendAll \/ SendReport \/ SkipReport \/ ListReports \/ EndSending
  BY <1>3, <1>6 DEF SendAll, SendReport, SkipReport, ListReports, EndSending, disk, Free
<1>7. CASE DeleteReport
  <2>1. /\ UNCHANGED <<launch, ids, main>>
        /\ \E n \in doomed : dir' = [dir EXCEPT ![n] = Nothing]
    BY <1>7 DEF DeleteReport
  <2>2. \A n \in Names : dir'[n].there => dir[n].there
    BY <1>1, <2>1 DEF Nothing
  <2> QED
    BY <1>3, <2>1, <2>2
<1>8. ASSUME NEW early \in BOOLEAN, Crash(early) PROVE Bounded'
  BY <1>3, <1>8 DEF Crash
<1>9. CASE NoteField
  BY <1>3, <1>9 DEF NoteField
<1>10. CASE CreateReport \/ CloseReport \/ Recrash \/ ReopenReport \/ EmbedOld \/ RemoveOld
  <2>1. main # "off" /\ UNCHANGED <<launch, ids, main>>
    BY <1>10 DEF Types, ActorTypes, CreateReport, CloseReport, Recrash, ReopenReport, EmbedOld, RemoveOld
  <2>2. \A n \in Names : n # ReportName("json") /\ n # ReportName("old") => dir'[n] = dir[n]
    <3>1. CASE CreateReport \/ CloseReport
      BY <1>1, <3>1 DEF CreateReport, CloseReport
    <3>2. CASE Recrash
      BY <1>1, <3>2 DEF Recrash
    <3>3. CASE ReopenReport \/ EmbedOld \/ RemoveOld
      BY <1>1, <3>3 DEF ReopenReport, EmbedOld, RemoveOld
    <3> QED
      BY <1>10, <3>1, <3>2, <3>3
  <2>3. \A n \in Names : dir'[n].there => dir[n].there \/ n[2] = "old" \/ n = Json(Own)
    BY <1>2, <2>1, <2>2
  <2> QED
    BY <1>3, <2>1, <2>3
<1>11. CASE End
  <2>1. main # "off" /\ main' = "off" /\ dir' = dir
    BY <1>11 DEF End, disk
  <2>2. JsonCounted' = JsonCounted
    BY <2>1, JsonCountedIs, JsonCountedNext
  <2>3. JsonCounted \subseteq (JsonCounted \ {Json(Own)}) \cup {Json(Own)}
    OBVIOUS
  <2>4. IsFiniteSet(JsonCounted \ {Json(Own)}) /\ Cardinality(JsonCounted \ {Json(Own)}) \in Nat
    BY JsonCountedIs, NamesFinite
  <2>5. /\ IsFiniteSet((JsonCounted \ {Json(Own)}) \cup {Json(Own)})
        /\ Cardinality((JsonCounted \ {Json(Own)}) \cup {Json(Own)}) = Cardinality(JsonCounted \ {Json(Own)}) + 1
    BY <2>4, FS_AddElement
  <2>6. Cardinality(JsonCounted) <= Cardinality(JsonCounted \ {Json(Own)}) + 1
    BY <2>3, <2>5, FS_Subset
  <2> QED
    BY <2>1, <2>2, <2>4, <2>6, JsonCountedIs, Sizes DEF Bounded
<1>12. CASE UNCHANGED vars
  BY <1>3, <1>12 DEF vars, disk, process
<1> QED
  BY <1>4, <1>5, <1>6, <1>7, <1>8, <1>9, <1>10, <1>11, <1>12 DEF Next

\* However many launches crash and never come to send, and though a recrash leaves two
\* files of one ID that the pruning counts twice, the store holds at most one report
\* more than its limit, and the one with the ID 0 that it does not count.
THEOREM ReportsStayBounded == Spec => []ReportsBounded
<1>1. ASSUME Types, Bounded PROVE ReportsBounded
  <2> DEFINE kept == JsonCounted \ {Json(Own)}
             none == {<<0, "json">>} \cap Reports
  <2>1. JsonCounted \subseteq kept \cup {Json(Own)} /\ IsFiniteSet(kept) /\ Cardinality(kept) \in Nat
    BY JsonCountedIs, NamesFinite
  <2>2. /\ IsFiniteSet(kept \cup {Json(Own)})
        /\ Cardinality(kept \cup {Json(Own)}) = Cardinality(kept) + 1
    BY <2>1, FS_AddElement
  <2>3. Cardinality(JsonCounted) <= Cardinality(kept) + 1
    BY <2>1, <2>2, FS_Subset
  <2>4. Cardinality(JsonCounted) <= MaxReportCount + 1
    BY <1>1, <2>1, <2>3, JsonCountedIs, Sizes DEF Bounded
  <2>5. ASSUME NEW n \in Reports PROVE n \in JsonCounted \/ n = <<0, "json">>
    <3>1. n \in Names /\ dir[n].there /\ n[2] = "json"
      BY DEF Reports, There
    <3>2. n[1] \in IDs /\ n = <<n[1], n[2]>>
      BY <3>1, NameParts
    <3>3. n[1] > 0 \/ n[1] = 0
      BY <3>2, Sizes
    <3> QED
      BY <3>1, <3>2, <3>3, JsonCountedIs
  <2>6. Reports \subseteq Names /\ JsonCounted \subseteq Reports
    BY JsonCountedIs DEF Reports, There
  <2>7. CASE <<0, "json">> \notin Reports
    <3>1. Reports = JsonCounted
      BY <2>5, <2>6, <2>7
    <3> QED
      BY <2>4, <2>7, <3>1 DEF ReportsBounded
  <2>8. CASE <<0, "json">> \in Reports
    <3>1. Reports = JsonCounted \cup {<<0, "json">>}
      BY <2>5, <2>6, <2>8
    <3>2. Cardinality(JsonCounted \cup {<<0, "json">>}) = Cardinality(JsonCounted) + 1
      <4>1. <<0, "json">> \notin JsonCounted
        BY JsonCountedIs
      <4> QED
        BY <4>1, JsonCountedIs, FS_AddElement
    <3>3. Cardinality(Reports) \in Nat
      BY <2>6, NamesFinite
    <3> QED
      BY <2>4, <2>8, <3>1, <3>2, <3>3, JsonCountedIs, Sizes DEF ReportsBounded
  <2> QED
    BY <2>7, <2>8
<1>2. Init => Given /\ Types /\ Bounded
  BY InitGiven, InitTypes, InitBounded
<1>3. Given /\ Types /\ Bounded /\ [Next]_vars => Given' /\ Types' /\ Bounded'
  BY NextGiven, NextTypes, NextBounded
<1> QED
  BY <1>1, <1>2, <1>3, PTL DEF Spec
-----------------------------------------------------------------------------
\* Sending each crash once. As long as no two launches shared an ID, a file tells only
\* of the launch its ID belongs to, and an old report lies beside one that can be read
\* at no time the sender could see it: what is listed twice is then read at most once.
Old(id)  == <<id, "old">>
Distinct == \A j, k \in 1..launch : j # k => ids[j] # ids[k]
Filed    == \A n \in Names : dir[n].there => \E j \in 1..launch : n[1] = ids[j]
Unsent   == /\ sent \in [1..Launches -> Nat]
            /\ main \in {"armed", "saving", "overwriting", "started"} => \A l \in 1..Launches : sent[l] = 0

OfOneLaunch == \A n \in Names : \A l \in dir[n].tells : ids[l] = n[1]
OldUnread   == \A id \in IDs : dir[Old(id)].there => ~(dir[Json(id)].there /\ dir[Json(id)].readable)
OldGone     == main # "off" /\ handler \in {"none", "noting", "create", "write", "rest"}
                 => ~dir[Old(Own)].there
Separate    == \A i, j \in DOMAIN batch : i # j => batch[i] \cap batch[j] = {}
SentBefore  == \A l \in 1..Launches : sent[l] <= 1 /\ (sent[l] > 0 => l \notin Pending)

InFiles == OfOneLaunch /\ OldUnread /\ OldGone
Once    == Filed /\ Unsent /\ (Distinct => InFiles /\ Separate /\ SentBefore)

LEMMA OldNames == \A id \in IDs : /\ Old(id) \in Names /\ Json(id) \in Names
                                  /\ Old(id)[1] = id /\ Json(id)[1] = id
                                  /\ \A i \in IDs : /\ Old(id) # Json(i)
                                                    /\ Old(id) = Old(i) => id = i
                                                    /\ Json(id) = Json(i) => id = i
  BY DEF Old, Json, Names

LEMMA InitOnce == Init => Once
<1> SUFFICES ASSUME Init PROVE Once
  OBVIOUS
<1>1. dir = [n \in Names |-> Nothing] /\ batch = <<>> /\ sent = [l \in 1..Launches |-> 0] /\ main = "off"
  BY DEF Init
<1>2. \A n \in Names : dir[n] = Nothing
  BY <1>1
<1>3. Filed /\ OfOneLaunch /\ OldUnread /\ OldGone
  BY <1>1, <1>2, OldNames DEF Filed, OfOneLaunch, OldUnread, OldGone, Nothing
<1>4. Unsent /\ Separate /\ SentBefore
  BY <1>1 DEF Unsent, Separate, SentBefore, Pending
<1> QED
  BY <1>3, <1>4 DEF Once, InFiles

LEMMA LaunchOnce == ASSUME Types, Once, Launch PROVE Once'
<1>1. /\ main = "off" /\ main' = "armed" /\ launch' = launch + 1 /\ ids' = Append(ids, NextID(clock'))
      /\ dir' = Pruned /\ sent' = [l \in 1..Launches |-> 0] /\ UNCHANGED <<handler, sender, batch>>
  BY DEF Launch
<1>2. dir \in [Names -> Files] /\ sender = "idle" /\ batch = <<>> /\ launch \in Nat /\ ids \in Seq(IDs) /\ Len(ids) = launch
  BY <1>1, Sizes DEF Types, StoreTypes, ClockTypes, ActorTypes, Files
<1>3. /\ launch + 1 \in 1..launch' /\ \A j \in 1..launch : j \in 1..launch' /\ ids'[j] = ids[j] /\ j # launch + 1
  BY <1>1, <1>2
<1>4. /\ \A n \in Names : dir'[n] \in {dir[n], Nothing}
      /\ \A id \in IDs : dir'[Old(id)] = dir[Old(id)]
  <2>1. \A id \in IDs : Old(id)[2] = "old"
    BY DEF Old
  <2> QED
    BY <1>1, <2>1, OldNames DEF Pruned
<1>5. Filed'
  BY <1>3, <1>4 DEF Once, Filed, Nothing
<1>6. Unsent'
  BY <1>1 DEF Unsent
<1>7. Separate' /\ SentBefore'
  BY <1>1, <1>2 DEF Separate, SentBefore, Pending
<1>8. ASSUME Distinct' PROVE InFiles'
  <2>1. Distinct
    BY <1>3, <1>8 DEF Distinct
  <2>2. OfOneLaunch'
    <3> SUFFICES ASSUME NEW n \in Names, NEW l \in dir'[n].tells PROVE ids'[l] = n[1]
      BY DEF OfOneLaunch
    <3>1. dir'[n] = dir[n]
      BY <1>4 DEF Nothing
    <3>2. l \in 1..launch
      BY <1>2, <3>1 DEF Files, Told
    <3> QED
      BY <1>3, <2>1, <3>1, <3>2 DEF Once, InFiles, OfOneLaunch
  <2>3. OldUnread'
    BY <1>4, <2>1, OldNames DEF Once, InFiles, OldUnread, Nothing
  <2>4. OldGone'
    <3>1. Own' = ids'[launch + 1] /\ Own' \in IDs
      <4>1. NextID(clock') \in IDs
        <5>1. ClockTypes'
          BY NextClock DEF Types, Next
        <5>2. launch' \in 1..Len(ids') /\ ids'[launch'] = NextID(clock')
          BY <1>1, <1>2
        <5> QED
          BY <5>1, <5>2 DEF ClockTypes
      <4> QED
        BY <1>1, <1>2, <4>1 DEF Own
    <3>2. ~dir[Old(Own')].there
      <4> SUFFICES ASSUME NEW j \in 1..launch PROVE Own' # ids[j]
        BY <3>1, OldNames DEF Once, Filed
      <4> QED
        BY <1>3, <1>8, <3>1 DEF Distinct
    <3> QED
      BY <1>4, <3>1, <3>2 DEF OldGone
  <2> QED
    BY <2>2, <2>3, <2>4 DEF InFiles
<1> QED
  BY <1>5, <1>6, <1>7, <1>8 DEF Once

LEMMA SendAllOnce == ASSUME Types, Once, SendAll PROVE Once'
<1>1. /\ main = "started" /\ main' # "off" /\ main' \notin {"armed", "saving", "overwriting", "started"}
      /\ batch' = AllReports /\ UNCHANGED <<launch, handler, dir, ids, sent>>
  BY DEF SendAll, disk, past, outcome
<1>2. Filed' /\ Unsent' /\ (InFiles => InFiles') /\ (Distinct' => Distinct)
  BY <1>1 DEF Once, Filed, Unsent, InFiles, OfOneLaunch, OldUnread, OldGone, Own, Distinct
<1>3. SentBefore'
  BY <1>1 DEF Once, Unsent, SentBefore
<1>4. ASSUME Distinct PROVE Separate'
  <2>1. DOMAIN AllReports = 1..Cardinality(Legible) /\ Legible \subseteq Names
    BY AllReportsIs, CountedNames DEF Types, Legible
  <2> SUFFICES ASSUME NEW i \in 1..Cardinality(Legible), NEW j \in 1..Cardinality(Legible), i # j,
                      NEW l \in AllReports[i], l \in AllReports[j]
               PROVE  FALSE
    BY <1>1, <2>1 DEF Separate
  <2> PICK m \in Legible : m = Sorted(Legible)[i] /\ Rank(Legible, m) = i - 1
    BY <2>1, SortedIs
  <2> PICK n \in Legible : n = Sorted(Legible)[j] /\ Rank(Legible, n) = j - 1
    BY <2>1, SortedIs
  <2>2. m # n
    OBVIOUS
  <2>3. m \in Names /\ n \in Names /\ m[1] \in IDs /\ n[1] \in IDs
    BY <2>1, NameParts
  <2>4. l \in dir[Json(m[1])].tells /\ l \in dir[Json(n[1])].tells
    BY AllReportsIs DEF Types
  <2>5. m[1] = n[1]
    BY <1>4, <2>3, <2>4, OldNames DEF Once, InFiles, OfOneLaunch
  <2>6. \/ m = Old(m[1]) /\ n = Json(m[1])
        \/ n = Old(m[1]) /\ m = Json(m[1])
    BY <2>2, <2>3, <2>5, NameParts DEF Old, Json
  <2>7. dir[m].there /\ dir[n].there /\ dir[Json(m[1])].readable
    BY DEF Legible, Counted, There
  <2> QED
    BY <1>4, <2>3, <2>6, <2>7 DEF Once, InFiles, OldUnread
<1> QED
  BY <1>2, <1>3, <1>4 DEF Once

\* What is passed over is no longer pending.
LEMMA SkipReportOnce == ASSUME Types, Once, SkipReport PROVE Once'
<1>1. /\ batch # <<>> /\ batch' = Tail(batch) /\ UNCHANGED <<launch, main, handler, dir, ids, sent>>
  BY DEF SkipReport, disk
<1>2. batch \in Seq(Told)
  BY DEF Types, StoreTypes
<1>3. \A i \in DOMAIN batch' : /\ i \in Int /\ i + 1 \in DOMAIN batch
                               /\ batch'[i] = batch[i + 1]
  BY <1>1, <1>2
<1>4. Filed' /\ Unsent' /\ (InFiles => InFiles') /\ (Distinct' => Distinct)
  BY <1>1 DEF Once, Filed, Unsent, InFiles, OfOneLaunch, OldUnread, OldGone, Own, Distinct
<1>5. Separate => Separate'
  <2> SUFFICES ASSUME Separate, NEW i \in DOMAIN batch', NEW j \in DOMAIN batch', i # j
               PROVE  batch'[i] \cap batch'[j] = {}
    BY DEF Separate
  <2>1. i + 1 # j + 1
    BY <1>3
  <2> QED
    BY <1>3, <2>1 DEF Separate
<1>6. Pending' \subseteq Pending
  BY <1>3 DEF Pending
<1>7. SentBefore => SentBefore'
  BY <1>1, <1>6 DEF SentBefore
<1> QED
  BY <1>4, <1>5, <1>7 DEF Once

LEMMA SendReportOnce == ASSUME Types, Once, SendReport PROVE Once'
<1>1. /\ sender = "sending" /\ batch # <<>> /\ batch' = Tail(batch)
      /\ sent' = [l \in 1..Launches |-> sent[l] + (IF l \in Head(batch) THEN 1 ELSE 0)]
      /\ UNCHANGED <<launch, main, handler, dir, ids>>
  BY DEF SendReport, disk
<1>2. main \in {"off", "blocked", "running"} /\ batch \in Seq(Told)
  BY <1>1 DEF Types, ActorTypes, StoreTypes
<1>3. /\ 1 \in DOMAIN batch /\ Head(batch) = batch[1]
      /\ \A i \in DOMAIN batch' : i + 1 \in DOMAIN batch /\ i + 1 # 1 /\ batch'[i] = batch[i + 1]
  BY <1>1, <1>2
<1>4. Filed' /\ (InFiles => InFiles') /\ (Distinct' => Distinct)
  BY <1>1 DEF Once, Filed, InFiles, OfOneLaunch, OldUnread, OldGone, Own, Distinct
<1>5. Unsent'
  BY <1>1, <1>2 DEF Once, Unsent
<1>6. ASSUME Distinct PROVE Separate' /\ SentBefore'
  <2>1. Separate /\ SentBefore
    BY <1>6 DEF Once
  <2>2. Separate'
    <3> SUFFICES ASSUME NEW i \in DOMAIN batch', NEW j \in DOMAIN batch', i # j
                 PROVE  batch'[i] \cap batch'[j] = {}
      BY DEF Separate
    <3>1. i + 1 # j + 1
      <4>1. DOMAIN batch' \subseteq Int
        BY <1>1, <1>2
      <4> QED
        BY <4>1
    <3> QED
      BY <1>3, <2>1, <3>1 DEF Separate
  <2>3. Pending' \subseteq Pending /\ Pending' \cap Head(batch) = {} /\ Head(batch) \subseteq Pending
    BY <1>3, <2>1 DEF Pending, Separate
  <2>4. SentBefore'
    <3> SUFFICES ASSUME NEW l \in 1..Launches
                 PROVE  sent'[l] <= 1 /\ (sent'[l] > 0 => l \notin Pending')
      BY DEF SentBefore
    <3>1. sent[l] \in Nat /\ sent[l] <= 1 /\ (sent[l] > 0 => l \notin Pending)
      BY <2>1 DEF Once, Unsent, SentBefore
    <3>2. sent'[l] = sent[l] + (IF l \in Head(batch) THEN 1 ELSE 0)
      BY <1>1
    <3> QED
      BY <2>3, <3>1, <3>2
  <2> QED
    BY <2>2, <2>4
<1> QED
  BY <1>4, <1>5, <1>6 DEF Once

\* A step that sends nothing keeps this if the files do.
LEMMA FilesOnce ==
  ASSUME Types, Once, UNCHANGED <<launch, ids, sent>>, batch' \in {batch, <<>>},
         main' \in {"armed", "saving", "overwriting", "started"} => main \in {"armed", "saving", "overwriting", "started"},
         Filed', Distinct /\ InFiles => InFiles'
  PROVE  Once'
<1>1. Unsent' /\ (Distinct' => Distinct)
  BY DEF Once, Unsent, Distinct
<1>2. Separate => Separate'
  BY DEF Separate
<1>3. SentBefore => SentBefore'
  BY DEF SentBefore, Pending
<1> QED
  BY <1>1, <1>2, <1>3 DEF Once

\* So does one that leaves the files alone.
LEMMA SameFilesOnce ==
  ASSUME Types, Once, UNCHANGED <<launch, ids, sent, dir>>, batch' \in {batch, <<>>},
         main' \in {"armed", "saving", "overwriting", "started"} => main \in {"armed", "saving", "overwriting", "started"},
         \/ main' = "off" \/ handler' = "done"
         \/ main # "off" /\ handler' \in {handler, "noting", "create"} /\ (handler' # handler => handler \in {"none", "noting"})
         \/ main' = main /\ handler' = handler
  PROVE  Once'
<1>1. Filed' /\ (InFiles => InFiles')
  BY DEF Once, Filed, InFiles, OfOneLaunch, OldUnread, OldGone, Own
<1> QED
  BY <1>1, FilesOnce

LEMMA ReportOnce ==
  ASSUME Types, Once, CreateReport \/ CloseReport \/ Recrash \/ ReopenReport \/ EmbedOld \/ RemoveOld
  PROVE  Once'
<1>1. dir \in [Names -> Files]
  BY DEF Types, StoreTypes, Files
<1>2. main # "off" /\ UNCHANGED <<launch, ids, sent, batch, main>>
  BY DEF Types, ActorTypes, CreateReport, CloseReport, Recrash, ReopenReport, EmbedOld, RemoveOld, past, outcome
<1>3. /\ Own \in IDs /\ Own' = Own /\ launch \in 1..launch
      /\ ReportName("json") = Json(Own) /\ ReportName("old") = Old(Own)
      /\ Json(Own) \in Names /\ Old(Own) \in Names
  BY <1>2, OwnNames DEF Types, Own, Old
<1> PICK own : own = Own
  OBVIOUS
<1>4. /\ own \in IDs /\ Json(own) \in Names /\ Old(own) \in Names /\ ids[launch] = own
      /\ \A n \in Names : n[1] = own <=> n = Json(own) \/ n = Old(own)
  <2>1. \A n \in Names : n[1] = own <=> n = Json(own) \/ n = Old(own)
    BY NameParts DEF Json, Old
  <2> QED
    BY <1>3, <2>1 DEF Own
<1>5. SUFFICES ASSUME \A n \in Names : n[1] # own => dir'[n] = dir[n],
                      Distinct /\ InFiles =>
                        /\ \A n \in {Json(own), Old(own)} : \A l \in dir'[n].tells : ids[l] = own
                        /\ dir'[Old(own)].there => ~(dir'[Json(own)].there /\ dir'[Json(own)].readable)
                        /\ handler' \in {"none", "noting", "create", "write", "rest"} => ~dir'[Old(own)].there
               PROVE  Once'
  <2>1. CASE CreateReport
    <3>1. /\ handler = "create"
          /\ \/ handler' = "done" /\ dir' = dir
             \/ dir' = [dir EXCEPT ![Json(own)] = Report({launch}, FALSE)]
      BY <1>3, <2>1 DEF CreateReport, Finish
    <3>2. /\ dir'[Old(own)] = dir[Old(own)]
          /\ dir'[Json(own)] = dir[Json(own)] \/ dir'[Json(own)] = Report({launch}, FALSE)
          /\ \A n \in Names : n[1] # own => dir'[n] = dir[n]
      BY <1>1, <1>4, <3>1, OldNames
    <3> QED
      BY <1>2, <1>3, <1>4, <1>5, <3>1, <3>2, OldNames DEF InFiles, OfOneLaunch, OldUnread, OldGone, Report
  <2>2. CASE CloseReport
    <3>1. /\ handler \in {"write", "rest"} /\ handler' = "done"
          /\ \E fits \in BOOLEAN : dir' = [dir EXCEPT ![Json(own)].readable = fits]
      BY <1>3, <2>2 DEF CloseReport, Finish
    <3>2. /\ dir'[Old(own)] = dir[Old(own)] /\ dir'[Json(own)].tells = dir[Json(own)].tells
          /\ \A n \in Names : n[1] # own => dir'[n] = dir[n]
      BY <1>1, <1>4, <3>1, OldNames DEF Files
    <3> QED
      BY <1>2, <1>3, <1>4, <1>5, <3>1, <3>2, OldNames DEF InFiles, OfOneLaunch, OldUnread, OldGone
  <2>3. CASE Recrash
    <3>1. /\ handler' \in {"reopen", "done"}
          /\ \/ dir' = dir
             \/ dir' = [dir EXCEPT ![Old(own)] = dir[Json(own)], ![Json(own)] = Nothing]
      BY <1>3, <2>3 DEF Recrash
    <3>2. /\ \/ dir'[Old(own)] = dir[Old(own)] /\ dir'[Json(own)] = dir[Json(own)]
             \/ dir'[Old(own)] = dir[Json(own)] /\ dir'[Json(own)] = Nothing
          /\ \A n \in Names : n[1] # own => dir'[n] = dir[n]
      BY <1>1, <1>4, <3>1, OldNames
    <3> QED
      BY <1>2, <1>3, <1>4, <1>5, <3>1, <3>2, OldNames DEF InFiles, OfOneLaunch, OldUnread, Nothing
  <2>4. CASE ReopenReport
    <3>1. handler' = "embed" /\ dir' = [dir EXCEPT ![Json(own)] = Report({launch}, FALSE)]
      BY <1>3, <2>4 DEF ReopenReport
    <3>2. /\ dir'[Old(own)] = dir[Old(own)] /\ dir'[Json(own)] = Report({launch}, FALSE)
          /\ \A n \in Names : n[1] # own => dir'[n] = dir[n]
      BY <1>1, <1>4, <3>1, OldNames
    <3> QED
      BY <1>2, <1>3, <1>4, <1>5, <3>1, <3>2, OldNames DEF InFiles, OfOneLaunch, Report
  <2>5. CASE EmbedOld
    <3>1. handler' = "unlink" /\ dir' = [dir EXCEPT ![Json(own)].tells = @ \cup dir[Old(own)].tells]
      BY <1>3, <2>5 DEF EmbedOld
    <3>2. /\ dir'[Old(own)] = dir[Old(own)] /\ dir'[Json(own)].tells = dir[Json(own)].tells \cup dir[Old(own)].tells
          /\ dir'[Json(own)].there = dir[Json(own)].there /\ dir'[Json(own)].readable = dir[Json(own)].readable
          /\ \A n \in Names : n[1] # own => dir'[n] = dir[n]
      BY <1>1, <1>4, <3>1, OldNames DEF Files
    <3> QED
      BY <1>2, <1>3, <1>4, <1>5, <3>1, <3>2, OldNames DEF InFiles, OfOneLaunch, OldUnread
  <2>6. CASE RemoveOld
    <3>1. dir' = [dir EXCEPT ![Old(own)] = Nothing]
      BY <1>3, <2>6 DEF RemoveOld
    <3>2. /\ dir'[Old(own)] = Nothing /\ dir'[Json(own)] = dir[Json(own)]
          /\ \A n \in Names : n[1] # own => dir'[n] = dir[n]
      BY <1>1, <1>4, <3>1, OldNames
    <3> QED
      BY <1>2, <1>3, <1>4, <1>5, <3>1, <3>2, OldNames DEF InFiles, OfOneLaunch, Nothing
  <2> QED
    BY <2>1, <2>2, <2>3, <2>4, <2>5, <2>6
<1>6. Filed'
  BY <1>2, <1>3, <1>4, <1>5 DEF Once, Filed
<1>7. ASSUME Distinct, InFiles PROVE InFiles'
  <2>1. OfOneLaunch'
    BY <1>2, <1>4, <1>5, <1>7 DEF InFiles, OfOneLaunch
  <2>2. OldUnread'
    <3>1. \A id \in IDs : id = own \/ (dir'[Old(id)] = dir[Old(id)] /\ dir'[Json(id)] = dir[Json(id)])
      BY <1>5, OldNames
    <3> QED
      BY <1>5, <1>7, <3>1 DEF InFiles, OldUnread
  <2>3. OldGone'
    BY <1>3, <1>5, <1>7 DEF OldGone
  <2> QED
    BY <2>1, <2>2, <2>3 DEF InFiles
<1> QED
  BY <1>2, <1>6, <1>7, FilesOnce

LEMMA NextOnce == ASSUME Types, Once, [Next]_vars PROVE Once'
<1>1. CASE EnableState \/ SaveField \/ Overwrite
  BY <1>1, SameFilesOnce DEF EnableState, SaveField, Overwrite, past, outcome
<1>2. CASE ListReports \/ EndSending
  <2>1. main' = main \/ main' = "running"
    BY <1>2 DEF ListReports, EndSending
  <2>2. UNCHANGED <<launch, ids, sent, dir, batch, handler>> /\ main # "off"
    BY <1>2 DEF ListReports, EndSending, disk, past, outcome, Free
  <2> QED
    BY <2>1, <2>2, SameFilesOnce
<1>3. CASE DeleteReport
  <2> PICK n \in doomed : dir' = [dir EXCEPT ![n] = Nothing]
    BY <1>3 DEF DeleteReport
  <2>1. UNCHANGED <<launch, ids, sent, batch, main, handler>>
    BY <1>3 DEF DeleteReport, past, outcome
  <2>2. \A m \in Names : dir'[m] \in {dir[m], Nothing}
    BY DEF Types, StoreTypes
  <2>3. Filed'
    BY <2>1, <2>2 DEF Once, Filed, Nothing
  <2>4. ASSUME InFiles PROVE InFiles'
    <3>1. OfOneLaunch'
      BY <2>1, <2>2, <2>4 DEF InFiles, OfOneLaunch, Nothing
    <3>2. OldUnread'
      BY <2>1, <2>2, <2>4, OldNames DEF InFiles, OldUnread, Nothing
    <3>3. OldGone'
      <4>1. main # "off" => Own \in IDs /\ Own' = Own
        BY <2>1, OwnNames DEF Types, Own
      <4> QED
        BY <2>1, <2>2, <2>4, <4>1, OldNames DEF InFiles, OldGone, Nothing
    <3> QED
      BY <3>1, <3>2, <3>3 DEF InFiles
  <2> QED
    BY <2>1, <2>3, <2>4, FilesOnce
<1>4. ASSUME NEW early \in BOOLEAN, Crash(early) PROVE Once'
  <2>1. main' = main \/ (main = "saving" /\ main' = "overwriting")
    BY <1>4 DEF Crash, outcome
  <2>2. /\ UNCHANGED <<launch, ids, sent, dir, batch>> /\ main # "off"
        /\ handler = "none" /\ handler' \in {"noting", "create"}
    BY <1>4 DEF Crash, outcome
  <2> QED
    BY <2>1, <2>2, SameFilesOnce
<1>5. CASE NoteField
  <2>1. /\ UNCHANGED <<launch, ids, sent, dir, batch, main>> /\ main # "off"
        /\ handler = "noting" /\ handler' \in {"noting", "create"}
    BY <1>5 DEF NoteField, outcome, Types, ActorTypes
  <2> QED
    BY <2>1, SameFilesOnce
<1>6. CASE End
  <2>1. UNCHANGED <<launch, ids, sent, dir>> /\ main' = "off" /\ batch' = <<>>
    BY <1>6 DEF End, disk, outcome
  <2> QED
    BY <2>1, SameFilesOnce
<1>7. CASE UNCHANGED vars
  <2>1. UNCHANGED <<launch, ids, sent, dir, batch, main, handler>>
    BY <1>7 DEF vars, process, disk, past, outcome
  <2> QED
    BY <2>1, SameFilesOnce
<1> QED
  BY <1>1, <1>2, <1>3, <1>4, <1>5, <1>6, <1>7, LaunchOnce, SendAllOnce, SendReportOnce, SkipReportOnce, ReportOnce DEF Next

\* As long as no two launches shared a report ID, no launch sends a crash twice, though
\* recrash reports are listed under the ID of the report that embeds them.
THEOREM CrashesSentOnce == Spec => []SentOncePerLaunch
<1>1. ASSUME Types, Once PROVE SentOncePerLaunch
  <2> SUFFICES ASSUME NEW l \in 1..Launches, sent[l] > 1, Distinct PROVE FALSE
    BY DEF SentOncePerLaunch, Distinct
  <2>1. sent[l] \in Nat /\ sent[l] <= 1
    BY <1>1 DEF Once, Unsent, SentBefore
  <2> QED
    BY <2>1
<1>2. Init => Given /\ Types /\ Once
  BY InitGiven, InitTypes, InitOnce
<1>3. Given /\ Types /\ Once /\ [Next]_vars => Given' /\ Types' /\ Once'
  BY NextGiven, NextTypes, NextOnce
<1> QED
  BY <1>1, <1>2, <1>3, PTL DEF Spec

=============================================================================
