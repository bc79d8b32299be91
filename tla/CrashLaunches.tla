---------------------------- MODULE CrashLaunches ----------------------------
(* What the crash reporter carries from one launch to the next: the report     *)
(* store (SentryCrashReportStore.c), the crash state file                      *)
(* (SentryCrashMonitor_AppState.c) and the sending of what is stored           *)
(* (SentryCrash.m, SentryCrashReportSink.m), over launches that crash, crash   *)
(* again while they report, or are killed at any moment.                       *)
(*                                                                             *)
(* A crash suspends the main thread and the sender; both run on for a moment   *)
(* between the end of the handler and the death of the process.                *)
EXTENDS Integers, FiniteSets, Sequences, FiniteSetsExt

CONSTANTS Launches,        \* bound: launches of the application
          Wrap,            \* the store's clock modulo its ID: 512 in the code
          MaxStep,         \* bound: clock ticks between two launches
          MaxReportCount   \* g_maxReportCount: 5 in the code

LaunchesAssumption == /\ Launches \in Nat /\ Wrap \in Nat \ {0}
                      /\ MaxStep \in Nat /\ MaxReportCount \in Nat
ASSUME LaunchesAssumption

VARIABLES
  clock,     \* initializeIDs' time, in its unit of about a second
  launch,    \* the launches so far
  main,      \* where the main thread is
  handler,   \* where the crash handler is
  sender,    \* where the block that sends and deletes is
  enabled,   \* g_isEnabled of the application state monitor
  state,     \* g_state
  file,      \* CrashState.json; the decoder sees its first `cut` fields
  dir,       \* the report directory
  named,     \* g_lastCrashReportFilePath is set
  recrash,   \* g_crashedDuringExceptionHandling
  batch,     \* the reports read and not yet sent
  doomed,    \* the listed names still to delete
  ids,       \* history: the report ID of each launch
  crashes,   \* history: the launches that crashed
  started,   \* history: the launches that opened the state file
  noted,     \* history: those whose crash is in it
  hasty,     \* history: those whose start-up crash is in it
  torn,      \* history: those that left it incomplete
  saver,     \* history: the launch that wrote the state file last
  about,     \* history: the launch the loaded state is about
  sent,      \* history: how often this launch sent each launch's crash
  skipped,   \* history: those whose report the sink of this launch has passed over
  late       \* history: those in a report of this launch finished after its sender has
             \* read the store

process == <<main, handler, sender, enabled, state, named, recrash, batch, doomed>>
disk    == <<file, dir>>
outcome == <<sent, skipped, late>>
past    == <<crashes, started, noted, hasty, torn, saver, about, outcome>>
vars    == <<clock, launch, process, disk, ids, past>>

IDs     == 0..(Wrap - 1)
Names   == IDs \X {"json", "old"}
Nothing == [tells |-> {}, readable |-> FALSE, there |-> FALSE]
Report(tells, readable) == [tells |-> tells, readable |-> readable, there |-> TRUE]
There   == {n \in Names : dir[n].there}

Fields == 3      \* crashedLastLaunch, durationFromCrashStateInitToLastCrash (here:
                 \* whether it is a start-up crash), launchesSinceLastCrash

Blank == [crashedLast |-> FALSE, crashedThis |-> FALSE, early |-> FALSE, count |-> 0]

Init ==
  /\ clock = 0 /\ launch = 0 /\ main = "off" /\ handler = "none" /\ sender = "idle"
  /\ enabled = FALSE /\ state = Blank /\ named = FALSE /\ recrash = FALSE
  /\ batch = <<>> /\ doomed = {}
  /\ file = [crashed |-> FALSE, early |-> FALSE, count |-> 0, cut |-> 0]
  /\ dir = [n \in Names |-> Nothing]
  /\ ids = <<>> /\ crashes = {} /\ started = {} /\ noted = {} /\ hasty = {}
  /\ torn = {}
  /\ saver = 0 /\ about = 0 /\ skipped = {} /\ late = {}
  /\ sent = [l \in 1..Launches |-> 0]

Free == main # "off" /\ handler \in {"none", "done"}   \* threads are not suspended

-----------------------------------------------------------------------------
\* Launching.

\* getReportIDFromFilename reads the ID of a ".json" and of a ".old" alike, and an
\* ID of 0 is no report.
Counted == {n \in There : n[1] > 0}

\* getReportIDs: the files sorted by ID; an ID with two files is listed twice.
Precedes(k, n) == k[1] < n[1] \/ (k[1] = n[1] /\ k[2] = "json" /\ n[2] = "old")
Rank(S, n) == Cardinality({k \in S : Precedes(k, n)})
Sorted(S) == [i \in 1..Cardinality(S) |-> CHOOSE n \in S : Rank(S, n) = i - 1]
ReportIDs == [i \in 1..Cardinality(Counted) |-> Sorted(Counted)[i][1]]

\* fault: one too many is kept
PrunedLate ==
  LET n == Len(ReportIDs) - MaxReportCount - 1
      smallest == {ReportIDs[i] : i \in {k \in 1..Len(ReportIDs) : k <= n}}
  IN [m \in Names |-> IF m[2] = "json" /\ m[1] \in smallest THEN Nothing ELSE dir[m]]

\* pruneReports and sentrycrashcrs_deleteReportWithID: the smallest IDs go.
Pruned ==
  LET n == Len(ReportIDs) - MaxReportCount
      smallest == {ReportIDs[i] : i \in {k \in 1..Len(ReportIDs) : k <= n}}
  IN [m \in Names |-> IF m[2] = "json" /\ m[1] \in smallest THEN Nothing ELSE dir[m]]

\* initializeIDs: the mask that should keep the high half of the ID is zero, so
\* an ID is the low half only: the clock modulo Wrap.
NextID(time) == time % Wrap

\* loadState: fields after the tear keep the zero of the memset.
Loaded == [crashedLast |-> file.cut >= 1 /\ file.crashed, crashedThis |-> FALSE,
           early |-> file.cut >= 2 /\ file.early,
           count |-> IF file.cut >= 3 THEN file.count ELSE 0]

\* sentrycrash_install, up to and with the crash monitors.
Launch ==
  /\ main = "off" /\ launch < Launches
  /\ \E t \in 0..MaxStep : clock' = clock + t
  /\ launch' = launch + 1 /\ ids' = Append(ids, NextID(clock'))
  /\ dir' = Pruned /\ state' = Loaded /\ about' = saver
  /\ main' = "armed"
  /\ sent' = [l \in 1..Launches |-> 0] /\ skipped' = {} /\ late' = {}
  /\ UNCHANGED <<handler, sender, enabled, file, named, recrash, batch, doomed, crashes,
                 started, noted, hasty, torn, saver>>

\* fault: the state of the launch before is saved once more
SavedLast(s, early) == [crashed |-> s.crashedLast, early |-> early, count |-> s.count, cut |-> 0]

\* saveState truncates the file first.
Saved(s, early) == [crashed |-> s.crashedThis, early |-> early, count |-> s.count, cut |-> 0]

\* fault: the duration is reset with the rest
ResetAll(s) == [s EXCEPT !.crashedThis = FALSE, !.early = FALSE,
                         !.count = (IF s.crashedLast THEN 0 ELSE s.count) + 1]

\* sentrycrashstate_reset
Reset(s) == [s EXCEPT !.crashedThis = FALSE,
                      !.count = (IF s.crashedLast THEN 0 ELSE s.count) + 1]

\* The application state monitor is enabled last.
EnableState ==
  /\ main = "armed" /\ Free
  /\ main' = "saving" /\ enabled' = TRUE
  /\ state' = Reset(state) /\ file' = Saved(state', FALSE)
  /\ started' = started \cup {launch} /\ saver' = launch
  /\ UNCHANGED <<clock, launch, handler, sender, named, recrash, batch, doomed, dir, ids,
                 crashes, noted, hasty, torn, about, outcome>>

WriteField == file' = [file EXCEPT !.cut = @ + 1]

SaveField ==
  /\ main = "saving" /\ Free
  /\ WriteField /\ main' = IF file.cut + 1 = Fields THEN "started" ELSE "saving"
  /\ UNCHANGED <<clock, launch, handler, sender, enabled, state, named, recrash, batch,
                 doomed, dir, ids, past>>

\* The crash handler has written the file anew; the main thread goes on writing at its own
\* offset what it has read of the state before or after the crash.  The two texts differ in
\* length, so that a part of the file is not JSON, or by chance the whole of it is.  (That they
\* meet inside the digits of the count is left out.)
Overwrite ==
  /\ main = "overwriting" /\ Free
  /\ \E k \in 0..Fields, crashed \in BOOLEAN, early \in {file.early, FALSE} :
       /\ file' = [file EXCEPT !.cut = k, !.crashed = crashed, !.early = early]
       /\ noted' = IF k >= 1 /\ crashed THEN noted \cup {launch} ELSE noted \ {launch}
       /\ hasty' = IF k >= 2 /\ early THEN hasty \cup {launch} ELSE hasty \ {launch}
  /\ main' = "started"
  /\ UNCHANGED <<clock, launch, handler, sender, enabled, state, named, recrash, batch,
                 doomed, dir, ids, crashes, started, torn, saver, about, outcome>>

-----------------------------------------------------------------------------
\* Sending: sendAllReportsWithCompletion, the sink, and the deletion.

\* allReports: every ID is read as its ".json"; what is not there, or cannot be
\* repaired, is left out.
AllReports ==
  LET Read(n) == dir[<<n[1], "json">>]
      read == {n \in Counted : Read(n).readable}
  IN [i \in 1..Cardinality(read) |-> Read(Sorted(read)[i]).tells]

\* The sink sends after a start-up crash on the main thread, otherwise on a queue;
\* with nothing to send the completion runs at once.
SendAll ==
  /\ main = "started" /\ Free
  /\ batch' = AllReports /\ sender' = "sending"
  /\ main' = IF state.early \/ batch' = <<>> THEN "blocked" ELSE "running"
  /\ UNCHANGED <<clock, launch, handler, enabled, state, named, recrash, doomed, disk, ids, past>>

SendReport ==
  /\ sender = "sending" /\ Free /\ batch # <<>>
  /\ batch' = Tail(batch)
  /\ sent' = [l \in 1..Launches |-> sent[l] + (IF l \in Head(batch) THEN 1 ELSE 0)]
  /\ UNCHANGED <<clock, launch, main, handler, sender, enabled, state, named, recrash,
                 doomed, disk, ids, crashes, started, noted, hasty, torn, saver, about,
                 skipped, late>>

\* No client is bound, or the report could not be converted to an event: it is passed over.
SkipReport ==
  /\ sender = "sending" /\ Free /\ batch # <<>>
  /\ batch' = Tail(batch)
  /\ skipped' = skipped \cup Head(batch)
  /\ UNCHANGED <<clock, launch, main, handler, sender, enabled, state, named, recrash,
                 doomed, disk, ids, crashes, started, noted, hasty, torn, saver, about, sent, late>>

\* fault: the reports are deleted once the first has been sent
ListEarly ==
  /\ sender = "sending" /\ Free
  /\ sender' = "deleting" /\ doomed' = There /\ batch' = <<>>
  /\ UNCHANGED <<clock, launch, main, handler, enabled, state, named, recrash, disk, ids,
                 past>>

\* deletePathContents lists the directory and then removes what it listed.
\* The completion says completed: YES whatever was sent.
ListReports ==
  /\ sender = "sending" /\ Free /\ batch = <<>>
  /\ sender' = "deleting" /\ doomed' = There
  /\ UNCHANGED <<clock, launch, main, handler, enabled, state, named, recrash, batch,
                 disk, ids, past>>

DeleteReport ==
  /\ sender = "deleting" /\ Free
  /\ \E n \in doomed : dir' = [dir EXCEPT ![n] = Nothing] /\ doomed' = doomed \ {n}
  /\ UNCHANGED <<clock, launch, main, handler, sender, enabled, state, named, recrash,
                 batch, file, ids, past>>

\* fault: the sender is done before the last file is
EndSendingEarly ==
  /\ sender = "deleting" /\ Free
  /\ sender' = "idle" /\ main' = IF main = "blocked" THEN "running" ELSE main
  /\ UNCHANGED <<clock, launch, handler, enabled, state, named, recrash, batch, doomed,
                 disk, ids, past>>

EndSending ==
  /\ sender = "deleting" /\ Free /\ doomed = {}
  /\ sender' = "idle" /\ main' = IF main = "blocked" THEN "running" ELSE main
  /\ UNCHANGED <<clock, launch, handler, enabled, state, named, recrash, batch, doomed,
                 disk, ids, past>>

-----------------------------------------------------------------------------
\* Crashing.

ReportName(ext) == <<ids[launch], ext>>

\* sentrycrashstate_notifyAppCrash on entry of onCrash; early: within two seconds.
Crash(early) ==
  /\ main # "off" /\ handler = "none"
  /\ crashes' = crashes \cup {launch}
  /\ IF enabled
     THEN /\ state' = [state EXCEPT !.crashedThis = TRUE]
          /\ file' = Saved(state', early)
          /\ handler' = "noting" /\ main' = IF main = "saving" THEN "overwriting" ELSE main
     ELSE handler' = "create" /\ UNCHANGED <<state, file, main>>
  /\ UNCHANGED <<clock, launch, sender, enabled, named, recrash, batch, doomed, dir, ids,
                 started, noted, hasty, torn, saver, about, outcome>>

NoteField ==
  /\ handler = "noting"
  /\ WriteField /\ noted' = noted \cup {launch}
  /\ hasty' = IF file.early /\ file.cut + 1 >= 2 THEN hasty \cup {launch} ELSE hasty
  /\ handler' = IF file.cut + 1 = Fields THEN "create" ELSE "noting"
  /\ UNCHANGED <<clock, launch, main, sender, enabled, state, named, recrash, batch,
                 doomed, dir, ids, crashes, started, torn, saver, about, outcome>>

\* The monitors are all disabled and the threads resumed.
Finish == handler' = "done" /\ enabled' = FALSE

\* sentrycrashreport_writeStandardReport: O_EXCL refuses a name already taken.
CreateReport ==
  /\ handler = "create"
  /\ named' = TRUE
  /\ IF dir[ReportName("json")].there
     THEN Finish /\ UNCHANGED dir
     ELSE /\ handler' = "write" /\ UNCHANGED enabled
          /\ dir' = [dir EXCEPT ![ReportName("json")] = Report({launch}, FALSE)]
  /\ UNCHANGED <<clock, launch, main, sender, state, recrash, batch, doomed, file,
                 ids, past>>

\* A report with a text longer than the fixer's buffer is complete and unreadable.
CloseReport ==
  /\ handler \in {"write", "rest"} /\ Finish
  /\ \E fits \in BOOLEAN : dir' = [dir EXCEPT ![ReportName("json")].readable = fits]
  /\ late' = IF sender = "idle" THEN late ELSE late \cup dir[ReportName("json")].tells
  /\ UNCHANGED <<clock, launch, main, sender, state, named, recrash, batch, doomed, file, ids,
                 crashes, started, noted, hasty, torn, saver, about, sent, skipped>>

\* The handler crashes: the monitors are all disabled, and the report, if one is
\* named, gives way to one about both crashes.
Recrash ==
  /\ handler \in {"noting", "create", "write"} /\ ~recrash
  /\ recrash' = TRUE /\ enabled' = FALSE
  /\ IF named
     THEN /\ handler' = "reopen"
          /\ dir' = [dir EXCEPT ![ReportName("old")] = dir[ReportName("json")],
                                ![ReportName("json")] = Nothing]
     ELSE handler' = "done" /\ UNCHANGED dir
  /\ UNCHANGED <<clock, launch, main, sender, state, named, batch, doomed, file, ids, past>>

ReopenReport ==
  /\ handler = "reopen" /\ handler' = "embed"
  /\ dir' = [dir EXCEPT ![ReportName("json")] = Report({launch}, FALSE)]
  /\ UNCHANGED <<clock, launch, main, sender, enabled, state, named, recrash, batch, doomed,
                 file, ids, past>>

EmbedOld ==
  /\ handler = "embed" /\ handler' = "unlink"
  /\ dir' = [dir EXCEPT ![ReportName("json")].tells = @ \cup dir[ReportName("old")].tells]
  /\ UNCHANGED <<clock, launch, main, sender, enabled, state, named, recrash, batch, doomed,
                 file, ids, past>>

\* fault: the old report outlives the one that embeds it
KeepOld ==
  /\ handler = "unlink" /\ handler' = "rest"
  /\ UNCHANGED <<clock, launch, main, sender, enabled, state, named, recrash, batch, doomed,
                 disk, ids, past>>

RemoveOld ==
  /\ handler = "unlink" /\ handler' = "rest"
  /\ dir' = [dir EXCEPT ![ReportName("old")] = Nothing]
  /\ UNCHANGED <<clock, launch, main, sender, enabled, state, named, recrash, batch, doomed,
                 file, ids, past>>

\* The process ends: after the handler, or killed, or having quit, at any moment.
End ==
  /\ main # "off"
  /\ main' = "off" /\ handler' = "none" /\ sender' = "idle"
  /\ enabled' = FALSE /\ state' = Blank /\ named' = FALSE /\ recrash' = FALSE
  /\ batch' = <<>> /\ doomed' = {}
  /\ torn' = IF file.cut < Fields THEN torn \cup {saver} ELSE torn
  /\ UNCHANGED <<clock, launch, disk, ids, crashes, started, noted, hasty, saver, about,
                 outcome>>

Next ==
  \/ Launch \/ EnableState \/ SaveField \/ Overwrite
  \/ SendAll \/ SendReport \/ SkipReport \/ ListReports \/ DeleteReport \/ EndSending
  \/ \E early \in BOOLEAN : Crash(early)
  \/ NoteField \/ CreateReport \/ CloseReport
  \/ Recrash \/ ReopenReport \/ EmbedOld \/ RemoveOld
  \/ End

Spec == Init /\ [][Next]_vars

-----------------------------------------------------------------------------
\* The types of the state, and which actor holds what: nothing is left to send or
\* to delete when the sender is idle, and a recrash handler has a report named.
LaunchesTypeOK ==
  /\ clock \in 0..(Launches * MaxStep) /\ launch \in 0..Launches
  /\ main \in {"off", "armed", "saving", "overwriting", "started", "blocked", "running"}
  /\ handler \in {"none", "noting", "create", "write", "reopen", "embed", "unlink", "rest",
                  "done"}
  /\ sender \in {"idle", "sending", "deleting"}
  /\ enabled \in BOOLEAN /\ named \in BOOLEAN /\ recrash \in BOOLEAN
  /\ state \in [crashedLast : BOOLEAN, crashedThis : BOOLEAN, early : BOOLEAN,
                count : 0..Launches]
  /\ file \in [crashed : BOOLEAN, early : BOOLEAN, count : 0..Launches, cut : 0..Fields]
  /\ dir \in [Names -> [tells : SUBSET (1..Launches), readable : BOOLEAN, there : BOOLEAN]]
  /\ batch \in Seq(SUBSET (1..Launches)) /\ doomed \subseteq Names
  /\ main = "off" => handler = "none" /\ sender = "idle" /\ ~enabled
  /\ handler \in {"reopen", "embed", "unlink", "rest"} => named /\ recrash
  /\ batch # <<>> => sender = "sending"
  /\ doomed # {} => sender = "deleting"
  /\ Len(ids) = launch /\ saver \in 0..launch /\ about \in 0..launch
  /\ crashes \cup started \cup noted \cup hasty \cup skipped \cup late \subseteq 1..launch

\* What a launch believes of the launches before it is true of the launch that saved the
\* state file last: it claims a crash only of a launch that crashed, it knows of every crash
\* whose note survived, and it counts the launches since the last such note or the last torn
\* state file.  (crashedLastLaunch and launchesSinceLastCrash of the application state, which
\* their comments say of the previous launch and of every crash; README has the difference.)
CrashHistoryTrue ==
  main # "off" =>
    /\ state.crashedLast => about \in crashes
    /\ about \in noted => state.crashedLast
    /\ main # "armed" =>
         LET origin == Max({0} \cup {l \in noted \cup torn : l < launch})
         IN state.count = Cardinality({l \in started : l > origin})

\* After a launch whose start-up crash was noted the application does not go on before
\* the sink is done with every report and the store is emptied: such a crash would
\* otherwise come again before the queue gets to send it.
StartupCrashFirst == main = "running" /\ about \in hasty => sender = "idle"

\* A report that can be read is deleted by the sender only after the same launch has sent
\* the crashes it tells of, but for two kinds: what the sink has passed over, and what the crash
\* handler finished after the sender had read the store - a crash of the running launch,
\* between the end of its handler and the death of the process.
DeletedWasSent ==
  [][sender = "deleting" /\ sender' = "deleting" =>
       \A id \in IDs \ {0} :
         LET n == <<id, "json">>
         IN dir[n].there /\ ~dir'[n].there /\ dir[n].readable
              => dir[n].tells \subseteq {l \in 1..Launches : sent[l] > 0} \cup skipped \cup late]_vars

\* A launch sends a crash twice only if two launches shared a report ID: while the
\* old report lies beside the one that embeds it, and its ID is listed twice, the
\* latter is incomplete and cannot be read.
SentOncePerLaunch ==
  (\E l \in 1..Launches : sent[l] > 1) =>
    \E j, k \in 1..launch : j # k /\ ids[j] = ids[k]

\* However many launches crash before they can send, the store has at most one report more
\* than the limit, that of the launch; and one with the ID 0 besides, which no pruning sees.
\* (The ".old" files of recrash reports cut short are no reports: pruning counts them and
\* deletes none of them, so that nothing bounds them until a launch gets to send; see README.)
Reports == {n \in There : n[2] = "json"}
ReportsBounded ==
  Cardinality(Reports) <= MaxReportCount + (IF <<0, "json">> \in Reports THEN 2 ELSE 1)

\* SentryCrashReportStore.h:119 has the store delete "old ones" when there are more
\* reports than the limit: none that is deleted tells of a later launch than one
\* that is kept.
PruneKeepsNewest ==
  [][main = "off" /\ main' # "off" =>
       \A gone, kept \in {n \in Counted : n[2] = "json"} :
         ~dir'[gone].there /\ dir'[kept].there => Max(dir[gone].tells) <= Max(dir[kept].tells)]_vars
=============================================================================
