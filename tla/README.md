# DiagnosticsTool in TLA+

A verification development for DiagnosticsTool, a macOS application written in Objective-C
(`src/DiagnosticsTool/DiagnosticsTool`), and for the crash reporter it embeds: SentryCrash, C and
Objective-C sources in `Pods/Sentry/Sources`. The application keeps an in-memory log, builds
diagnostic bundles on a background queue, watches the network path, and has buttons that crash it
on purpose; what happens after such a button is the crash reporter's work. The modules model the
parts where threads, queues, child processes, files, signals and modal alerts meet; TLC checks
them on small instances, and TLAPS proves the central properties for every value of the constants.

File names of the application are relative to `src/DiagnosticsTool/DiagnosticsTool`, those of the
crash reporter to `src/DiagnosticsTool/Pods/Sentry/Sources/SentryCrash/Recording`.

## Inventory

| Component | State it keeps | Operations | Talks to | What must hold |
|---|---|---|---|---|
| LogCollector (`Core/LogCollector.m`) | `_logs`, `_lock` | `log:level:`, two queries, `clearLogs` | called by every other component, on any thread | bounded, the newest entries in order, each text a snapshot, the lock always given back |
| DiagnosticBundleBuilder (`Core/DiagnosticBundleBuilder.m`) | per build a temporary directory, its files, a child process and its pipe, an archive | `buildWithSysdiagnose:completion:`, `run:args:cwd:` | LogCollector, `NSTask`, the file system, the completion block | the completion block called once on every way out, success only with this build's archive, no endless wait |
| DiagnosticsViewController (`UI/DiagnosticsViewController.m`) | spinner, buttons, status line, open alerts | `collectLogs`, `collectLogsAndSys`, `setLoadingState:`, the completion blocks | the builder, the main queue, LogCollector | one build at a time, controls that tell the truth and come back |
| LogsViewController (`UI/LogsViewController.m`) | `_monitor`, the text | `emitLogs`, `startNetworkWatch`, `addBreadcrumb`, the path handler | LogCollector, breadcrumbs, main queue | one monitor, each change logged, reported and shown once |
| Crash handling (`Monitors/*`, `SentryCrashC.c`, `Tools/SentryCrashMachineContext.c`) | enabled monitors, exception ports, suspend counts, `g_handlingFatalException`, `g_crashedDuringExceptionHandling`, the last report's path | the handlers for Mach exceptions, signals, NSExceptions and C++ exceptions; `onCrash` | every thread of the process, the kernel, the allocator, the report directory | a crash is reported once and about its thread, evidence is not lost, the process ends |
| Crash report writer (`SentryCrashReport.c`, and for what it reads `Tools/SentryCrashObjC.c`, `SentryCrashMemory.c`, `SentryCrashDynamicLinker.c`, `SentryCrashSymbolicator.c`, the stack cursors) | the encoder, a buffered file | the sections of both reports | the process's memory, the codec | valid JSON whenever it stops, bounded walks through a damaged heap that read only what was verified |
| JSON codec and fixer (`Tools/SentryCrashJSONCodec.c`, `SentryCrashReportFixer.c`) | open containers; position, window | encode, decode, embed, fix | the writer, the next launch | what is written can be read, what is torn is refused |
| Report store, crash state, sending (`SentryCrashReportStore.c`, `SentryCrashMonitor_AppState.c`, `SentryCrash.m`, `SentryCrashReportSink.m`) | the files that outlive the process | install, save, note a crash, list, send, delete, prune | the next launch | what a launch believes of the one that saved last is true, what is deleted has been sent or passed over, the number of reports is bounded |
| What the handler reads (`SentryCrashCachedData.c`, `SentryCrashBinaryImageCache.c`, `SentryScopeSyncC.c`) | thread names, image list, breadcrumb ring | updates by their own threads | the handler, which stops them anywhere and takes no lock | what is read there is live, in bounds and in order |
| CrashViewController, CrashReporterAdapter | none of their own | the crash buttons, `start`, `addBreadcrumb:data:` | LogCollector, the crash reporter | |
| AppDelegate, AppCoordinator, `main.m` | the objects above | launch, terminate | everything | |
| Redactor, MetricsListener, ViewController, Core Data model, tests | none | pure or template code | | |
| The rest of the Sentry pod | transport, tracing, sessions, profiling | third-party Objective-C and Swift | | |

Hard behaviour, in short. In the application: threads share one lock-protected array whose
enumeration raises if it is mutated; a build returns early from five places and must call its
completion block once; the builder and a command can wait for each other; completion hops to a
main thread that may stand inside an alert. In the crash reporter: handlers run while other
threads are suspended anywhere, possibly with the allocator's lock, or while another handler runs,
or crash themselves; the process may die between any two writes; the next launch starts from
whatever is on disk.

## Modules

| Module | What it is |
|---|---|
| `RecentLog` | abstract: an atomic log with a bounded memory |
| `LogCollector` | one step per point where threads could interfere; implements `RecentLog` |
| `DiagnosticBundleBuilder` | several builds at once and their environment |
| `RequestFlow` | abstract: what the Diagnostics tab promises its user |
| `DiagnosticsFlow` | the Diagnostics tab composed with the builder (EXTENDS it); implements `RequestFlow` |
| `NetworkWatch` | the path monitor's handler on a concurrent queue and its blocks on the main queue |
| `CrashHandling` | from the crash of a thread to the death of the process |
| `JSONCodec` | encoder, decoder, embedding and fixer, as operators on tokens |
| `CrashMemory` | what the handler makes of an address and of a stack in memory that may be damaged, as operators |
| `CrashSymbols` | image, symbol and crash messages, and reading memory that may end anywhere, as operators |
| `CrashReport` | the report, section by section, through the codec and of that memory (EXTENDS all three) to the next launch |
| `CrashLaunches` | what is carried from launch to launch |
| `CrashCaches` | what is prepared for the handler to read |
| `...Proofs` | the theorems about a module |
| `MC...` | instances for TLC |

Operators marked `fault` in a comment are not part of the model. Each is a plausible bug - a
dropped guard, an off-by-one, a missing reset - that takes the place of the definition after it,
and shows that a property can fail.

### LogCollector

`logs` is `_logs`, `lock` is `_lock`. A call is `Call`, `Lock`, the method's body, `Unlock`. The
body of `log:level:` is `AddObject` then `Trim`; a query is `CountEntries` (the cutoff and the
first pass), one `ListEntry` per entry, and `EndText` (the count below); `clearLogs` is
`RemoveAllObjects`. `getAllLogsFormatted` has no cutoff and reads `_logs.count` twice, so it is
the same three actions with a cutoff older than anything. `Tick` is the wall clock, which can be
set back. The two entries logged by `-init` are in `Init`, because `dispatch_once` keeps the
object from everyone else until then. An entry is its number and its timestamp. `history` and
`cleared` are history variables.

The refinement `Atomic` records an entry together with its trimming at `AddObject` (the array in
between is seen by nobody, since the lock is held) and answers a query at `EndText`.

### DiagnosticBundleBuilder and DiagnosticsFlow

A build's `pc` follows the method from top to bottom: `Request` (the `dispatch_async`), `MakeDir`,
`WriteAppLogs`, `WriteInfo`, for an extended build `Launch` / `WaitAndRead` once per command and
`WriteExtended`, then `WriteReadme`, `NameArchive`, `ZipFolder`, `Verify`, `CleanUp`. `Complete`
is the completion block with the return after it, `ChildWrite` a command filling its pipe. A
file's content is the build that wrote it; an archive is a set of (file, build) pairs, because
`zip -r` adds to an archive that is there. `journal` is all that has been logged through
LogCollector, which `LogCollector` justifies as one atomic sequence, and `dropped` how much of it
the trimming has taken (`Trim`, part of every `Log`). `application_logs.txt` is the query of the
last ten days: `shown[b]` says from which entry to which, and newer than what. `Faults` names what
the environment may do to each step; a write that fails leaves its file out and is not looked at,
as in the code (`lost`). `MoveAway` is a user who takes an archive out of Downloads (`moved`),
`Tick` the clock, which may be set back, as the local time of the name is at the end of daylight
saving. `SuccessPacked` is about the archive itself: a build that reports success has put each of
its files there, but for three exceptions the code has - a write that failed, an archive moved
away since, and a build of the same second that replaced the file by its own.

In `DiagnosticsFlow`, `CollectLogs`, `CollectLogsAndSys` (up to `runModal`) and `Cancel` /
`Continue` (after it) are the button handlers. `Work` is a builder step; if it calls the
completion block, a block goes to the main queue (`queue`), which `RunBlock` runs up to the result
alert and `DismissResult` ends. `stack` is the main thread's stack of modal alerts. Two facts
about AppKit carry the model: a modal alert keeps clicks away from the window, and the main queue
is not drained re-entrantly, so that no block runs while the result alert, itself opened from such
a block, is on the stack - but blocks do run inside an alert that an event handler opened.
`OpenOther` is such an alert on another tab (`testSentry` in `UI/CrashViewController.m`), which
logs two entries before it opens, and `OthersLog` is any other thread that logs, at any time: both
are by `Nobody`, no build. `BundleLogComplete` is about the entries of the requests, and has the
two exceptions of the code: an entry older than the ten days, and one that is not among the
`MaxEntries - TrimCount` newest, which trimming may have taken.

### NetworkWatch

`StartNetworkWatch` is the method up to `nw_path_monitor_start`, `Started` the rest of it: in
between the handler may already run. `Change` and `Deliver` are the network and its framework. An
invocation of the handler takes the steps `LogChange`, `LeaveCrumb`, `Post`; its queue is global,
hence concurrent, and nothing in the code keeps one invocation from overtaking another (a
framework that serialised the calls would only take behaviours away). `RunBlock` is `append:` from
the main queue. `OpenAlert`, `PostResult`, `Dismiss` are what other tabs do to the main thread.

### CrashHandling

Every thread of the application, and the two threads of the Mach monitor, has a `pc` that follows
the handler it runs (`frame`): the suspension of the other threads one by one (`Suspend`), the
test and the setting of `g_handlingFatalException` as the two steps they are (`Test`, `Mark`), the
switch of the exception ports, the monitor's static context, `onCrash`, the report, and the way
out by reply, `raise` or `abort`. `Crash` lets a thread crash in four ways, at any time it runs;
`CrashInHandler` lets a handler crash where it touches the crashed process. A fault goes to the
exception port if it is ours and becomes a signal otherwise, and a signal without a handler ends
the process; this is the kernel's part, taken from what the code relies on. `heap` is the
allocator's lock: an application thread may hold it when it is suspended. A report here is a set
of parts with their author and the thread they call crashed; `dir` and `inodes` keep names and
contents apart, because the recrash report renames, copies and removes. The copy (`Embed`) may end
before the old report does, since `addJSONFromFile` stops at a text it cannot hold or read, and
its result is not looked at; the old report is removed all the same (`RemoveOld`). What is lost
that way is remembered in the history variable `missed`, the one exception of `EvidenceKept`.

### JSONCodec, CrashMemory, CrashSymbols and CrashReport

A text is a sequence of tokens. Strings are told apart only as far as the code does: one with a
control character that has no escape (the encoder refuses it, as a name or as a value, and what it
has written of it stays), one too long for `addJSONFromFile` (its buffer holds a name of 99
characters), one too long for every decoder. A name may also be a null pointer, for which the
encoder writes a comma and no name. The decoder is one step per token or name, with the callbacks
of each of its users: embedding with and without closing the last container, copying from a file
through a window that is refilled, the fixer that turns two timestamps into dates. What the code
does with its buffers is kept where it shows: a number at the very end of a text is incomplete, a
comma between elements is skipped but not required, the window keeps what an earlier refill left
behind a short read. An infinite number is printed as `inf`, which is a token of no grammar
(`Junk`).

`CrashReport` writes the sections of the standard report in the order of the code, each followed
by the flush that the code has there; `work` is the recursion of the writer as a list of what is
left to do (threads, addresses, values, containers to close). The report may be finished
(`EndReport` closes what is open), or the process may die with any part of the unflushed rest in
the file, hence cut at any token, inside a section as well as between two; or the writer may crash
and embed such a file in a second report; then the next launch fixes what it finds, or of a file
over `MaxRead` tokens the last `MaxRead` of them (`LastOf`), up to `MaxDepth` containers deep.
`Processes` are the crashed processes.

The heap of such a process is a function from the addresses that can be read to what the code's
structures would find there, so that damage is an address missing from it, a variable of a class
that is "lost" or larger than its type ("over"), a variable's name that is missing, unprintable or
too long, a number that is none or infinite, a class's name without the characters of one.
`CrashMemory` follows `SentryCrashObjC.c` check by check: `IsValidClass` and `IsValidObject` look
before they read, `ObjectType` and `Kind` decide how an address is described, and `BaseNameLost`,
`StringFaults`, `ArrayFaults`, `NumberFaults` and the variables in `WriteIvar` are the places
where the code reads without having looked. An action that comes to one of them faults (`Fault`),
and what is left is a writer that has died or a second report. A variable that could not be copied
has whatever was in the handler's local before (`Values`); one that is larger than its type may
overrun that local, or not. `WriteIfNotable`, `WriteMemoryContents` and `WriteIvar` are the
functions `writeMemoryContentsIfNotable`, `writeMemoryContents` and the loop of
`writeUnknownObjectContents`. A stack is walked by frame pointers or copied from a trace
(`Frames`), each entry with the symbol `CrashSymbols` finds, and the images bring their crash
messages.

`ReportAlwaysCloses`, `SectionsInPlace` and `OnlyWholeReportsPass` ask that the heap be `Regular`.
Three things in a memory reach the report unchecked and make it no JSON, and they are found, not
assumed away: a class's first variable without a printable name, a variable larger than its type,
an infinite number (see Observations). The model writes what the code writes of them, the run has
processes with each, and the checks without `Regular` fail on them. `IntrospectionGuarded` and
`MemoryBounded` have no such precondition.

### CrashLaunches

`Launch` is `sentrycrash_install` up to the crash monitors: prune, next ID, load the state file.
The application state monitor is enabled last (`EnableState`), saving field by field
(`SaveField`). `SendAll`, `SendReport`, `SkipReport`, `ListReports`, `DeleteReport`, `EndSending`
are the sender: a report for which there is no client, or which cannot be converted to an event,
is passed over and deleted like the others (`skipped`), and so is one that the handler finishes
between the sender's reading of the store and its listing (`late`). It runs on the main thread
after a start-up crash and on a queue otherwise. `Crash`, `NoteField`, `CreateReport`,
`CloseReport`, `Recrash` ... `RemoveOld` are the handler as seen from the files; that one handler
runs is an abstraction of `CrashHandling`, which has several. `Overwrite` is the handler writing
the state file while the main thread does: their texts differ in length, so that what is left may
be torn anywhere, or be whole by chance and say either. `End` is the end of the process, killed or
not, after any step. An ID is the clock modulo `Wrap`, because the code's mask for the rest of the
ID is zero.

### CrashCaches

Three small machines whose writers can be stopped anywhere: the thread that publishes new thread
lists with plain stores (in source order, or in any order a compiler may choose), dyld's callbacks
for images loaded and unloaded against the registration of a callback, and a breadcrumb added or
all of them cleared. The handler's reads are operators of the state (`ThreadName`, `Available`,
`Place`, `Written`), so each state is one in which a crash may come. The machines share no
variable but the counter of operations that bounds them.

## Runs

| Run | Question | Result |
|---|---|---|
| `log_safety` | two threads, an array of 3 trimmed by 2, 6 entries | `BoundedLog`, `NewestSuffix`, `ReportExact`, `EnumerationStable` and the refinement `Atomic` hold |
| `builder_answers` | one build, two commands, all faults | `CompletedOnce` holds; `AnsweredOrStuck`: it answers unless it is stuck on a pipe |
| `builder_pipe` | does every build answer, whatever its commands print? | `Answered` is violated, see Findings |
| `flow` | two builds and refused clicks, alerts of all kinds, others that log, builds that fail | `OneAtATime`, `ControlsReflect`, `BundleLogComplete`, `SuccessPacked`, `ControlsReturn` and the refinement `FairOneRequestFlow` hold |
| `watch` | three paths, overlapping handlers, repeated clicks, alerts | `EachOnce`, `ReportedBeforeShown`, `StartedFirst`, `ShownEventually` hold |
| `crash` | two threads, four ways to crash, two crashes in handlers | `LoneCrashReported`, `SecondaryForTheOthers`, `EvidenceKept`, `EndsOrWaitsForHeap` hold |
| `crash_report` | does every crash leave a report? | `CrashLeavesReport` is violated, see Findings |
| `report` | reports on 58 processes, their heaps whole or damaged, finished, torn or embedded at any token | `IntrospectionGuarded`, `MemoryBounded`, `SectionsInPlace`, `ReportAlwaysCloses`, `OnlyWholeReportsPass` hold |
| `report_copy` | is the embedded copy a copy? | `CopyIsOfTheFile` is violated, see Findings |
| `launches` | three launches that crash, crash again or are killed anywhere | `CrashHistoryTrue`, `StartupCrashFirst`, `SentOncePerLaunch`, `ReportsBounded`, `DeletedWasSent` hold |
| `prune` | are the oldest reports the ones that go? | `PruneKeepsNewest` is violated, see Findings |
| `shared` | every state in which the writers can be stopped | `NamesSafe`, `ImagesTold`, `CrumbsInOrder` hold |

Each passing run but `builder_answers` and `report` checks the type invariant of its module as
well. Deadlock is checked for the log and the network watch, which never stop. It is not for the
others, which do: builds are used up, a process dies, a report is read, the bounds on launches and
operations are reached. That a handler does not hang, and a build answers, is a property instead.

### Bounds

- `log_safety`: `MaxEntries = 3`, `TrimCount = 2`, `MaxLogged = 6`: the two entries of `-init`,
  then two trims with a partly refilled array between them, with clears at any point. The code's
  10000 and 1000 are in the same relation. `MaxTime = 2`, `Window = 1`: entries newer than the
  cutoff, exactly at it, older. One thread is inside a method, one wants in.
- Builder: `PipeCapacity = 1` with outputs of 0, 1 and 2: less than, as much as, more than a pipe
  holds. Two commands instead of six: a first, a last, the step between. The clock may be set
  back.
- `flow` (720,742 states): two builds that can end in one second of local time, so that they meet
  each other's archive, and that fail at the directory or at `zip`. A log of `MaxEntries = 4`
  trimmed by 2 and `MaxJournal = 5` entries after which nothing new is begun: a request logs up to
  three, so the second one finds a log that was trimmed, also by entries of other threads between
  its click and its copy. `MaxTime = 1` and `Window = 1`: an entry at the cutoff and one behind
  it; the clock is not set back in this run (`SetBack = FALSE`), as it is in the builder's.
- `watch`: `MaxChanges = 2` gives three deliveries, so one handler can be overtaken by two;
  `MaxJournal = 3` leaves room for a second click.
- `crash`: two threads are enough for the race on `g_handlingFatalException` and for a lock held
  by a suspended thread; with `MaxFaults = 2` the handler of a crashed handler crashes, too. Two
  sections: a torn report differs from an empty and from a complete one, and a copy may leave out
  both, one or none.
- `report`: a memory search of depth 6 and 3 instance variables (15 and 10 in the code), so that a
  cyclic object exhausts the depth and a wide one overshoots it; 3 superclasses (20) and 3 frames
  (150), so that the way to a root class and a stack end on either side of them; messages of 2
  bytes and a test buffer of 4 (1024 and 10240); heaps that lose an object, a class's data, its
  variables, a superclass or a name, one at a time; a window of 8 tokens, which a report overflows
  several times, and of which some part repeats the time of the report when the last refill is
  short; `MaxDepth = 16` (100), which one process with a deep value in its scope exceeds and the
  others do not; `MaxRead = 300` (2,000,000 bytes), which the reports of two processes exceed, one
  of them by its seven threads: those are read from a place in their midst, and
  `OnlyWholeReportsPass` says nothing of them. `Decode` and the reading by the grammar (`Parsed`)
  take as many rounds as the text has tokens, so no text is too long for them.
- `launches`: three launches, so that the state of one passes through a second to a third; `Wrap =
  4` with clock steps of 0 and 1 makes IDs repeat within two launches and over the wrap, and
  includes the ID 0. `MaxReportCount = 1` instead of 5: pruning happens with the second report.
  `prune` has steps up to 2.
- `shared`: two threads, two addresses, four operations in all: an update during an update is
  impossible in the code, a list that shrinks, grows and is reordered is there, so are an image
  that is replaced at its address and a ring of two that is overrun.

Symmetry is used in safety runs only, over threads and addresses that no definition tells apart.

### Fairness

The log has no liveness property: `NSLock` is not fair, so nothing can be claimed about who gets
it; that it is given back is proved as mutual exclusion. `BuilderFairness`: the queue's threads
and the child processes run; a step that waits for a child is enabled only when it has exited.
`FlowFairness` adds that the main thread serves its queue whenever no block is on its stack,
`WatchFairness` is the same for the handlers and the main thread. `CrashHandling`'s `Fairness`:
each thread that is not suspended is scheduled, and an application thread that runs gives the
allocator's lock back. There is no fairness for the user, for crashes, for the network or for an
application thread's own work. `CrashReport`, `CrashLaunches` and `CrashCaches` state safety only:
what must happen there eventually is up to a user who launches the application again.

## What is proved

The proofs hold for every set of threads, builds or addresses, every clock and every bound, under
the named assumptions of the modules (`SizeAssumption` and `ThreadAssumption`,
`BuilderAssumption`, `FlowAssumption`, `WatchAssumption`, `CrashAssumption`, `CachesAssumption`,
`LaunchesAssumption`, `ReportAssumption`, `TextAssumption`), which TLC evaluates on the runs.

- **LogCollector.** `TypeOK` is inductive only together with `CallInv`, which ties where a thread
  is to the method it is in. `MutualExclusion` (theorem `Exclusion`) follows by induction and is
  what everything else rests on. `Bounded`: the array is at most one over the limit, and exactly
  while its owner is about to trim (`SizeStep`). `Suffix`: appending keeps the alignment with
  `history`, trimming and clearing only drop a prefix (`SuffixStep`). `Stable`: a step that
  changes the array is taken by the holder of the lock, and by exclusion nobody else is
  enumerating (`ArrayFrame`). `ReportsAreExact` needs `Numbered` (the history numbers its entries,
  so no two are the same) and `Writing`: what a writer has listed up to its place in the array is
  what the cutoff asks for up to there, which stays true because the array does not change under
  it. `CollectorIsAtomic` is the refinement, step by step: each step maps to one of `RecentLog` or
  leaves its variables alone, and the answer comes in the step that reads its last entry.
- **DiagnosticBundleBuilder.** `BuildStepShape` says of every step that it either moves on inside
  the build with no call, or ends it with one; `CalledOnce` is its consequence. `BuilderInv` adds
  to the types what each build has behind it: `Counted` (which command it is at), `Named` (the
  archive has its name before `zip` runs) `Written` (each file that is `Due` at the place it has
  reached is in the directory, or its write failed) and `Packed` (from the success of `zip` on the
  archive holds each of them, `Held`, unless it was moved away); a later `zip` of the same name
  replaces an entry by one `Held` admits, since its own `name` is the same. `BuilderTyped` and
  `SuccessIsPacked` follow. `SmallOutputNeverSticks` is the other half of the pipe finding: the
  wait is harmless exactly if outputs fit, for any number of commands.
- **DiagnosticsFlow.** `FlowInv` strengthens `OneAtATime` and `ControlsReflect` with what they
  need and no property says: a warning alert is alone on the stack and was opened with the
  controls enabled (so that `Continue` cannot start a second build), at most one block waits on
  the main queue, and the build it reports is over. `FullInv` adds `BuilderInv`, proved again
  under the steps of the tab, that the build a warning is about exists (`Asked`), that a
  build which has copied the log has logged its end, unless it is still pending (`Reported`), and
  that trimming leaves the newest entries (`Trimmed`); from it follow `FlowTyped`,
  `BundleLogsAreComplete` and `CreatedIsPacked`, the latter two for every limit of the log, every
  cutoff, and any number of entries by others. `OneRequestFlow` is the safety part of the
  refinement: the tab with its builds implements `RequestFlow`.
- **NetworkWatch.** `WatchInv` adds to the type invariant that whatever waits on the main queue or
  stands in the text has been posted, that each stage of a handler has left its trace, and that no
  handler runs before the click. `ChangesShownOnce` rests on two links of a chain: the one
  monitor delivers a change once and in order (`DeliveredOnce`), and an invocation is at one place
  of the main queue or on one line of the text (`PostedOnce`).
- **CrashHandling.** `SecondaryIsForTheApp`: what a thread of the Mach monitor takes from the port
  is a fault of the application. The property is not inductive, since a message could be the
  primary thread's own. `Arming` is what excludes that: while the exception ports are ours the
  secondary thread is parked and the primary one has not got past giving them back, so it is in
  none of the places where it may crash; `OfTheApp` carries this over to the messages that wait.
  While one thread has crashed, and however often its handlers crash, the handling is sequential,
  and `Solo` says how: either its message waits at the port (`Knocking`), or one thread handles it
  (`HandledBy`), which is the crashed one for a signal or an exception and the primary thread for
  the rest. `HandledBy` has one part per matter: the others do nothing (`Alone`); the global flags
  agree with how far the handler is, so that a second handler finds the mark of the first
  (`Marked`); the context is about the thread that crashed (`Knows`); the report has been told the
  first n sections and all of them before the handler leaves (`SavedFirst`); and a second handler
  has copied what it is about to delete, but for what the copy left out (`SavedAgain`).
  `LoneCrashAlwaysReported` and `EvidenceAlwaysKept` follow from `Single`, which is `Solo` and
  what holds for any number of crashes (`Kept`): the flags' types, and that a thread inside a
  handler has a frame. `CrashTyped` and `NeverThreeReports` are about any number of crashes, of
  any threads, in any order. Their invariant, `Crowd`, counts: a thread is suspended at least as
  often as others hold it (`Counted`), so that a held thread stands still and no two of the
  application's threads hold each other (`NotBoth`). Before `g_handlingFatalException` is set,
  only one of them and the primary thread can have passed the test (`BeforeMark`, `FirstWriters`);
  each of the two may write a report, so there may be a second but no third. After it is set the
  threads that may still write one (`Writers`) only get fewer (`Enough`). That needs the flags in
  the static contexts: filling in a context clears its flag, which would let a handler at
  `onCrash` take a number it must not have; `NotBoth`, `SecondaryPlaces`, `PrimaryPlaces` and
  `NoneNoted` exclude that there is one with the same context.
- **CrashReport.** For every process, depth and width, in a memory of any shape, regular or not:
  `ReportInv`. `Working` says that what is left to write is about addresses of the memory and
  about objects and variables that passed the checks of `IsValidObject`; `Nested`, that what
  belongs to the description of an object stands before everything else that is left (`InnerOf`,
  `Around`); `Limits`, that the writer pays in advance: as long as the limit lets it go deeper,
  what it has written of an address, together with what it has begun (`Pending`), is at most one
  more than the depth less the limit. `FaultsAreGuarded` needs of each check what it excludes
  (`KindIs`, `IvarCountIs`, `FirstObjectIs`): a read that goes wrong is then one of those
  `Unguarded` names. `DescriptionsAreBounded` is `Limits` without what is pending. What the
  objects point to plays no part, so a cycle in the heap is covered. `PaidInAdvance` is the
  arithmetic: an object whose variables were not paid for would break it, since each variable
  could lead to as many again. `ReportsAlwaysClose` and `SectionsStayInPlace` are about texts,
  which may be of any length. `IsJSON` reads a text from its first token to its last by a
  `Grammar` that keeps the open containers, what may come next and the keys of the outermost
  object; the invariant says where it is after what has been written so far. `At` ties the encoder
  to it: the text has been read without an error, the same containers are open, and what may come
  next is what `first` says (`Within` is the same before a value whose name is written). Each
  operation of the encoder keeps that (`EndContainerWrites` and its like), and so do images,
  stacks and threads, whose numbers are not bounded. An embedded text is read by a decoder whose
  callbacks write: `Decoding` says that the encoder is always where the decoder's own stack of
  containers puts it, whatever the text is and whatever the window still holds (`TextWrites`,
  `CopyWrites`). If an embedded text is refused half-way, what it has opened stays open: there is
  more open than there should be, and never less (`Over`). `Brings` says of `work` that it closes
  what it has to and no more, also in the middle of an object's description. `KeysOK` counts the
  sections: all of them told so far, or, once a text was refused (which can happen only after the
  sixth, `Late`), at least six. All this in one is `TextInv`, which contains `ReportInv` and is
  kept by every action, one lemma each, as long as the heap is `Regular` (`TextKept`): the heap
  never changes, so that the precondition needs no invariant of its own. The values computed by
  recursion (`Loop`, `Down`, `BinaryImages`, `Stack`) are functions on an interval, so what holds
  of each of their values follows from the least number for which it does not (`LeastOf`,
  `Induction`, which rest on the library's first-order theorem that `<` is well-founded).
  `TextAssumption` says of a process what the texts rely on: names and reasons are strings, the
  user information, if there is any, is a dictionary (`setUserInfo:` of `SentryCrash.m` serialises
  an `NSDictionary`), there is at least one thread, and no name in a text of the scope or of the
  user has a control character without an escape (`Speakable`: the texts come from
  `[SentryCrashJSONCodec encode:]`, which refuses such a name; `SentryCrashScopeObserver.m:156`,
  `SentryCrash.m:120`). `OnlyWholeReportsArePassed` is about the next launch: decoder and encoder
  together are the identity on every text the writer can leave whole and the launch reads from its
  beginning (`Len(file) <= MaxRead`), but for the dates, and refuse every other. `TextInv` says
  what is left: a file that was torn is a proper beginning of a text, broken off inside a
  container (`Torn`), a file that was closed, by the first writer or by the second, is a whole
  text that begins with a container (`Solid`). The proof follows the fixer through such a text
  with the grammar and with the reader that defines `Dated`. Between two of its steps the fixer is
  in one of three places (`Here`): where a container has begun (`Entered`), behind a comma
  (`Awaiting`), or behind an element (`Behind`); in each, what its encoder has written is `Dated`
  of what it has read, and its own stack and path are the reader's. A step (`DecodeStepComes`)
  leads to such a place, at least one token on, or is the last one (`Comes`), which fails if the
  text is broken, or something in it is too long or too deep (`Broken`; `DeepAfter` keeps whether
  the reader has been deeper than `MaxDepth`) and else leaves the whole text. So as many rounds as
  the text has tokens suffice (`RoundsEnough`), whatever its length.
- **CrashCaches.** `NamesAlwaysSafe`: `Stored` says that a global whose store is not due holds the
  fresh array, `Kept` that arrays pointed to are not freed, `Within` that in source order the
  count is within both arrays from its first store on. The three together are inductive for any
  number of updates, with the stores in any order. `ImagesAlwaysTold`: `Told` says of every image
  the cache lists that the callback heard of it or that its adder is about to tell, from the
  moment registration is over; it needs `CallbackSet`, because the adder tells only if it finds a
  callback, and `AdderHasNode`. `CrumbsAlwaysInOrder`: `RingHolds` gives the content of every slot
  of the ring as a function of how far the writer is (`RingAt`), so that order becomes arithmetic
  on slots.
- **CrashLaunches.** `StartupCrashesGoFirst`: `OnFile` (a surviving note of a start-up crash can
  be read), `Owned` (the file is this launch's once its monitor is enabled) and `Known` (the
  launch has read it) carry the note from the launch that crashed to the next one, where `Waits`
  is the property. `CrashHistoryStaysTrue` does the same for what the state file says in general
  (`History`): whether the launch that saved last crashed (`NoteOnFile`, `NoteKnown`), and how
  many launches there were since a crash or a torn file (`Saves`, `LastMark`, `CountOnFile`,
  `CountKnown`).
  `DeletedWasAlwaysSent`: from when the sender has read the store on, what a readable report tells
  of is in its batch, or has been sent, passed over or finished too late (`Delivered`, `Settled`),
  and a report that is being copied into another cannot be read (`Unread`). `ReportsStayBounded`:
  pruning leaves at most the limit of reports with an ID above 0 (`Bounded`), whatever other files
  it counts, and a launch adds only the report of its own ID; the one with the ID 0 is the second
  of the two that may be over the limit.
  `CrashesSentOnce`: as long as IDs do not repeat, a file tells of the launch of its ID
  (`OfOneLaunch`), a crash is in one readable file (`OldUnread`, `OldGone`), a report is in one
  batch (`Separate`), and what has been sent does not wait again (`SentBefore`).

Model-checked only:

- liveness: `ControlsReturn`, the fairness in `FairOneRequestFlow`, `AnsweredOrStuck`,
  `ShownEventually` and `EndsOrWaitsForHeap` need fairness and `ENABLED`, which are out of the
  prover's reach.

Every invariant and every safety action property of the passing runs is stated by a theorem.

## Findings

1. `Core/DiagnosticBundleBuilder.m:187` and its five likes wait for a command to exit before its
   pipe is read. A command that prints more than the pipe holds never exits, and the build never
   answers: the spinner turns until the application is quit (`builder_pipe`).
   `PROJECT_OVERVIEW.md:328` promises 30-60 seconds.
2. A thread that crashes before the handler of another thread's crash has suspended it is taken
   for a crash in the crash reporter (`Monitors/SentryCrashMonitor.c:196`: whoever finds
   `g_handlingFatalException` set says so, line 202: "Detected crash in the crash reporter.
   Uninstalling SentryCrash."). Two handlers are then at work. If no report has been begun when
   the second one says so, the one that goes on writes a recrash report to a path that is still
   empty, so nothing is written, and its way out ends the process: no report, though no handler
   crashed (`crash_report`). The crashes may be of any kind; TLC's trace begins with a thread that
   enters the handler itself.
3. The copy of an unfinished report in a recrash report goes on behind the end of the file with
   what the window held before, so it has elements twice or elsewhere
   (`Tools/SentryCrashJSONCodec.c:1345`, `report_copy`).
4. `~0xffffffff` in `SentryCrashReportStore.c:176` is zero, so report IDs start over about every
   nine minutes, and pruning, which deletes the smallest IDs, may delete the newest report
   (`prune`).

### Observations

Without a run of their own:

- `Core/LogCollector.m:80` says "Keep only last 10,000 entries"; the entry after the 10000th drops
  1000, so 9001 are left.
- The files of a bundle are written with `error:nil`, and the bundle's README lists them whether
  or not they were written: a build that reports success may lack any of them.
- Two builds that end in one second share an archive; `zip -r` then adds to it, and it holds files
  of both.
- The path handler runs on a concurrent queue (`UI/LogsViewController.m:91`): two changes in quick
  succession may be shown in the wrong order, and the last line then stays wrong until the next
  change.
- The temporary directory of a build outlives an early return or a failed removal;
  `PROJECT_OVERVIEW.md:327` and `:1156` disagree on whether that is meant.
- The secondary thread of the Mach monitor is there "in case crash handler crashes"
  (`Monitors/SentryCrashMonitor_MachException.c:147`), and the comment at `:339` asks whether it
  ever fires. It does, but never for that: the exception ports are given back before anything in
  the handler can fail (`:342`), so a crash of the handler becomes a signal, and what the
  secondary thread gets is a fault of another thread that waited at the port.
  `SecondaryForTheOthers` states what the code does, against the comment.
- `SentryCrashReport.c:1431` ignores the result of `addJSONFromFile`, and `:1504` removes the old
  report. If the copy ends early - a name of 100 to 127 characters does not fit its buffer, though
  the writer may have written it; or a text is refused - the parts behind it are gone with the old
  file. `EvidenceKept` excepts just these (`missed`).
- "If true, the application crashed on the previous launch" (`Sentry/include/SentryCrash.h:177`,
  `SentryCrashMonitor_AppState.h:67`) and "Number of app launches since the last crash" (`:52`)
  are not quite what the values are. They speak of the launch that saved the state file last: a
  launch killed before it saved is passed over, so the crash may be of an older launch and a
  launch uncounted; a crash before the state monitor, the last one enabled (`SentryCrashC.c:146`),
  is not noted, and the next launch says that there was none; a torn file counts as no crash and
  starts the count anew. `CrashHistoryTrue` states what does hold.
- Of the store, only reports with an ID above 0 are bounded. A `.old` file, which a recrash report
  cut short leaves behind, counts for the pruning (`sscanf` in `getReportIDFromFilename` is
  content with the ID) but is never deleted by it: `pruneReports` deletes a `.json` file. `0.json`
  is not counted. Both go only when a launch gets to send and empties the directory.
- A report is deleted after the sink has seen it, whatever the sink did: with no client bound, or
  where the converter returns nil, nothing is sent (`SentryCrashReportSink.m:71-82`), and the
  completion is `YES` all the same. A report that a crash of the running launch finishes after the
  sender has read the store may be deleted unread. `DeletedWasSent` excepts both (`skipped`,
  `late`).
- `containsValidIvarData` does not look at the first variable of a class
  (`Tools/SentryCrashObjC.c:858-859`), and `ivarList` hands on whatever name it has
  (`:1062-1067`). With no name the encoder writes a comma and stops; with an unprintable one it is
  cut in the middle. And where the variable is a pointer, the container that was refused is still
  closed (`SentryCrashReport.c:583`, `:686`, `:701`), so that what follows is in the wrong one.
  The report is no JSON then, and the next launch drops it.
- `sentrycrashobjc_ivarValue` copies as many bytes as the variable says it has (`:1130`) into a
  local of one to eight bytes: a damaged class overruns the handler's stack.
- `numberAsFloat` asks Core Foundation for the type of an object that was only verified to be of a
  class named NSNumber (`:1562`, from `SentryCrashReport.c:457`).
- The encoder writes null for a number that is not one, and `inf` for one that is infinite
  (`Tools/SentryCrashJSONCodec.c:314-325`): an NSNumber, an NSDate or a variable that is infinite
  makes the next launch refuse the whole report. (A tagged number or date and a local that was
  left unset are taken to be finite in the model.)
- A report over 2,000,000 bytes is read from its end (`SentryCrashReportStore.c:232`,
  `Tools/SentryCrashFileUtils.c:251-259`). It is then no JSON as a rule, and dropped; a tail that
  happens to begin with a container or a string may be taken for a report. So is a report dropped
  whose containers are over 100 deep, as a value of the scope may be.
- The stores that publish a thread list (`SentryCrashCachedData.c:91`) are plain ones. In any
  order a compiler may choose the arrays they point to are not freed; but only in the order of the
  source is the count within both, so in another one a crash may read behind the end of an array
  (`NamesSafe` claims the second for the source order only).
- `binaryImageRemoved` marks the first node at the address (`SentryCrashBinaryImageCache.c:123`),
  also if it is marked already. An image loaded where another was before has a second node; when
  it goes, the first is marked again, and reports go on listing the second.
- A report with one string over the fixer's buffer is complete on disk, and dropped when it is
  read. `Tools/SentryCrashDynamicLinker.c:379-396` accepts crash messages that long, because
  `sentrycrashmem_maxReadableBytes` looks further than the limit of 1024 in the caller.
- `sentrycrashobjc_objectType` (`Tools/SentryCrashObjC.c:1171`) asks that the address itself pass
  for a class, too: an ordinary object, whose first words do not, is reported as unknown memory,
  although `Tools/SentryCrashObjC.h` presents the function as the one that tells objects from
  classes.
- `IntrospectionGuarded` names the places where the reader does not look: the loop of
  `containsValidIvarData` starts with a class's second variable, the size of a variable and the
  type of a number are not looked at (above), `isBlockClass` (`:1142`) compares the name of a
  superclass it has not checked, and a string with a length byte or wide characters and a
  CFArray's deque are read as they are, since the checks of `stringIsValid` and `cfarrayIsValid`
  belong to descriptions that the writer never asks for. A fault there costs the report, not the
  process more than it had lost: a second report is written.
- `writeURLContents` (`SentryCrashReport.c:412`) copies the URL object as if it were its string;
  `sentrycrashobjc_copyURLContents` is not called.
- A failed `sentrycrashobjc_ivarValue` leaves the value unset, and the writer reports what was in
  the variable before.
- An address within dyld always has the symbol of dyld that begins last (an ASSUME of
  `MCCrashReport`): the slide is taken as the header minus the header plus `vmaddr`
  (`Tools/SentryCrashDynamicLinker.c:307-310`), and absolute addresses are compared with relative
  ones.
- The slots of the breadcrumbs are undefined between `malloc` and `memset`, and the user
  information is freed before its pointer is replaced: a crash in between makes the handler read
  what it should not, which is one of the crashes inside a handler that `CrashHandling` has.

## Not modelled

- The text of `diagnostic_info.txt`, and formatting in general: no property is about it.
- Of the crash handler: the callbacks for screenshots and the view hierarchy (this application
  sets none), the registers in a machine context. Of the report: runs of plain fields of one kind
  are one field; the descriptions in `SentryCrashObjC.c` that the writer never asks for; a section
  other than the addresses of note is one step, whose text is then flushed by the next one (a
  death or a crash of the writer cuts it at any token in between). Of the state file: durations
  and sessions, on which no modelled decision depends. Of the caches: stopping them; the handler's
  wait of a microsecond for an update whose thread is suspended (`SentryCrashCachedData.c:190`),
  which changes nothing; the other fields of the scope, which go through the same `setField` as a
  breadcrumb.
- AppDelegate, AppCoordinator, `main.m`: straight-line start-up; the way out through Core Data
  never asks anything, because the data model is empty and the context never has changes.
- `Redactor` (one pure function with one caller), `MetricsListener` (logs a count), templates and
  empty tests.
- The rest of the Sentry pod - by far the larger part of the sources: transport, tracing,
  sessions, view swizzling and profiling are a library that this application configures and does
  not extend; profiling is not enabled; headers are declarations, and the remaining C files are
  wrappers of system calls. Their lines are why the project covers a small share of the repository
  although the parts that run in every crash are modelled.
