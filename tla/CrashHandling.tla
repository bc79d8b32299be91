---------------------------- MODULE CrashHandling ----------------------------
(* The crash reporter in the process: SentryCrash's monitors for Mach          *)
(* exceptions, signals, NSExceptions and C++ exceptions, what they share       *)
(* (SentryCrashMonitor.c), the suspension of the other threads                 *)
(* (SentryCrashMachineContext.c) and the callback that writes the report       *)
(* (SentryCrashC.c, SentryCrashReport.c).                                      *)
(*                                                                             *)
(* Any thread may crash at any time, several of them at once, and the code     *)
(* that handles a crash may crash.  A step is a stretch of the handler after   *)
(* which another thread, or the death of the process, could be noticed.        *)
EXTENDS Integers, FiniteSets, Sequences

CONSTANTS App,            \* the application's threads
          Nobody,
          Sections,       \* parts of a report; each is flushed when it is done
          MaxFaults       \* bound: crashes inside the handlers

Primary   == "primary"    \* the two exception handler threads of the Mach monitor
Secondary == "secondary"
Reserved  == {Primary, Secondary}
Threads   == App \cup Reserved

CrashAssumption == /\ Reserved \cap App = {} /\ Nobody \notin Threads
                   /\ IsFiniteSet(App) /\ Sections \in Nat \ {0} /\ MaxFaults \in Nat
ASSUME CrashAssumption

VARIABLES
  pc,        \* where each thread is
  frame,     \* the handler it runs: one of Frames, or "none"
  todo,      \* the threads it has still to suspend, or to resume
  subject,   \* for a Mach thread, the thread its message is about
  path,      \* the number of the report it is to write
  fd,        \* the file it writes: an index of inodes, 0 for none
  stopped,   \* suspend count of each application thread
  monitors,  \* the enabled monitors
  ports,     \* the task's exception ports are ours
  port,      \* messages waiting at our exception port: the threads that faulted
  handling,  \* g_handlingFatalException
  recrash,   \* g_crashedDuringExceptionHandling
  context,   \* each monitor's static g_monitorContext
  lastPath,  \* g_lastCrashReportFilePath: a report number, 0 while it is empty
  dir,       \* the report directory: <<number, extension>> -> inode, 0 for none
  inodes,    \* what the files hold, by inode
  missed,    \* history: parts of a report that a copy of it has left out
  heap,      \* the thread that holds the allocator's lock
  crashed,   \* history: the application threads that crashed by themselves
  faults,    \* history: crashes inside a handler
  dead       \* the process is gone

thread == <<pc, frame, todo, subject, path, fd>>
shared == <<stopped, monitors, ports, port, handling, recrash, context>>
disk   == <<lastPath, dir, inodes, missed>>
vars   == <<thread, shared, disk, heap, crashed, faults, dead>>

\* "fault" and "abort" are handleSignal for a hardware fault and for SIGABRT,
\* "skip" is CPPExceptionTerminate when the exception is an NSException.
Frames == {"mach", "fault", "abort", "objc", "cpp", "skip"}
MonitorOf(f) == IF f \in {"fault", "abort"} THEN "signal"
                ELSE IF f = "skip" THEN "cpp" ELSE f
Monitors == {"mach", "signal", "objc", "cpp"}

Reports == 0..Cardinality(App)   \* 0 has no file
Names   == Reports \X {"json", "old"}

\* Where a handler works on the crashed process and may itself crash.
Fragile == {"context", "path", "open", "write", "rename", "embed", "unlink",
            "rest", "transaction"}

Alive(t)   == ~dead /\ (t \in App => stopped[t] = 0)
At(t, l)   == Alive(t) /\ pc[t] = l
Goto(t, l) == pc' = [pc EXCEPT ![t] = l]

Init ==
  /\ pc = [t \in Threads |-> IF t \in App THEN "run"
                             ELSE IF t = Primary THEN "listen" ELSE "parked"]
  /\ frame = [t \in Threads |-> "none"]
  /\ todo = [t \in Threads |-> {}]
  /\ subject = [t \in Threads |-> Nobody]
  /\ path = [t \in Threads |-> 0] /\ fd = [t \in Threads |-> 0]
  /\ stopped = [t \in App |-> 0]
  /\ monitors = Monitors /\ ports = TRUE /\ port = <<>>
  /\ handling = FALSE /\ recrash = FALSE
  /\ context = [m \in Monitors |-> [about |-> Nobody, recrash |-> FALSE]]
  /\ lastPath = 0 /\ dir = [n \in Names |-> 0] /\ inodes = <<>> /\ missed = {}
  /\ heap = Nobody /\ crashed = {} /\ faults = 0 /\ dead = FALSE

-----------------------------------------------------------------------------
\* How a crash reaches a handler.

\* fault: the handler's own thread is among those it suspends
EnterAndStopSelf(t, f) ==
  /\ Goto(t, "suspend")
  /\ frame' = [frame EXCEPT ![t] = f] /\ todo' = [todo EXCEPT ![t] = App]
  /\ UNCHANGED <<subject, path, fd, dead>>

\* Thread t starts handler f: its first act is to suspend the other threads.
Enter(t, f) ==
  /\ Goto(t, "suspend")
  /\ frame' = [frame EXCEPT ![t] = f]
  /\ todo' = [todo EXCEPT ![t] = App \ {t}]
  /\ UNCHANGED <<subject, path, fd, dead>>

\* The process dies of an unhandled signal.
Die == dead' = TRUE /\ UNCHANGED thread

\* A signal reaches thread t: handleSignal if it is installed and the thread is
\* not inside it for the same signal already, the default action otherwise.
Signal(t, sig) == IF "signal" \in monitors /\ frame[t] # sig THEN Enter(t, sig) ELSE Die

\* A hardware fault goes to the exception port first; the thread waits in the
\* kernel for the reply.  Without our port it becomes a signal.
Fault(t) ==
  IF ports THEN /\ port' = Append(port, t) /\ Goto(t, "kernel")
                /\ UNCHANGED <<frame, todo, subject, path, fd, dead>>
           ELSE Signal(t, "fault") /\ UNCHANGED port

Crash(t, kind) ==
  /\ At(t, "run") /\ crashed' = crashed \cup {t}
  /\ \/ kind = "fault" /\ Fault(t)
     \/ kind = "abort" /\ heap # t /\ Signal(t, "abort") /\ UNCHANGED port
     \/ /\ kind \in {"objc", "cpp"} /\ heap # t /\ UNCHANGED port
        /\ IF "cpp" \in monitors THEN Enter(t, IF kind = "cpp" THEN "cpp" ELSE "skip")
           ELSE Signal(t, "abort")
  /\ UNCHANGED <<stopped, monitors, ports, handling, recrash, context, disk, heap, faults>>

\* The handler on thread t touches memory it should not have.
CrashInHandler(t) ==
  /\ Alive(t) /\ pc[t] \in Fragile /\ faults < MaxFaults
  /\ faults' = faults + 1
  /\ Fault(t)
  /\ UNCHANGED <<stopped, monitors, ports, handling, recrash, context, disk, heap, crashed>>

\* A Mach thread receives a message.  With the monitor disabled it only replies.
Receive(t) ==
  /\ At(t, "listen") /\ port # <<>>
  /\ subject' = [subject EXCEPT ![t] = Head(port)]
  /\ port' = Tail(port)
  /\ IF "mach" \in monitors
     THEN /\ Goto(t, "suspend") /\ frame' = [frame EXCEPT ![t] = "mach"]
          /\ todo' = [todo EXCEPT ![t] = App]
     ELSE Goto(t, "reply") /\ UNCHANGED <<frame, todo>>
  /\ UNCHANGED <<path, fd, dead, stopped, monitors, ports, handling, recrash, context, disk, heap, crashed, faults>>

-----------------------------------------------------------------------------
\* The part the monitors have in common.

\* fault: an NSException is noted as fatal before it is handed on
SuspendThenNote(t) ==
  /\ At(t, "suspend")
  /\ \/ \E u \in todo[t] : /\ stopped' = [stopped EXCEPT ![u] = @ + 1]
                           /\ todo' = [todo EXCEPT ![t] = @ \ {u}]
                           /\ UNCHANGED <<pc, handling>>
     \/ /\ todo[t] = {} /\ UNCHANGED stopped
        /\ handling' = (handling \/ frame[t] = "skip")
        /\ IF frame[t] = "skip" THEN /\ Goto(t, "resume")
                                     /\ todo' = [todo EXCEPT ![t] = App \ {t}]
                                ELSE Goto(t, "test") /\ UNCHANGED todo
  /\ UNCHANGED <<frame, subject, path, fd, monitors, ports, port, recrash, context, disk, heap, crashed, faults, dead>>

\* suspendEnvironment: one thread_suspend after the other.
Suspend(t) ==
  /\ At(t, "suspend")
  /\ \/ \E u \in todo[t] : /\ stopped' = [stopped EXCEPT ![u] = @ + 1]
                           /\ todo' = [todo EXCEPT ![t] = @ \ {u}]
                           /\ UNCHANGED pc
     \/ /\ todo[t] = {} /\ UNCHANGED stopped
        /\ IF frame[t] = "skip" THEN /\ Goto(t, "resume")
                                     /\ todo' = [todo EXCEPT ![t] = App \ {t}]
                                ELSE Goto(t, "test") /\ UNCHANGED todo
  /\ UNCHANGED <<frame, subject, path, fd, monitors, ports, port, handling, recrash, context, disk, heap, crashed, faults, dead>>

\* notifyFatalExceptionCaptured reads g_handlingFatalException ...
Test(t) ==
  /\ At(t, "test") /\ Goto(t, "mark")
  /\ recrash' = (recrash \/ handling)
  /\ UNCHANGED <<frame, todo, subject, path, fd, stopped, monitors, ports, port, handling, context, disk, heap, crashed, faults, dead>>

\* ... and sets it; after a crash in the crash reporter it disables every monitor.
Mark(t) ==
  /\ At(t, "mark")
  /\ handling' = TRUE
  /\ Goto(t, CASE frame[t] = "mach" -> "switch"
               [] frame[t] = "objc" -> "malloc"
               [] OTHER -> "context")
  /\ monitors' = IF recrash THEN {} ELSE monitors
  /\ UNCHANGED <<frame, todo, subject, path, fd, stopped, ports, port, recrash, context, disk, heap, crashed, faults, dead>>

\* fault: the ports stay ours
SwitchKeepingPorts(t) ==
  /\ At(t, "switch")
  /\ pc' = [pc EXCEPT ![t] = "context", ![Secondary] = IF @ = "parked" THEN "listen" ELSE @]
  /\ UNCHANGED <<frame, todo, subject, path, fd, stopped, monitors, ports, port, handling, recrash, context, disk, heap, crashed, faults, dead>>

\* The primary thread gives the exception ports back and wakes the secondary one.
Switch(t) ==
  /\ At(t, "switch")
  /\ IF t = Primary
     THEN /\ ports' = FALSE
          /\ pc' = [pc EXCEPT ![t] = "context", ![Secondary] = IF @ = "parked" THEN "listen" ELSE @]
     ELSE Goto(t, "context") /\ UNCHANGED ports
  /\ UNCHANGED <<frame, todo, subject, path, fd, stopped, monitors, port, handling, recrash, context, disk, heap, crashed, faults, dead>>

\* The NSException handler allocates the call stack.
Malloc(t) ==
  /\ At(t, "malloc") /\ heap = Nobody /\ Goto(t, "context")
  /\ UNCHANGED <<frame, todo, subject, path, fd, shared, disk, heap, crashed, faults, dead>>

\* The monitor's static context is filled in.  All but the Mach monitor clear it.
FillContext(t) ==
  /\ At(t, "context") /\ Goto(t, "handle")
  /\ LET m == MonitorOf(frame[t])
         who == IF m = "mach" THEN subject[t] ELSE t IN
     context' = [context EXCEPT ![m].about = who, ![m].recrash = @ /\ m = "mach"]
  /\ UNCHANGED <<frame, todo, subject, path, fd, stopped, monitors, ports, port, handling, recrash, disk, heap, crashed, faults, dead>>

\* sentrycrashcm_handleException, up to the callback.
Handle(t) ==
  /\ At(t, "handle") /\ Goto(t, "oncrash")
  /\ context' = [context EXCEPT ![MonitorOf(frame[t])].recrash = @ \/ recrash]
  /\ UNCHANGED <<frame, todo, subject, path, fd, stopped, monitors, ports, port, handling, recrash, disk, heap, crashed, faults, dead>>

-----------------------------------------------------------------------------
\* onCrash and the report writer.

\* fault: every crash gets a report number of its own
OnCrashNumbered(t) ==
  /\ At(t, "oncrash") /\ Goto(t, "path")
  /\ UNCHANGED <<frame, todo, subject, path, fd, shared, disk, heap, crashed, faults, dead>>

OnCrash(t) ==
  /\ At(t, "oncrash")
  /\ Goto(t, IF context[MonitorOf(frame[t])].recrash THEN "rename" ELSE "path")
  /\ UNCHANGED <<frame, todo, subject, path, fd, shared, disk, heap, crashed, faults, dead>>

NextPath(t) ==
  /\ At(t, "path") /\ Goto(t, "open")
  /\ lastPath' = lastPath + 1 /\ path' = [path EXCEPT ![t] = lastPath + 1]
  /\ UNCHANGED <<frame, todo, subject, fd, shared, dir, inodes, missed, heap, crashed, faults, dead>>

Blank(kind) == [kind |-> kind, parts |-> {}, complete |-> FALSE]

\* openBufferedWriter creates the file and fails if there is one, or no path.
Create(t, name, kind, next) ==
  IF name[1] # 0 /\ dir[name] = 0
  THEN /\ inodes' = Append(inodes, Blank(kind))
       /\ dir' = [dir EXCEPT ![name] = Len(inodes) + 1]
       /\ fd' = [fd EXCEPT ![t] = Len(inodes) + 1]
       /\ Goto(t, next)
  ELSE UNCHANGED <<inodes, dir, fd>> /\ Goto(t, "transaction")

Current(ext) == <<lastPath, ext>>

OpenReport(t) ==
  /\ At(t, "open") /\ Create(t, <<path[t], "json">>, "standard", "write")
  /\ UNCHANGED <<frame, todo, subject, path, shared, lastPath, missed, heap, crashed, faults, dead>>

\* A part of the report: who wrote it, which section, and the thread it calls crashed.
Part(t, k) == [by |-> t, section |-> k, about |-> context[MonitorOf(frame[t])].about]
Written(t) == Cardinality({p \in inodes[fd[t]].parts : p.by = t /\ p.section > 0})

\* writeStandardReport, one flushed section at a time, then endEncode and close.
WriteSection(t) ==
  /\ At(t, "write")
  /\ IF Written(t) < Sections
     THEN /\ inodes' = [inodes EXCEPT ![fd[t]].parts = @ \cup {Part(t, Written(t) + 1)}]
          /\ UNCHANGED pc
     ELSE inodes' = [inodes EXCEPT ![fd[t]].complete = TRUE] /\ Goto(t, "transaction")
  /\ UNCHANGED <<frame, todo, subject, path, fd, shared, lastPath, dir, missed, heap, crashed, faults, dead>>

\* writeRecrashReport: the old report is moved aside, ...
Rename(t) ==
  /\ At(t, "rename") /\ Goto(t, "reopen")
  /\ dir' = IF dir[Current("json")] # 0
            THEN [dir EXCEPT ![Current("old")] = dir[Current("json")], ![Current("json")] = 0]
            ELSE dir
  /\ UNCHANGED <<frame, todo, subject, path, fd, shared, lastPath, inodes, missed, heap, crashed, faults, dead>>

Reopen(t) ==
  /\ At(t, "reopen") /\ Create(t, Current("json"), "minimal", "embed")
  /\ UNCHANGED <<frame, todo, subject, path, shared, lastPath, missed, heap, crashed, faults, dead>>

\* fault: the copy is left in the buffer
EmbedUnflushed(t) ==
  /\ At(t, "embed") /\ Goto(t, "unlink")
  /\ UNCHANGED <<frame, todo, subject, path, fd, shared, disk, heap, crashed, faults, dead>>

\* Where a copy may end: behind the last part, or in front of a text that does not fit the
\* copier's buffers or that it cannot read or write.
Beginnings(parts) == {parts} \cup {{p \in parts : p.section \in 1..n} : n \in 0..Sections}

\* ... copied into the new one, as far as the copy gets, which is then flushed, ...
Embed(t) ==
  /\ At(t, "embed") /\ Goto(t, "unlink")
  /\ IF dir[Current("old")] = 0 THEN UNCHANGED <<inodes, missed>>
     ELSE LET old == inodes[dir[Current("old")]].parts IN
          \E copied \in Beginnings(old) :
            /\ inodes' = [inodes EXCEPT ![fd[t]].parts = @ \cup copied]
            /\ missed' = missed \cup (old \ copied)
  /\ UNCHANGED <<frame, todo, subject, path, fd, shared, lastPath, dir, heap, crashed, faults, dead>>

\* ... and removed, whether or not all of it has been copied.
Unlink(t) ==
  /\ At(t, "unlink") /\ Goto(t, "rest")
  /\ dir' = [dir EXCEPT ![Current("old")] = 0]
  /\ UNCHANGED <<frame, todo, subject, path, fd, shared, lastPath, inodes, missed, heap, crashed, faults, dead>>

\* The minimal report's own information; section 0 marks it.
WriteRest(t) ==
  /\ At(t, "rest") /\ Goto(t, "transaction")
  /\ inodes' = [inodes EXCEPT ![fd[t]].parts = @ \cup {Part(t, 0)}, ![fd[t]].complete = TRUE]
  /\ UNCHANGED <<frame, todo, subject, path, fd, shared, lastPath, dir, missed, heap, crashed, faults, dead>>

\* g_saveTransaction runs Objective-C, which allocates.
SaveTransaction(t) ==
  /\ At(t, "transaction") /\ heap = Nobody /\ Goto(t, "finish")
  /\ UNCHANGED <<frame, todo, subject, path, fd, shared, disk, heap, crashed, faults, dead>>

-----------------------------------------------------------------------------
\* The way out.

\* The end of handleException: the monitors are disabled; the Mach monitor keeps its
\* ports and threads, which from then on only reply.  The NSException handler
\* does not resume the other threads.
Finish(t) ==
  /\ At(t, "finish")
  /\ Goto(t, IF frame[t] = "objc" THEN "abort" ELSE "resume")
  /\ monitors' = IF handling /\ ~recrash THEN {} ELSE monitors
  /\ todo' = [todo EXCEPT ![t] = IF frame[t] = "objc" THEN {} ELSE App \ {t}]
  /\ UNCHANGED <<frame, subject, path, fd, stopped, ports, port, handling, recrash, context, disk, heap, crashed, faults, dead>>

Leave(t) == CASE frame[t] = "mach" -> "reply"
              [] frame[t] \in {"fault", "abort"} -> "raise"
              [] frame[t] = "cpp" -> "abort"
              [] OTHER -> "uncaught"

\* resumeEnvironment; thread_resume fails on a thread that is not suspended.
Resume(t) ==
  /\ At(t, "resume")
  /\ \/ \E u \in todo[t] : /\ stopped' = [stopped EXCEPT ![u] = IF @ = 0 THEN 0 ELSE @ - 1]
                           /\ todo' = [todo EXCEPT ![t] = @ \ {u}]
                           /\ UNCHANGED pc
     \/ todo[t] = {} /\ Goto(t, Leave(t)) /\ UNCHANGED <<stopped, todo>>
  /\ UNCHANGED <<frame, subject, path, fd, monitors, ports, port, handling, recrash, context, disk, heap, crashed, faults, dead>>

\* The C++ handler hands an NSException on to the runtime, which calls our
\* uncaught exception handler if it is still set, and aborts.
Uncaught(t) ==
  /\ At(t, "uncaught")
  /\ IF "objc" \in monitors THEN Enter(t, "objc") ELSE Signal(t, "abort")
  /\ UNCHANGED <<shared, disk, heap, crashed, faults>>

\* raise(sigNum) in the signal handler, abort() after an exception.
Raise(t) ==
  /\ \/ At(t, "raise") /\ Signal(t, frame[t])
     \/ At(t, "abort") /\ Signal(t, "abort")
  /\ UNCHANGED <<shared, disk, heap, crashed, faults>>

\* The reply says the exception was not handled: the kernel turns it into a signal
\* for the thread that faulted.  A default action needs no code of the thread's and
\* takes effect even while the thread is suspended.
Reply(t) ==
  /\ At(t, "reply") /\ Goto(t, "done")
  /\ UNCHANGED <<frame, todo, subject, path, fd, shared, disk, heap, crashed, faults, dead>>

SignalAfterReply(u) ==
  /\ ~dead /\ pc[u] = "kernel"
  /\ "signal" \in monitors => Alive(u)
  /\ \E t \in Reserved : pc[t] = "done" /\ subject[t] = u
  /\ Signal(u, "fault")
  /\ UNCHANGED <<shared, disk, heap, crashed, faults>>

\* The application's threads allocate memory, too.
TakeHeap(t) ==
  /\ At(t, "run") /\ heap = Nobody /\ heap' = t
  /\ UNCHANGED <<thread, shared, disk, crashed, faults, dead>>

ReleaseHeap(t) ==
  /\ At(t, "run") /\ heap = t /\ heap' = Nobody
  /\ UNCHANGED <<thread, shared, disk, crashed, faults, dead>>

-----------------------------------------------------------------------------
Monitoring(t) == Receive(t) \/ Suspend(t) \/ Test(t) \/ Mark(t) \/ Switch(t)
                 \/ Malloc(t) \/ FillContext(t) \/ Handle(t)
Reporting(t)  == OnCrash(t) \/ NextPath(t) \/ OpenReport(t) \/ WriteSection(t) \/ Rename(t)
                 \/ Reopen(t) \/ Embed(t) \/ Unlink(t) \/ WriteRest(t) \/ SaveTransaction(t)
Leaving(t)    == Finish(t) \/ Resume(t) \/ Uncaught(t) \/ Raise(t) \/ Reply(t)
                 \/ SignalAfterReply(t)
Step(t)       == Monitoring(t) \/ Reporting(t) \/ Leaving(t)

Next ==
  \/ \E t \in Threads : Step(t) \/ CrashInHandler(t)
  \/ \E t \in App : \/ \E kind \in {"fault", "abort", "objc", "cpp"} : Crash(t, kind)
                   \/ TakeHeap(t) \/ ReleaseHeap(t)

Spec == Init /\ [][Next]_vars

\* Every thread is scheduled, and one that runs gives the allocator's lock back.
Fairness == /\ \A t \in Threads : WF_vars(Step(t))
            /\ \A t \in App : WF_vars(ReleaseHeap(t))
FairSpec == Spec /\ Fairness

-----------------------------------------------------------------------------
Labels == {"run", "kernel", "parked", "listen", "suspend", "test", "mark", "switch", "malloc",
           "context", "handle", "oncrash", "path", "open", "write", "rename", "reopen",
           "embed", "unlink", "rest", "transaction", "finish", "resume", "raise", "abort",
           "uncaught", "reply", "done"}

\* Every variable has the values it is meant to have; in particular no suspend count
\* gets below zero, and there are no more reports than threads that could crash.
CrashTypeOK ==
  /\ pc \in [Threads -> Labels] /\ frame \in [Threads -> Frames \cup {"none"}]
  /\ todo \in [Threads -> SUBSET App] /\ subject \in [Threads -> Threads \cup {Nobody}]
  /\ path \in [Threads -> Reports] /\ \A t \in Threads : fd[t] \in 0..Len(inodes)
  /\ stopped \in [App -> Nat] /\ monitors \subseteq Monitors
  /\ {ports, handling, recrash, dead} \subseteq BOOLEAN
  /\ port \in Seq(Threads) /\ lastPath \in Reports
  /\ \A n \in Names : dir[n] \in 0..Len(inodes)
  /\ heap \in App \cup {Nobody} /\ crashed \subseteq App /\ faults \in 0..MaxFaults

OnDisk == UNION {inodes[dir[n]].parts : n \in {m \in Names : dir[m] # 0}}
Files  == {n \in Names : dir[n] # 0}

\* When the process is gone after one crash of one thread, and the reporter itself
\* did not crash, there is exactly one file, a complete standard report, and each of
\* its parts is about the thread that crashed - though an NSException passes through
\* two handlers, and a Mach exception reappears as a signal.
LoneCrashReported ==
  dead /\ faults = 0 =>
    \A t \in App : crashed = {t} =>
      \E n \in Names :
        /\ Files = {n} /\ n[2] = "json"
        /\ inodes[dir[n]].kind = "standard" /\ inodes[dir[n]].complete
        /\ {p.about : p \in inodes[dir[n]].parts} = {t}
        /\ Cardinality(inodes[dir[n]].parts) = Sections

\* When the reporter crashes while it tells of a lone crash - also while it moves the report
\* into a second one - nothing that is on disk gets lost, but for the parts behind the place
\* where a copy ended early: those are deleted with the old report.
EvidenceKept == [][Cardinality(crashed') <= 1 => OnDisk \subseteq OnDisk' \cup missed']_vars

\* The secondary exception thread handles only an exception of another thread of the
\* application: a crash of the primary thread's own handler becomes a signal, because
\* the ports were given back before anything in the handler could fail.  The comment on
\* g_secondaryPThread has it there "in case crash handler crashes"; see README.
SecondaryForTheOthers == subject[Secondary] \in App \cup {Nobody}

\* A handler needs the allocator, whose lock is held by a thread that is suspended,
\* or inside a handler itself.
HeapStuck ==
  /\ heap # Nobody /\ ~(Alive(heap) /\ pc[heap] = "run")
  /\ \E t \in Threads : pc[t] \in {"malloc", "transaction"}

\* After a crash the process comes to its end, or a handler waits for ever for memory:
\* the suspensions, the second handler thread and the crashes inside the handlers
\* leave no other way to hang.
EndsOrWaitsForHeap == (crashed # {}) ~> (dead \/ []HeapStuck)

\* A process that is gone after crashes of its threads, and none of its handlers, has left
\* a report.  Not so: a thread that crashes before the handler of another one's crash has
\* suspended it is taken for a crash in the crash reporter, see README.
CrashLeavesReport == dead /\ faults = 0 => Files # {}
=============================================================================
