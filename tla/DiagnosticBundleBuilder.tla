------------------------ MODULE DiagnosticBundleBuilder ------------------------
(***************************************************************************)
(* Core/DiagnosticBundleBuilder.m: +buildWithSysdiagnose:completion: runs  *)
(* on a global dispatch queue, so several builds may run at once.  A build *)
(* makes a private temporary directory, writes its files there (a failed   *)
(* write is ignored), runs system commands when extended diagnostics are   *)
(* asked for, zips the directory into Downloads under a name made of the   *)
(* local time to the second, checks that the archive is there, removes the *)
(* directory and calls the completion block.                               *)
(*                                                                         *)
(* The application log is Core/LogCollector.m seen from outside: an entry  *)
(* is added under its lock, the oldest TrimCount are dropped whenever more *)
(* than MaxEntries are held, and the whole application logs to it, on any  *)
(* thread.  (Nobody calls clearLogs.)  LogCollector.tla opens the lock.    *)
(*                                                                         *)
(* A file's text is abstracted to the build that wrote it.  Each command   *)
(* writes to a pipe that the build reads only after the command has exited *)
(* (launch; waitUntilExit; readDataToEndOfFile).  /usr/bin/zip, the file   *)
(* system, the clock and the user who may move archives out of Downloads   *)
(* are the environment.                                                    *)
(***************************************************************************)
EXTENDS Integers, Sequences, FiniteSets

CONSTANTS Builds,        \* calls of buildWithSysdiagnose:completion:
          Commands,      \* system commands of an extended build (6 in the code)
          OutputSizes,   \* how much a command may print, in pipe units
          PipeCapacity,  \* what a pipe holds before its writer blocks
          Faults,        \* what may go wrong in the environment
          Nobody,        \* no build: who logs what is no build's
          MaxEntries,    \* 10000 in the code
          TrimCount,     \* 1000 in the code
          Window,        \* the 10 days of getLogsFromLastDays:
          MaxTime,       \* bound: the clock reads 0..MaxTime
          SetBack        \* bound: the clock may also be set back

ASSUME BuilderAssumption == /\ Commands \in Nat \ {0}
                            /\ OutputSizes \subseteq Nat
                            /\ PipeCapacity \in Nat
                            /\ Faults \subseteq {"mkdir", "write", "launch", "downloads",
                                                 "zip", "remove"}
                            /\ MaxTime \in Nat /\ Window \in Nat /\ SetBack \in BOOLEAN
                            /\ MaxEntries \in Nat /\ TrimCount \in 2 .. MaxEntries
                            /\ Nobody \notin Builds

VARIABLES pc,        \* pc[b]: the next thing build b does
          sys,       \* sys[b]: includeSys
          dir,       \* dir[b]: the temporary directory exists
          files,     \* files[b]: what b has written into it
          cmd,       \* cmd[b]: commands b has run
          child,     \* child[b]: the running command's output, to write and in the pipe
          name,      \* name[b]: the timestamp in b's archive name
          archive,   \* archive[n]: the pairs file, build in archive n; {} if none
          lost,      \* history variable: files of b whose write failed
          moved,     \* history variable: builds whose archive was moved away
          result,    \* result[b]: what the completion block was given
          calls,     \* calls[b]: how often it was called
          journal,   \* everything logged through LogCollector, oldest first
          dropped,   \* how many of the oldest entries it has dropped
          shown,     \* shown[b]: what b's application_logs.txt covers
          clock      \* the wall clock
temp    == <<dir, files, lost>>
command == <<cmd, child>>
zipped  == <<archive, moved>>
ending  == <<result, calls>>
log     == <<journal, dropped>>
applog  == <<log, shown>>
bvars   == <<pc, sys, temp, command, name, zipped, ending, applog, clock>>

Names    == 0 .. MaxTime
NoName   == -1
Basic    == {"application_logs.txt", "diagnostic_info.txt", "README.txt"}
Extended == "extended_diagnostics.txt"
Files    == Basic \cup {Extended}
Pairs    == [file : Files, by : Builds]
Exited   == [left |-> 0, pipe |-> 0]
Failures == {"mkdirError", "noDownloads", "zipError", "notFound"}

\* What is logged: by the builder, by the controller that calls it, by others.
Events  == {"starting", "extended", "extendedDone",
            "clicked", "cancelled", "continued", "created", "failed", "other"}
Entries == [what : Events, by : Builds \cup {Nobody}, at : Names]

\* What a text made of the log covers: entries from .. upTo, if newer than since.
Extents == [from : Nat, upTo : Nat, since : Int]
Nothing == [from |-> 1, upTo |-> 0, since |-> 0]

BuilderInit ==
  /\ pc = [b \in Builds |-> "idle"]
  /\ sys = [b \in Builds |-> FALSE]
  /\ dir = [b \in Builds |-> FALSE]
  /\ files = [b \in Builds |-> {}]
  /\ cmd = [b \in Builds |-> 0]
  /\ child = [b \in Builds |-> Exited]
  /\ name = [b \in Builds |-> NoName]
  /\ archive = [n \in Names |-> {}]
  /\ lost = [b \in Builds |-> {}]
  /\ moved = {}
  /\ result = [b \in Builds |-> "none"]
  /\ calls = [b \in Builds |-> 0]
  /\ journal = <<>> /\ dropped = 0
  /\ shown = [b \in Builds |-> Nothing]
  /\ clock \in Names

Goto(b, label) == pc' = [pc EXCEPT ![b] = label]

TrimsLate(n) ==  \* fault: the trim takes what is newer, too
  IF Len(journal) + n - dropped > MaxEntries THEN dropped + TrimCount + 1 ELSE dropped

\* log:level: - with n entries more the log is over its limit, and trimmed.
Trim(n) == IF Len(journal) + n - dropped > MaxEntries THEN dropped + TrimCount ELSE dropped

Entry(b, what) == [what |-> what, by |-> b, at |-> clock]
Log(b, what)   == journal' = Append(journal, Entry(b, what)) /\ dropped' = Trim(1)
LogTwice(b, what) == /\ journal' = Append(Append(journal, Entry(b, what)), Entry(b, what))
                     /\ dropped' = Trim(2)

\* The completion block, and the return that ends the build.
Complete(b, outcome) == /\ result' = [result EXCEPT ![b] = outcome]
                        /\ calls' = [calls EXCEPT ![b] = @ + 1]
                        /\ Goto(b, "done")

\* dispatch_async to the global queue.  What the caller logs is the caller's.
Request(b, includeSys) ==
  /\ pc[b] = "idle"
  /\ sys' = [sys EXCEPT ![b] = includeSys]
  /\ Goto(b, "mkdir")
  /\ UNCHANGED <<temp, command, name, zipped, ending, shown, clock>>

MakeDirSilent(b) ==  \* fault: the error path returns without the completion block
  /\ pc[b] = "mkdir"
  /\ \/ dir' = [dir EXCEPT ![b] = TRUE] /\ Log(b, "starting") /\ Goto(b, "appLogs")
     \/ "mkdir" \in Faults /\ Goto(b, "done") /\ UNCHANGED <<dir, log>>
  /\ UNCHANGED <<sys, files, lost, command, name, zipped, ending, shown, clock>>

MakeDir(b) ==
  /\ pc[b] = "mkdir"
  /\ \/ /\ dir' = [dir EXCEPT ![b] = TRUE]
        /\ Log(b, "starting")
        /\ Goto(b, "appLogs")
        /\ UNCHANGED ending
     \/ "mkdir" \in Faults /\ Complete(b, "mkdirError") /\ UNCHANGED <<dir, log>>
  /\ UNCHANGED <<sys, files, lost, command, name, zipped, shown, clock>>

\* writeToURL:...error:nil - the file is there afterwards, or it is not.
Write(b, f) == \/ files' = [files EXCEPT ![b] = @ \cup {f}] /\ UNCHANGED lost
               \/ "write" \in Faults /\ lost' = [lost EXCEPT ![b] = @ \cup {f}] /\ UNCHANGED files

\* getLogsFromLastDays: and the file that shows it.
WriteAppLogs(b) ==
  /\ pc[b] = "appLogs"
  /\ shown' = [shown EXCEPT ![b] =
                 [from |-> dropped + 1, upTo |-> Len(journal), since |-> clock - Window]]
  /\ Write(b, "application_logs.txt")
  /\ Goto(b, "info")
  /\ UNCHANGED <<sys, dir, command, name, zipped, ending, log, clock>>

WriteInfo(b) ==
  /\ pc[b] = "info"
  /\ Write(b, "diagnostic_info.txt")
  /\ IF sys[b] THEN Goto(b, "launch") /\ Log(b, "extended")
               ELSE Goto(b, "readme") /\ UNCHANGED log
  /\ UNCHANGED <<sys, dir, command, name, zipped, ending, shown, clock>>

\* After a command its section is in the text, and the next command is due.
NextCommand(b) == /\ cmd' = [cmd EXCEPT ![b] = @ + 1]
                  /\ Goto(b, IF cmd[b] + 1 = Commands THEN "extended" ELSE "launch")

\* [task launch], which may raise: the handler notes the error and goes on.
Launch(b) ==
  /\ pc[b] = "launch"
  /\ \/ /\ \E size \in OutputSizes :
             child' = [child EXCEPT ![b] = [left |-> size, pipe |-> 0]]
        /\ Goto(b, "wait")
        /\ UNCHANGED cmd
     \/ "launch" \in Faults /\ NextCommand(b) /\ UNCHANGED child
  /\ UNCHANGED <<sys, temp, name, zipped, ending, applog, clock>>

\* The command prints; write(2) blocks while the pipe is full.
ChildWrite(b) ==
  /\ pc[b] = "wait"
  /\ child[b].left > 0
  /\ child[b].pipe < PipeCapacity
  /\ child' = [child EXCEPT ![b] = [left |-> @.left - 1, pipe |-> @.pipe + 1]]
  /\ UNCHANGED <<pc, sys, temp, cmd, name, zipped, ending, applog, clock>>

\* [task waitUntilExit] returns once the command has written everything and
\* exited; only then is the pipe read.
WaitAndRead(b) ==
  /\ pc[b] = "wait"
  /\ child[b].left = 0
  /\ child' = [child EXCEPT ![b] = Exited]
  /\ NextCommand(b)
  /\ UNCHANGED <<sys, temp, name, zipped, ending, applog, clock>>

WriteExtended(b) ==
  /\ pc[b] = "extended"
  /\ Write(b, Extended)
  /\ Log(b, "extendedDone")
  /\ Goto(b, "readme")
  /\ UNCHANGED <<sys, dir, command, name, zipped, ending, shown, clock>>

WriteReadme(b) ==
  /\ pc[b] = "readme"
  /\ Write(b, "README.txt")
  /\ Goto(b, "name")
  /\ UNCHANGED <<sys, dir, command, name, zipped, ending, applog, clock>>

\* The archive's name, or no Downloads folder.
NameArchive(b) ==
  /\ pc[b] = "name"
  /\ \/ /\ name' = [name EXCEPT ![b] = clock]
        /\ Goto(b, "zip")
        /\ UNCHANGED ending
     \/ "downloads" \in Faults /\ Complete(b, "noDownloads") /\ UNCHANGED name
  /\ UNCHANGED <<sys, temp, command, zipped, applog, clock>>

\* zip -r adds to an archive that exists: an entry of the same name is replaced,
\* the others stay.
Added(b, S) == {p \in archive[name[b]] : p.file \notin S} \cup [file : S, by : {b}]

ZipSucceeds(b) ==
  /\ files[b] # {}
  /\ archive' = [archive EXCEPT ![name[b]] = Added(b, files[b])]
  /\ UNCHANGED moved

\* A status other than 0: nothing done, or (18) the unreadable files left out.
ZipFails(b) ==
  /\ "zip" \in Faults \/ files[b] = {}
  /\ \E S \in SUBSET files[b] : archive' = [archive EXCEPT ![name[b]] = Added(b, S)]
  /\ UNCHANGED moved

ZipUnchecked(b) ==  \* fault: zip's status is not looked at
  /\ pc[b] = "zip"
  /\ ZipSucceeds(b) \/ ZipFails(b)
  /\ Goto(b, "verify")
  /\ UNCHANGED <<sys, temp, command, name, ending, applog, clock>>

ZipFolder(b) ==
  /\ pc[b] = "zip"
  /\ \/ ZipSucceeds(b) /\ Goto(b, "verify") /\ UNCHANGED ending
     \/ ZipFails(b) /\ Complete(b, "zipError")
  /\ UNCHANGED <<sys, temp, command, name, applog, clock>>

VerifyGoesOn(b) ==  \* fault: no return after the error is reported
  /\ pc[b] = "verify"
  /\ Goto(b, "cleanup")
  /\ IF archive[name[b]] # {} THEN UNCHANGED ending
     ELSE /\ result' = [result EXCEPT ![b] = "notFound"]
          /\ calls' = [calls EXCEPT ![b] = @ + 1]
  /\ UNCHANGED <<sys, temp, command, name, zipped, applog, clock>>

\* fileExistsAtPath:
Verify(b) ==
  /\ pc[b] = "verify"
  /\ IF archive[name[b]] # {} THEN Goto(b, "cleanup") /\ UNCHANGED ending
                              ELSE Complete(b, "notFound")
  /\ UNCHANGED <<sys, temp, command, name, zipped, applog, clock>>

\* removeItemAtURL:error:nil, which may fail, and the success.
CleanUp(b) ==
  /\ pc[b] = "cleanup"
  /\ \/ dir' = [dir EXCEPT ![b] = FALSE] /\ files' = [files EXCEPT ![b] = {}]
     \/ "remove" \in Faults /\ UNCHANGED <<dir, files>>
  /\ Complete(b, "ok")
  /\ UNCHANGED <<sys, lost, command, name, zipped, applog, clock>>

BuildStep(b) == \/ MakeDir(b) \/ WriteAppLogs(b) \/ WriteInfo(b) \/ Launch(b)
                \/ WaitAndRead(b) \/ WriteExtended(b) \/ WriteReadme(b)
                \/ NameArchive(b) \/ ZipFolder(b) \/ Verify(b) \/ CleanUp(b)

\* Environment: time passes, or is set back (by the user; the local time of the name
\* also by the end of daylight saving); an archive is moved out of Downloads.
Tick == /\ clock' \in Names /\ (clock' > clock \/ (SetBack /\ clock' < clock))
        /\ UNCHANGED <<pc, sys, temp, command, name, zipped, ending, applog>>

MoveAway(n) == /\ archive[n] # {}
               /\ archive' = [archive EXCEPT ![n] = {}]
               /\ moved' = moved \cup {b \in Builds : name[b] = n /\ pc[b] # "zip"}
               /\ UNCHANGED <<pc, sys, temp, command, name, ending, applog, clock>>

Environment == Tick \/ \E n \in Names : MoveAway(n)

BuilderNext == \/ \E b \in Builds : \/ \E s \in BOOLEAN : Request(b, s) /\ UNCHANGED log
                                    \/ BuildStep(b)
                                    \/ ChildWrite(b)
               \/ Environment

BuilderSpec == BuilderInit /\ [][BuilderNext]_bvars

\* The queue's threads and the commands keep running.
BuilderFairness == \A b \in Builds : WF_bvars(BuildStep(b)) /\ WF_bvars(ChildWrite(b))
FairBuilderSpec == BuilderSpec /\ BuilderFairness
-----------------------------------------------------------------------------
BuilderTypeOK ==
  /\ pc \in [Builds -> {"idle", "mkdir", "appLogs", "info", "launch", "wait", "extended",
                        "readme", "name", "zip", "verify", "cleanup", "done"}]
  /\ sys \in [Builds -> BOOLEAN] /\ dir \in [Builds -> BOOLEAN]
  /\ files \in [Builds -> SUBSET Files] /\ lost \in [Builds -> SUBSET Files]
  /\ moved \in SUBSET Builds
  /\ cmd \in [Builds -> 0 .. Commands]
  /\ child \in [Builds -> [left : Nat, pipe : 0 .. PipeCapacity]]
  /\ name \in [Builds -> Names \cup {NoName}]
  /\ archive \in [Names -> SUBSET Pairs]
  /\ result \in [Builds -> Failures \cup {"none", "ok"}]
  /\ calls \in [Builds -> Nat]
  /\ journal \in Seq(Entries) /\ dropped \in Nat /\ shown \in [Builds -> Extents]
  /\ clock \in Names

\* Every way out of the build calls the completion block, and none of them runs
\* into another: the block has been called once exactly when the build is over.
CompletedOnce == \A b \in Builds : calls[b] = (IF pc[b] = "done" THEN 1 ELSE 0)

Wanted(b) == Basic \cup (IF sys[b] THEN {Extended} ELSE {})

\* Success means that the archive of that name holds each file this build set out to
\* collect, this build's own - unless its write failed, which the code does not look at,
\* the user has moved the archive away since, or another build, asked for in the same
\* second, has replaced the entry: the checks of zip's status and of the file's
\* existence are never satisfied by an archive that was there before.
SuccessPacked ==
  \A b \in Builds : result[b] = "ok" /\ b \notin moved =>
    \A f \in Wanted(b) \ lost[b] : \E p \in archive[name[b]] :
      p.file = f /\ (p.by = b \/ name[p.by] = name[b])

\* A command that prints more than a pipe holds never exits, because the build
\* waits for the exit before it reads the pipe.
Stuck(b) == pc[b] = "wait" /\ child[b].left > 0 /\ child[b].pipe = PipeCapacity

\* Every build calls its completion block, unless it is stuck on a full pipe.
AnsweredOrStuck == \A b \in Builds : pc[b] = "mkdir" ~> (calls[b] > 0 \/ []Stuck(b))

\* PROJECT_OVERVIEW.md:328: extended diagnostics take 30 to 60 seconds - they end.
Answered == \A b \in Builds : pc[b] = "mkdir" ~> calls[b] > 0

=============================================================================
