--------------------- MODULE DiagnosticBundleBuilderProofs ---------------------
(***************************************************************************)
(* Proofs about DiagnosticBundleBuilder for every set of concurrent        *)
(* builds, every number of commands and every kind of failure.             *)
(***************************************************************************)
EXTENDS DiagnosticBundleBuilder, TLAPS

\* Positions inside a build that a step of the builder can lead to.
Inner == {"appLogs", "info", "launch", "wait", "extended", "readme", "name", "zip", "verify",
          "cleanup"}

\* What a step of the builder does to its position: it moves on inside the
\* build, or it ends the build with one call of the completion block.
Moves(b, l) == calls' = calls /\ pc' = [pc EXCEPT ![b] = l]
Ends(b)     == calls' = [calls EXCEPT ![b] = @ + 1] /\ pc' = [pc EXCEPT ![b] = "done"]
LEMMA BuildStepShape ==
  ASSUME NEW b \in Builds, BuildStep(b)
  PROVE  pc[b] \notin {"idle", "done"} /\ (Ends(b) \/ \E l \in Inner : Moves(b, l))
<1> USE DEF Goto, Complete, Moves, Ends, ending, Inner
<1>1. CASE MakeDir(b)
  <2>1. Ends(b) \/ Moves(b, "appLogs")
    BY <1>1 DEF MakeDir
  <2> QED
    BY <1>1, <2>1 DEF MakeDir
<1>2. CASE WriteAppLogs(b)
  BY <1>2 DEF WriteAppLogs
<1>3. CASE WriteInfo(b)
  <2>1. Moves(b, "launch") \/ Moves(b, "readme")
    BY <1>3 DEF WriteInfo
  <2> QED
    BY <1>3, <2>1 DEF WriteInfo
<1>4. CASE Launch(b) \/ WaitAndRead(b)
  <2>1. Moves(b, "launch") \/ Moves(b, "wait") \/ Moves(b, "extended")
    BY <1>4 DEF Launch, WaitAndRead, NextCommand
  <2> QED
    BY <1>4, <2>1 DEF Launch, WaitAndRead
<1>5. CASE WriteExtended(b) \/ WriteReadme(b)
  <2>1. Moves(b, "readme") \/ Moves(b, "name")
    BY <1>5 DEF WriteExtended, WriteReadme
  <2> QED
    BY <1>5, <2>1 DEF WriteExtended, WriteReadme
<1>6. CASE NameArchive(b)
  <2>1. Ends(b) \/ Moves(b, "zip")
    BY <1>6 DEF NameArchive
  <2> QED
    BY <1>6, <2>1 DEF NameArchive
<1>7. CASE ZipFolder(b)
  <2>1. Ends(b) \/ Moves(b, "verify")
    BY <1>7 DEF ZipFolder
  <2> QED
    BY <1>7, <2>1 DEF ZipFolder
<1>8. CASE Verify(b)
  <2>1. Ends(b) \/ Moves(b, "cleanup")
    BY <1>8 DEF Verify
  <2> QED
    BY <1>8, <2>1 DEF Verify
<1>9. CASE CleanUp(b)
  BY <1>9 DEF CleanUp
<1> QED
  BY <1>1, <1>2, <1>3, <1>4, <1>5, <1>6, <1>7, <1>8, <1>9 DEF BuildStep

-----------------------------------------------------------------------------
\* Called once is an invariant together with the types of the two functions.
CallsInv == /\ pc \in [Builds -> Inner \cup {"idle", "mkdir", "done"}]
            /\ calls \in [Builds -> Nat]
            /\ CompletedOnce

\* Whatever fails, and however many builds run at once, a build calls its
\* completion block once, at its end: no error path runs on into another.
THEOREM CalledOnce == BuilderSpec => []CompletedOnce
<1>1. BuilderInit => CallsInv
  BY DEF BuilderInit, CallsInv, CompletedOnce
<1>2. CallsInv /\ [BuilderNext]_bvars => CallsInv'
  <2> SUFFICES ASSUME CallsInv, [BuilderNext]_bvars PROVE CallsInv'
    OBVIOUS
  <2> USE DEF CallsInv, CompletedOnce
  <2>1. ASSUME NEW b \in Builds, NEW s \in BOOLEAN, Request(b, s) PROVE CallsInv'
    BY <2>1 DEF Request, Goto, ending
  <2>2. ASSUME NEW b \in Builds, BuildStep(b) PROVE CallsInv'
    <3>1. pc[b] \notin {"idle", "done"}
      BY <2>2, BuildStepShape
    <3>2. ASSUME NEW l \in Inner, Moves(b, l) PROVE CallsInv'
      BY <3>1, <3>2 DEF Moves, Inner
    <3>3. CASE Ends(b)
      BY <3>1, <3>3 DEF Ends
    <3> QED
      BY <2>2, <3>2, <3>3, BuildStepShape
  <2>3. ASSUME NEW b \in Builds, ChildWrite(b) PROVE CallsInv'
    BY <2>3 DEF ChildWrite, ending
  <2>4. CASE Environment \/ UNCHANGED bvars
    BY <2>4 DEF Environment, Tick, MoveAway, bvars, ending
  <2> QED
    BY <2>1, <2>2, <2>3, <2>4 DEF BuilderNext
<1>3. CallsInv => CompletedOnce
  BY DEF CallsInv
<1> QED
  BY <1>1, <1>2, <1>3, PTL DEF BuilderSpec

-----------------------------------------------------------------------------
\* What a command has still to print and what is in its pipe never exceed what
\* the pipe holds.
OutputInv == /\ child \in [Builds -> [left : Nat, pipe : Nat]]
             /\ \A b \in Builds : child[b].left + child[b].pipe <= PipeCapacity

\* If no command prints more than a pipe holds, no build ever waits for a
\* command that waits for the build: the order "wait, then read" is harmless
\* exactly for such commands.
THEOREM SmallOutputNeverSticks ==
  ASSUME \A n \in OutputSizes : n <= PipeCapacity
  PROVE  BuilderSpec => [](\A b \in Builds : ~Stuck(b))
<1> USE BuilderAssumption
<1>1. BuilderInit => OutputInv
  BY DEF BuilderInit, OutputInv, Exited
<1>2. OutputInv /\ [BuilderNext]_bvars => OutputInv'
  <2> SUFFICES ASSUME OutputInv, [BuilderNext]_bvars PROVE OutputInv'
    OBVIOUS
  <2> USE DEF OutputInv
  <2>1. ASSUME NEW b \in Builds, Launch(b) PROVE OutputInv'
    BY <2>1 DEF Launch
  <2>2. ASSUME NEW b \in Builds, WaitAndRead(b) PROVE OutputInv'
    BY <2>2 DEF WaitAndRead, Exited
  <2>3. ASSUME NEW b \in Builds, ChildWrite(b) PROVE OutputInv'
    BY <2>3 DEF ChildWrite
  <2>4. ASSUME NEW b \in Builds, BuildStep(b), ~Launch(b), ~WaitAndRead(b) PROVE child' = child
    BY <2>4 DEF BuildStep, MakeDir, WriteAppLogs, WriteInfo, WriteExtended, WriteReadme,
       NameArchive, ZipFolder, Verify, CleanUp, command
  <2>5. ASSUME \/ \E b \in Builds, s \in BOOLEAN : Request(b, s)
               \/ Environment \/ UNCHANGED bvars
        PROVE  child' = child
    BY <2>5 DEF Request, Environment, Tick, MoveAway, bvars, command
  <2> QED
    BY <2>1, <2>2, <2>3, <2>4, <2>5 DEF BuilderNext
<1>3. OutputInv => \A b \in Builds : ~Stuck(b)
  BY DEF OutputInv, Stuck
<1> QED
  BY <1>1, <1>2, <1>3, PTL DEF BuilderSpec

-----------------------------------------------------------------------------
\* How many commands have been run follows from the position ...
Counted(b) == /\ pc[b] \in {"idle", "mkdir", "appLogs", "info"} => cmd[b] = 0
              /\ pc[b] \in {"launch", "wait"} => cmd[b] < Commands

\* ... the archive has its name before it is made, and not earlier ...
Named(b) == /\ pc[b] \in {"zip", "verify", "cleanup"} => name[b] \in Names
            /\ pc[b] \notin {"zip", "verify", "cleanup", "done"} => name[b] = NoName
            /\ pc[b] # "done" => result[b] = "none"
            /\ result[b] = "ok" => name[b] \in Names

\* ... each file is there, or its write has failed, before the directory is zipped ...
Due(f, b) == CASE f = "application_logs.txt" -> pc[b] \in {"info", "launch", "wait", "extended",
                                                         "readme", "name", "zip"}
               [] f = "diagnostic_info.txt"  -> pc[b] \in {"launch", "wait", "extended",
                                                         "readme", "name", "zip"}
               [] f = Extended               -> sys[b] /\ pc[b] \in {"readme", "name", "zip"}
               [] f = "README.txt"           -> pc[b] \in {"name", "zip"}
Written(b) == \A f \in Files : Due(f, b) => f \in files[b] \cup lost[b]

\* ... and from zip's success on the archive holds them, unless it is moved away or
\* another build of the same name replaces them.
Held(b, f) == \E p \in archive[name[b]] : p.file = f /\ (p.by = b \/ name[p.by] = name[b])
Packed(b)  == pc[b] \in {"verify", "cleanup"} \/ result[b] = "ok" =>
                b \in moved \/ \A f \in Wanted(b) \ lost[b] : Held(b, f)

Own(b) == Counted(b) /\ Named(b) /\ Written(b) /\ Packed(b)
BuilderInv == BuilderTypeOK /\ \A b \in Builds : Own(b)

LEMMA BuilderInvInit == BuilderInit => BuilderInv
<1> SUFFICES ASSUME BuilderInit PROVE BuilderInv
  OBVIOUS
<1>1. journal \in Seq(Entries)
  BY DEF BuilderInit
<1>2. Nothing \in Extents
  BY DEF Nothing, Extents
<1>3. BuilderTypeOK
  BY <1>1, <1>2, BuilderAssumption DEF BuilderInit, BuilderTypeOK, Exited, NoName
<1>4. \A b \in Builds : Counted(b) /\ Named(b) /\ Packed(b)
  BY BuilderAssumption DEF BuilderInit, Counted, Named, Packed
<1>5. ASSUME NEW b \in Builds, NEW f \in Files PROVE ~Due(f, b)
  BY <1>5 DEF Due, BuilderInit, Files, Basic, Extended
<1> QED
  BY <1>3, <1>4, <1>5 DEF BuilderInv, Own, Written

\* What a build's invariant depends on, beside the archives.
Kept(b) == /\ pc'[b] = pc[b] /\ sys'[b] = sys[b] /\ cmd'[b] = cmd[b] /\ name'[b] = name[b]
           /\ files'[b] = files[b] /\ lost'[b] = lost[b] /\ result'[b] = result[b]

\* An archive whose entries are only replaced by builds of its name, each of which had
\* this name already, holds what it held.
LEMMA HeldStays ==
  ASSUME BuilderTypeOK, NEW b \in Builds, NEW f, name[b] \in Names, Held(b, f),
         name'[b] = name[b], \A c \in Builds : name'[c] = name[c] \/ name[c] = NoName,
         \A p \in archive[name[b]] :
           \E q \in archive'[name[b]] : q.file = p.file /\ (q = p \/ (q.by \in Builds /\ name[q.by] = name[b]))
  PROVE  Held(b, f)'
<1>1. PICK p \in archive[name[b]] : p.file = f /\ (p.by = b \/ name[p.by] = name[b])
  BY DEF Held
<1>2. p.by \in Builds
  BY <1>1 DEF BuilderTypeOK, Pairs
<1>3. name[b] # NoName
  BY DEF Names, NoName
<1>4. PICK q \in archive'[name[b]] : q.file = f /\ (q = p \/ (q.by \in Builds /\ name[q.by] = name[b]))
  BY <1>1
<1>5. q.by = b \/ name'[q.by] = name[b]
  BY <1>1, <1>2, <1>3, <1>4
<1> QED
  BY <1>4, <1>5 DEF Held

LEMMA OwnKept ==
  ASSUME BuilderTypeOK, NEW b \in Builds, Own(b), Kept(b), moved \subseteq moved',
         \A c \in Builds : name'[c] = name[c] \/ name[c] = NoName,
         \/ b \in moved'
         \/ pc[b] = "zip"
         \/ \A p \in archive[name[b]] :
              \E q \in archive'[name[b]] : q.file = p.file /\ (q = p \/ (q.by \in Builds /\ name[q.by] = name[b]))
         \/ name[b] \notin Names
  PROVE  Own(b)'
<1>1. Counted(b)' /\ Named(b)' /\ Written(b)'
  BY DEF Own, Kept, Counted, Named, Written, Due
<1>2. Packed(b)'
  <2> SUFFICES ASSUME pc[b] \in {"verify", "cleanup"} \/ result[b] = "ok", b \notin moved',
                      NEW f \in Wanted(b) \ lost[b]
               PROVE  Held(b, f)'
    BY DEF Packed, Kept, Wanted
  <2>1. Held(b, f) /\ name[b] \in Names /\ pc[b] # "zip"
    BY DEF Own, Packed, Named
  <2> QED
    BY <2>1, HeldStays DEF Kept
<1> QED
  BY <1>1, <1>2 DEF Own

\* Everything but the log, which others write to, stays as it is.
LEMMA QuietKeeps ==
  ASSUME BuilderInv,
         UNCHANGED <<pc, sys, temp, command, name, zipped, ending, shown, clock>>,
         journal' \in Seq(Entries), dropped' \in Nat
  PROVE  BuilderInv'
<1>1. BuilderTypeOK'
  BY DEF BuilderInv, BuilderTypeOK, temp, command, zipped, ending
<1>2. ASSUME NEW b \in Builds PROVE Own(b)'
  <2>1. Kept(b) /\ moved \subseteq moved' /\ archive' = archive /\ name' = name
    BY DEF Kept, temp, command, zipped, ending
  <2> QED
    BY <2>1, OwnKept DEF BuilderInv
<1> QED
  BY <1>1, <1>2 DEF BuilderInv

LEMMA LogKeeps ==
  ASSUME BuilderTypeOK, NEW b \in Builds \cup {Nobody}, NEW what \in Events,
         Log(b, what) \/ LogTwice(b, what)
  PROVE  journal' \in Seq(Entries) /\ dropped' \in Nat
<1>1. Entry(b, what) \in Entries
  BY DEF BuilderTypeOK, Entry, Entries
<1>2. PICK e \in Entries : e = Entry(b, what)
  BY <1>1
<1>3. journal' = Append(journal, e) \/ journal' = Append(Append(journal, e), e)
  BY <1>2 DEF Log, LogTwice
<1>4. journal' \in Seq(Entries)
  <2>1. journal \in Seq(Entries)
    BY DEF BuilderTypeOK
  <2> HIDE DEF Entries
  <2> QED
    BY <1>2, <1>3, <2>1
<1>5. dropped' \in {dropped, dropped + TrimCount}
  BY DEF Log, LogTwice, Trim
<1> QED
  BY <1>4, <1>5, BuilderAssumption DEF BuilderTypeOK

LEMMA RequestKeeps ==
  ASSUME BuilderInv, NEW b \in Builds, NEW s \in BOOLEAN, Request(b, s),
         journal' \in Seq(Entries), dropped' \in Nat
  PROVE  BuilderInv'
<1> USE DEF BuilderInv, Request, Goto, temp, command, zipped, ending
<1>1. BuilderTypeOK'
  BY DEF BuilderTypeOK
<1>2. ASSUME NEW c \in Builds, c # b PROVE Own(c)'
  <2>1. Kept(c)
    BY <1>2 DEF BuilderTypeOK, Kept
  <2> QED
    BY <2>1, OwnKept
<1>3. pc'[b] = "mkdir" /\ pc[b] = "idle"
  BY DEF BuilderTypeOK
<1>4. Counted(b)' /\ Named(b)' /\ Packed(b)'
  BY <1>3 DEF Own, Counted, Named, Packed
<1>5. ASSUME NEW f \in Files PROVE ~Due(f, b)'
  BY <1>3, <1>5 DEF Due, Files, Basic, Extended
<1> QED
  BY <1>1, <1>2, <1>4, <1>5 DEF Own, Written

LEMMA EnvironmentKeeps ==
  ASSUME BuilderInv, Environment \/ UNCHANGED bvars PROVE BuilderInv'
<1> USE DEF BuilderInv, temp, command, zipped, ending, applog, log
<1>1. ASSUME Tick \/ UNCHANGED bvars PROVE BuilderInv'
  <2>1. BuilderTypeOK'
    BY <1>1 DEF BuilderTypeOK, Tick, bvars
  <2>2. ASSUME NEW b \in Builds PROVE Own(b)'
    BY <1>1, OwnKept DEF Kept, Tick, bvars
  <2> QED
    BY <2>1, <2>2
<1>2. ASSUME NEW n \in Names, MoveAway(n) PROVE BuilderInv'
  <2>1. BuilderTypeOK'
    BY <1>2 DEF BuilderTypeOK, MoveAway
  <2>2. ASSUME NEW b \in Builds PROVE Own(b)'
    <3>1. Kept(b) /\ name' = name /\ moved \subseteq moved'
      BY <1>2 DEF Kept, MoveAway
    <3>2. CASE name[b] = n /\ pc[b] # "zip"
      <4>1. b \in moved'
        BY <1>2, <3>2 DEF MoveAway
      <4> QED
        BY <3>1, <4>1, OwnKept
    <3>3. CASE pc[b] = "zip"
      BY <3>1, <3>3, OwnKept
    <3>4. CASE name[b] # n
      <4>1. name[b] \in Names => archive'[name[b]] = archive[name[b]]
        BY <1>2, <3>4 DEF MoveAway, BuilderTypeOK
      <4> QED
        BY <3>1, <4>1, OwnKept
    <3> QED
      BY <3>2, <3>3, <3>4
  <2> QED
    BY <2>1, <2>2
<1> QED
  BY <1>1, <1>2 DEF Environment

LEMMA ChildWriteKeeps ==
  ASSUME BuilderInv, NEW b \in Builds, ChildWrite(b) PROVE BuilderInv'
<1> USE DEF BuilderInv, ChildWrite, temp, zipped, ending, applog, log
<1>1. child' \in [Builds -> [left : Nat, pipe : 0 .. PipeCapacity]]
  BY BuilderAssumption DEF BuilderTypeOK
<1>2. BuilderTypeOK'
  BY <1>1 DEF BuilderTypeOK
<1>3. ASSUME NEW c \in Builds PROVE Own(c)'
  BY OwnKept DEF Kept
<1> QED
  BY <1>2, <1>3

\* A build's step leaves the other builds alone ...
LEMMA OthersStay ==
  ASSUME BuilderTypeOK, NEW b \in Builds, BuildStep(b), NEW c \in Builds, c # b
  PROVE  Kept(c)
<1> USE DEF BuilderTypeOK, Goto, Complete, temp, command, zipped, ending, applog, Kept
<1>1. CASE MakeDir(b)
  BY <1>1 DEF MakeDir
<1>2. CASE WriteAppLogs(b)
  BY <1>2 DEF WriteAppLogs, Write
<1>3. CASE WriteInfo(b)
  BY <1>3 DEF WriteInfo, Write
<1>4. CASE Launch(b)
  BY <1>4 DEF Launch, NextCommand
<1>5. CASE WaitAndRead(b)
  BY <1>5 DEF WaitAndRead, NextCommand
<1>6. CASE WriteExtended(b)
  BY <1>6 DEF WriteExtended, Write
<1>7. CASE WriteReadme(b)
  BY <1>7 DEF WriteReadme, Write
<1>8. CASE NameArchive(b)
  BY <1>8 DEF NameArchive
<1>9. CASE ZipFolder(b)
  BY <1>9 DEF ZipFolder, ZipSucceeds, ZipFails
<1>10. CASE Verify(b)
  BY <1>10 DEF Verify
<1>11. CASE CleanUp(b)
  BY <1>11 DEF CleanUp
<1> QED
  BY <1>1, <1>2, <1>3, <1>4, <1>5, <1>6, <1>7, <1>8, <1>9, <1>10, <1>11 DEF BuildStep

\* ... and, in an archive, what it does not replace.
LEMMA ArchivesStay ==
  ASSUME BuilderInv, NEW b \in Builds, BuildStep(b)
  PROVE  /\ moved' = moved
         /\ \A c \in Builds : name'[c] = name[c] \/ name[c] = NoName
         /\ \A n \in Names : \A p \in archive[n] : \E q \in archive'[n] :
              q.file = p.file /\ (q = p \/ (q.by \in Builds /\ name[q.by] = n))
<1> USE DEF zipped
<1>t. BuilderTypeOK /\ Named(b)
  BY DEF BuilderInv, Own
<1>1. CASE ZipFolder(b)
  <2>1. moved' = moved /\ name' = name /\ name[b] \in Names
    BY <1>1, <1>t DEF ZipFolder, ZipSucceeds, ZipFails, Named
  <2>2. PICK S : archive' = [archive EXCEPT ![name[b]] = Added(b, S)]
    BY <1>1 DEF ZipFolder, ZipSucceeds, ZipFails
  <2>3. ASSUME NEW n \in Names, NEW p \in archive[n]
        PROVE  \E q \in archive'[n] : q.file = p.file /\ (q = p \/ (q.by \in Builds /\ name[q.by] = n))
    <3>1. CASE n # name[b]
      BY <2>2, <2>3, <3>1, <1>t DEF BuilderTypeOK
    <3>2. CASE n = name[b]
      <4>1. archive'[n] = {r \in archive[n] : r.file \notin S} \cup [file : S, by : {b}]
        BY <2>1, <2>2, <3>2, <1>t DEF BuilderTypeOK, Added
      <4>2. CASE p.file \in S
        <5>1. PICK q : q = [file |-> p.file, by |-> b]
          OBVIOUS
        <5>2. q \in archive'[n] /\ q.file = p.file /\ q.by = b
          BY <4>1, <4>2, <5>1
        <5> QED
          BY <5>2, <3>2
      <4> QED
        BY <4>1, <4>2
    <3> QED
      BY <3>1, <3>2
  <2> QED
    BY <2>1, <2>3
<1>2. CASE NameArchive(b)
  <2>1. name[b] = NoName
    BY <1>2, <1>t DEF NameArchive, Named
  <2>2. \A c \in Builds : name'[c] = name[c] \/ name[c] = NoName
    BY <1>2, <2>1, <1>t DEF NameArchive, BuilderTypeOK
  <2> QED
    BY <1>2, <2>2 DEF NameArchive
<1>3. CASE ~ZipFolder(b) /\ ~NameArchive(b)
  BY <1>3 DEF BuildStep, MakeDir, WriteAppLogs, WriteInfo, Launch, WaitAndRead,
     WriteExtended, WriteReadme, Verify, CleanUp
<1> QED
  BY <1>1, <1>2, <1>3

\* What is written into a directory is one of the files.
LEMMA WriteTyped ==
  ASSUME BuilderTypeOK, NEW b \in Builds, NEW f \in Files, Write(b, f)
  PROVE  /\ files' \in [Builds -> SUBSET Files] /\ lost' \in [Builds -> SUBSET Files]
         /\ files[b] \cup lost[b] \cup {f} \subseteq files'[b] \cup lost'[b]
<1>1. files \in [Builds -> SUBSET Files] /\ lost \in [Builds -> SUBSET Files]
  BY DEF BuilderTypeOK
<1>2. files[b] \cup {f} \in SUBSET Files /\ lost[b] \cup {f} \in SUBSET Files
  BY <1>1
<1> QED
  BY <1>1, <1>2 DEF Write

\* Where a build goes, and what it ends with.
Places == {"idle", "mkdir", "appLogs", "info", "launch", "wait", "extended", "readme", "name",
           "zip", "verify", "cleanup", "done"}

LEMMA GotoTyped ==
  ASSUME BuilderTypeOK, NEW b \in Builds, NEW l \in Places, Goto(b, l)
  PROVE  pc' \in [Builds -> Places] /\ pc'[b] = l
  BY DEF BuilderTypeOK, Goto, Places

LEMMA CompleteTyped ==
  ASSUME BuilderTypeOK, NEW b \in Builds, NEW how \in Failures \cup {"ok"}, Complete(b, how)
  PROVE  /\ pc' \in [Builds -> Places] /\ pc'[b] = "done"
         /\ result' \in [Builds -> Failures \cup {"none", "ok"}] /\ result'[b] = how
         /\ calls' \in [Builds -> Nat]
<1>1. pc' \in [Builds -> Places] /\ pc'[b] = "done"
  BY GotoTyped DEF Complete, Places
<1>2. /\ result \in [Builds -> Failures \cup {"none", "ok"}]
      /\ calls \in [Builds -> Nat]
  BY DEF BuilderTypeOK
<1> QED
  BY <1>1, <1>2 DEF Complete

LEMMA AddedTyped ==
  ASSUME BuilderTypeOK, NEW b \in Builds, name[b] \in Names, NEW S \in SUBSET Files
  PROVE  Added(b, S) \in SUBSET Pairs
<1>1. archive[name[b]] \in SUBSET Pairs
  BY DEF BuilderTypeOK
<1>2. [file : S, by : {b}] \subseteq Pairs
  BY DEF Pairs
<1> QED
  BY <1>1, <1>2 DEF Added

LEMMA StepTyped ==
  ASSUME BuilderInv, NEW b \in Builds, BuildStep(b)
  PROVE  BuilderTypeOK' /\ Counted(b)' /\ Named(b)'
<1> USE DEF temp, command, zipped, ending, applog, log
<1>t. BuilderTypeOK /\ Counted(b) /\ Named(b)
  BY DEF BuilderInv, Own
<1>j. journal \in Seq(Entries) /\ dropped \in Nat
  BY <1>t DEF BuilderTypeOK
<1>g. \A l \in Places : Goto(b, l) => pc' \in [Builds -> Places] /\ pc'[b] = l
  BY <1>t, GotoTyped
<1>c. \A how \in Failures \cup {"ok"} :
        Complete(b, how) => /\ pc' \in [Builds -> Places] /\ pc'[b] = "done"
                            /\ result' \in [Builds -> Failures \cup {"none", "ok"}]
                            /\ result'[b] = how
                            /\ calls' \in [Builds -> Nat]
  BY <1>t, CompleteTyped
<1>w. \A f \in Files : Write(b, f) => /\ files' \in [Builds -> SUBSET Files]
                                  /\ lost' \in [Builds -> SUBSET Files]
  BY <1>t, WriteTyped
<1>f. Basic \subseteq Files /\ Extended \in Files
  BY DEF Files
<1>1. CASE MakeDir(b)
  <2>1. CASE Log(b, "starting") /\ Goto(b, "appLogs") /\ UNCHANGED ending
    <3>1. journal' \in Seq(Entries) /\ dropped' \in Nat
      BY <2>1, <1>t, LogKeeps DEF Events
    <3>2. pc' \in [Builds -> Places] /\ pc'[b] = "appLogs"
      BY <2>1, <1>g DEF Places
    <3>3. BuilderTypeOK'
      BY <1>1, <2>1, <1>t, <3>1, <3>2 DEF MakeDir, BuilderTypeOK, Places
    <3> QED
      BY <1>1, <2>1, <1>t, <3>2, <3>3 DEF MakeDir, Counted, Named
  <2>2. CASE Complete(b, "mkdirError") /\ UNCHANGED <<dir, log>>
    <3>1. /\ pc' \in [Builds -> Places] /\ pc'[b] = "done" /\ result'[b] = "mkdirError"
          /\ result' \in [Builds -> Failures \cup {"none", "ok"}] /\ calls' \in [Builds -> Nat]
      BY <2>2, <1>c DEF Failures
    <3>2. BuilderTypeOK'
      BY <1>1, <2>2, <1>t, <3>1 DEF MakeDir, BuilderTypeOK, Places
    <3> QED
      BY <1>1, <1>t, <3>1, <3>2 DEF MakeDir, Counted, Named
  <2> QED
    BY <1>1, <2>1, <2>2 DEF MakeDir
<1>2. CASE WriteAppLogs(b)
  <2>1. files' \in [Builds -> SUBSET Files] /\ lost' \in [Builds -> SUBSET Files]
    BY <1>2, <1>w, <1>f DEF WriteAppLogs, Basic
  <2>2. pc' \in [Builds -> Places] /\ pc'[b] = "info" /\ pc[b] = "appLogs"
    BY <1>2, <1>g DEF WriteAppLogs, Places
  <2>4. PICK x : x = [from |-> dropped + 1, upTo |-> Len(journal), since |-> clock - Window]
    OBVIOUS
  <2>5. x \in Extents
    BY <2>4, <1>t, BuilderAssumption DEF BuilderTypeOK, Extents, Names
  <2>3. BuilderTypeOK'
    BY <1>2, <1>t, <2>1, <2>2, <2>4, <2>5 DEF WriteAppLogs, BuilderTypeOK, Places
  <2> QED
    BY <1>2, <1>t, <2>2, <2>3 DEF WriteAppLogs, Counted, Named
<1>3. CASE WriteInfo(b)
  <2>1. files' \in [Builds -> SUBSET Files] /\ lost' \in [Builds -> SUBSET Files]
    BY <1>3, <1>w, <1>f DEF WriteInfo, Basic
  <2>2. journal' \in Seq(Entries) /\ dropped' \in Nat
    <3>1. UNCHANGED log \/ Log(b, "extended")
      BY <1>3 DEF WriteInfo
    <3> QED
      BY <3>1, <1>t, <1>j, LogKeeps DEF Events
  <2>3. pc' \in [Builds -> Places] /\ pc'[b] \in {"launch", "readme"} /\ pc[b] = "info"
    BY <1>3, <1>g DEF WriteInfo, Places
  <2>4. BuilderTypeOK'
    BY <1>3, <1>t, <2>1, <2>2, <2>3 DEF WriteInfo, BuilderTypeOK, Places
  <2> QED
    BY <1>3, <1>t, <2>3, BuilderAssumption, <2>4 DEF WriteInfo, Counted, Named
<1>4. CASE Launch(b) \/ WaitAndRead(b)
  <2>1. child' \in [Builds -> [left : Nat, pipe : 0 .. PipeCapacity]]
    <3>1. child \in [Builds -> [left : Nat, pipe : 0 .. PipeCapacity]]
      BY <1>t DEF BuilderTypeOK
    <3>2. \A n \in OutputSizes : [left |-> n, pipe |-> 0] \in [left : Nat, pipe : 0 .. PipeCapacity]
      BY BuilderAssumption
    <3>3. Exited \in [left : Nat, pipe : 0 .. PipeCapacity]
      BY BuilderAssumption DEF Exited
    <3> QED
      BY <1>4, <3>1, <3>2, <3>3 DEF Launch, WaitAndRead
  <2>2. pc[b] \in {"launch", "wait"} /\ cmd[b] \in 0 .. Commands /\ cmd[b] < Commands
    BY <1>4, <1>t DEF Launch, WaitAndRead, BuilderTypeOK, Counted
  <2>3. CASE NextCommand(b)
    <3>1. /\ pc' \in [Builds -> Places]
          /\ pc'[b] = IF cmd[b] + 1 = Commands THEN "extended" ELSE "launch"
      BY <2>3, <1>g DEF NextCommand, Places
    <3>2. cmd' \in [Builds -> 0 .. Commands] /\ cmd'[b] = cmd[b] + 1
      BY <1>t, <2>2, <2>3, BuilderAssumption DEF NextCommand, BuilderTypeOK
    <3>3. BuilderTypeOK'
      BY <1>4, <1>t, <2>1, <3>1, <3>2 DEF Launch, WaitAndRead, BuilderTypeOK, Places
    <3> QED
      BY <1>4, <1>t, <2>2, <3>1, <3>2, <3>3, BuilderAssumption
         DEF Launch, WaitAndRead, Counted, Named
  <2>4. CASE Goto(b, "wait") /\ UNCHANGED cmd
    <3>1. pc' \in [Builds -> Places] /\ pc'[b] = "wait"
      BY <2>4, <1>g DEF Places
    <3>2. BuilderTypeOK'
      BY <1>4, <1>t, <2>1, <2>4, <3>1 DEF Launch, WaitAndRead, BuilderTypeOK, Places
    <3> QED
      BY <1>4, <1>t, <2>2, <2>4, <3>1, <3>2 DEF Launch, WaitAndRead, Counted, Named
  <2> QED
    BY <1>4, <2>3, <2>4 DEF Launch, WaitAndRead
<1>5. CASE WriteExtended(b) \/ WriteReadme(b)
  <2>1. files' \in [Builds -> SUBSET Files] /\ lost' \in [Builds -> SUBSET Files]
    BY <1>5, <1>w, <1>f DEF WriteExtended, WriteReadme, Basic
  <2>2. journal' \in Seq(Entries) /\ dropped' \in Nat
    <3>1. UNCHANGED log \/ Log(b, "extendedDone")
      BY <1>5 DEF WriteExtended, WriteReadme
    <3> QED
      BY <3>1, <1>t, <1>j, LogKeeps DEF Events
  <2>3. pc' \in [Builds -> Places] /\ pc'[b] \in {"name", "readme"}
    BY <1>5, <1>g DEF WriteExtended, WriteReadme, Places
  <2>4. pc[b] \in {"extended", "readme"}
    BY <1>5 DEF WriteExtended, WriteReadme
  <2>5. BuilderTypeOK'
    BY <1>5, <1>t, <2>1, <2>2, <2>3
       DEF WriteExtended, WriteReadme, BuilderTypeOK, Places
  <2> QED
    BY <1>5, <1>t, <2>3, <2>4, <2>5 DEF WriteExtended, WriteReadme, Counted, Named
<1>6. CASE NameArchive(b)
  <2>1. CASE name' = [name EXCEPT ![b] = clock] /\ Goto(b, "zip") /\ UNCHANGED ending
    <3>1. pc' \in [Builds -> Places] /\ pc'[b] = "zip"
      BY <2>1, <1>g DEF Places
    <3>2. name' \in [Builds -> Names \cup {NoName}] /\ name'[b] \in Names
      BY <1>t, <2>1 DEF BuilderTypeOK
    <3>3. BuilderTypeOK'
      BY <1>6, <1>t, <2>1, <3>1, <3>2 DEF NameArchive, BuilderTypeOK, Places
    <3> QED
      BY <1>6, <1>t, <2>1, <3>1, <3>2, <3>3 DEF NameArchive, Counted, Named
  <2>2. CASE Complete(b, "noDownloads") /\ UNCHANGED name
    <3>1. /\ pc' \in [Builds -> Places] /\ pc'[b] = "done" /\ result'[b] = "noDownloads"
          /\ result' \in [Builds -> Failures \cup {"none", "ok"}] /\ calls' \in [Builds -> Nat]
      BY <2>2, <1>c DEF Failures
    <3>2. BuilderTypeOK'
      BY <1>6, <2>2, <1>t, <3>1 DEF NameArchive, BuilderTypeOK, Places
    <3> QED
      BY <1>6, <1>t, <3>1, <3>2 DEF NameArchive, Counted, Named
  <2> QED
    BY <1>6, <2>1, <2>2 DEF NameArchive
<1>7. CASE ZipFolder(b)
  <2>1. name[b] \in Names /\ files[b] \in SUBSET Files /\ pc[b] = "zip"
    BY <1>7, <1>t DEF ZipFolder, BuilderTypeOK, Named
  <2>2. archive' \in [Names -> SUBSET Pairs]
    <3>1. PICK S \in SUBSET files[b] : archive' = [archive EXCEPT ![name[b]] = Added(b, S)]
      BY <1>7 DEF ZipFolder, ZipSucceeds, ZipFails
    <3>2. PICK A : A = Added(b, S)
      OBVIOUS
    <3>3. A \in SUBSET Pairs
      BY <1>t, <2>1, <3>2, AddedTyped
    <3> QED
      BY <1>t, <3>1, <3>2, <3>3 DEF BuilderTypeOK
  <2>3. CASE ZipSucceeds(b) /\ Goto(b, "verify") /\ UNCHANGED ending
    <3>1. pc' \in [Builds -> Places] /\ pc'[b] = "verify"
      BY <2>3, <1>g DEF Places
    <3>2. moved' = moved
      BY <2>3 DEF ZipSucceeds
    <3>3. BuilderTypeOK'
      BY <1>7, <1>t, <2>2, <2>3, <3>1, <3>2 DEF ZipFolder, BuilderTypeOK, Places
    <3> QED
      BY <1>7, <1>t, <2>1, <2>3, <3>1, <3>2, <3>3 DEF ZipFolder, Counted, Named
  <2>4. CASE ZipFails(b) /\ Complete(b, "zipError")
    <3>1. /\ pc' \in [Builds -> Places] /\ pc'[b] = "done" /\ result'[b] = "zipError"
          /\ result' \in [Builds -> Failures \cup {"none", "ok"}] /\ calls' \in [Builds -> Nat]
      BY <2>4, <1>c DEF Failures
    <3>2. BuilderTypeOK'
      BY <1>7, <1>t, <2>2, <2>4, <3>1 DEF ZipFolder, ZipFails, BuilderTypeOK, Places
    <3> QED
      BY <1>7, <1>t, <2>4, <3>1, <3>2 DEF ZipFolder, ZipFails, Counted, Named
  <2> QED
    BY <1>7, <2>3, <2>4 DEF ZipFolder
<1>8. CASE Verify(b)
  <2>1. CASE Goto(b, "cleanup") /\ UNCHANGED ending
    <3>1. pc' \in [Builds -> Places] /\ pc'[b] = "cleanup" /\ pc[b] = "verify"
      BY <1>8, <2>1, <1>g DEF Verify, Places
    <3>2. BuilderTypeOK'
      BY <1>8, <1>t, <2>1, <3>1 DEF Verify, BuilderTypeOK, Places
    <3> QED
      BY <1>8, <1>t, <2>1, <3>1, <3>2 DEF Verify, Counted, Named
  <2>2. CASE Complete(b, "notFound")
    <3>1. /\ pc' \in [Builds -> Places] /\ pc'[b] = "done" /\ result'[b] = "notFound"
          /\ result' \in [Builds -> Failures \cup {"none", "ok"}] /\ calls' \in [Builds -> Nat]
      BY <2>2, <1>c DEF Failures
    <3>2. BuilderTypeOK'
      BY <1>8, <1>t, <3>1 DEF Verify, BuilderTypeOK, Places
    <3> QED
      BY <1>8, <1>t, <3>1, <3>2 DEF Verify, Counted, Named
  <2> QED
    BY <1>8, <2>1, <2>2 DEF Verify
<1>9. CASE CleanUp(b)
  <2>1. /\ pc' \in [Builds -> Places] /\ pc'[b] = "done" /\ result'[b] = "ok"
        /\ result' \in [Builds -> Failures \cup {"none", "ok"}] /\ calls' \in [Builds -> Nat]
    BY <1>9, <1>c DEF CleanUp
  <2>2. /\ dir' \in [Builds -> BOOLEAN] /\ files' \in [Builds -> SUBSET Files]
        /\ dir'[b] => files'[b] = files[b]
    BY <1>9, <1>t DEF CleanUp, BuilderTypeOK
  <2>3. BuilderTypeOK'
    BY <1>9, <1>t, <2>1, <2>2 DEF CleanUp, BuilderTypeOK, Places
  <2> QED
    BY <1>9, <1>t, <2>1, <2>3 DEF CleanUp, Counted, Named
<1> QED
  BY <1>1, <1>2, <1>3, <1>4, <1>5, <1>6, <1>7, <1>8, <1>9 DEF BuildStep

\* Each file is written, or its write fails, when its turn comes.
LEMMA StepWrites ==
  ASSUME BuilderInv, NEW b \in Builds, BuildStep(b) PROVE Written(b)'
<1> USE DEF temp, command, zipped, ending, applog, log
<1>t. BuilderTypeOK /\ Written(b)
  BY DEF BuilderInv, Own
<1>p. \A l : Goto(b, l) => pc'[b] = l
  BY <1>t DEF BuilderTypeOK, Goto
<1>w. \A f \in Files : Write(b, f) =>
        files[b] \cup lost[b] \cup {f} \subseteq files'[b] \cup lost'[b]
  BY <1>t, WriteTyped
<1>f. Files = {"application_logs.txt", "diagnostic_info.txt", "README.txt", Extended}
      /\ Extended = "extended_diagnostics.txt"
  BY DEF Files, Basic, Extended
<1>1. ASSUME NEW f \in Files, Write(b, f), sys' = sys,
             \A g \in Files : Due(g, b)' => g = f \/ Due(g, b)
      PROVE  Written(b)'
  BY <1>1, <1>t, <1>w DEF Written
<1>2. ASSUME UNCHANGED <<files, lost>>, \A g \in Files : Due(g, b)' => Due(g, b)
      PROVE  Written(b)'
  BY <1>2, <1>t DEF Written
<1>d. ASSUME pc'[b] = "done" PROVE Written(b)'
  BY <1>d, <1>f DEF Written, Due
<1>3. CASE MakeDir(b)
  <2>1. pc'[b] \in {"appLogs", "done"}
    BY <1>3, <1>p DEF MakeDir, Complete
  <2> QED
    BY <2>1, <1>f DEF Written, Due
<1>4. CASE WriteAppLogs(b)
  <2>1. pc'[b] = "info" /\ sys' = sys /\ Write(b, "application_logs.txt")
    BY <1>4, <1>p DEF WriteAppLogs
  <2>2. \A g \in Files : Due(g, b)' => g = "application_logs.txt" \/ Due(g, b)
    BY <2>1, <1>f DEF Due
  <2> QED
    BY <1>1, <1>f, <2>1, <2>2
<1>5. CASE WriteInfo(b)
  <2>1. /\ pc[b] = "info" /\ sys' = sys /\ Write(b, "diagnostic_info.txt")
        /\ pc'[b] = IF sys[b] THEN "launch" ELSE "readme"
    BY <1>5, <1>p DEF WriteInfo
  <2>2. \A g \in Files : Due(g, b)' => g = "diagnostic_info.txt" \/ Due(g, b)
    BY <2>1, <1>f DEF Due
  <2> QED
    BY <1>1, <1>f, <2>1, <2>2
<1>6. CASE Launch(b) \/ WaitAndRead(b)
  <2>1. /\ pc[b] \in {"launch", "wait"} /\ sys' = sys /\ UNCHANGED <<files, lost>>
        /\ pc'[b] \in {"launch", "wait", "extended"}
    BY <1>6, <1>p DEF Launch, WaitAndRead, NextCommand
  <2>2. \A g \in Files : Due(g, b)' => Due(g, b)
    BY <2>1, <1>f DEF Due
  <2> QED
    BY <1>2, <2>1, <2>2
<1>7. CASE WriteExtended(b)
  <2>1. /\ pc[b] = "extended" /\ sys' = sys /\ Write(b, Extended) /\ pc'[b] = "readme"
    BY <1>7, <1>p DEF WriteExtended
  <2>2. \A g \in Files : Due(g, b)' => g = Extended \/ Due(g, b)
    BY <2>1, <1>f DEF Due
  <2> QED
    BY <1>1, <1>f, <2>1, <2>2
<1>8. CASE WriteReadme(b)
  <2>1. /\ pc[b] = "readme" /\ sys' = sys /\ Write(b, "README.txt") /\ pc'[b] = "name"
    BY <1>8, <1>p DEF WriteReadme
  <2>2. \A g \in Files : Due(g, b)' => g = "README.txt" \/ Due(g, b)
    BY <2>1, <1>f DEF Due
  <2> QED
    BY <1>1, <1>f, <2>1, <2>2
<1>9. CASE NameArchive(b)
  <2>1. /\ pc[b] = "name" /\ sys' = sys /\ UNCHANGED <<files, lost>>
        /\ pc'[b] \in {"zip", "done"}
    BY <1>9, <1>p DEF NameArchive, Complete
  <2>2. \A g \in Files : Due(g, b)' => Due(g, b)
    BY <2>1, <1>f DEF Due
  <2> QED
    BY <1>2, <2>1, <2>2
<1>10. CASE ZipFolder(b) \/ Verify(b) \/ CleanUp(b)
  <2>1. pc'[b] \in {"verify", "cleanup", "done"}
    BY <1>10, <1>p DEF ZipFolder, Verify, CleanUp, Complete
  <2> QED
    BY <2>1, <1>f DEF Written, Due
<1> QED
  BY <1>3, <1>4, <1>5, <1>6, <1>7, <1>8, <1>9, <1>10 DEF BuildStep

\* Zip's success puts every written file into the archive; the way from there to the
\* success that is reported leaves them there.
LEMMA StepPacks ==
  ASSUME BuilderInv, NEW b \in Builds, BuildStep(b) PROVE Packed(b)'
<1> USE DEF temp, command, zipped, ending, applog, log
<1>t. BuilderTypeOK /\ Named(b) /\ Written(b) /\ Packed(b)
  BY DEF BuilderInv, Own
<1>p. \A l : Goto(b, l) => pc'[b] = l
  BY <1>t DEF BuilderTypeOK, Goto
<1>r. \A how : Complete(b, how) => pc'[b] = "done" /\ result'[b] = how
  BY <1>t, <1>p DEF BuilderTypeOK, Complete
<1>1. CASE MakeDir(b) \/ WriteAppLogs(b) \/ WriteInfo(b) \/ Launch(b) \/ WaitAndRead(b)
           \/ WriteExtended(b) \/ WriteReadme(b) \/ NameArchive(b)
  <2>1. pc[b] # "done" /\ result[b] = "none"
    BY <1>1, <1>t DEF Named, MakeDir, WriteAppLogs, WriteInfo, Launch, WaitAndRead,
       WriteExtended, WriteReadme, NameArchive
  <2>2. pc'[b] \notin {"verify", "cleanup"} /\ result'[b] # "ok"
    BY <1>1, <2>1, <1>p, <1>r DEF MakeDir, WriteAppLogs, WriteInfo, Launch, WaitAndRead,
       WriteExtended, WriteReadme, NameArchive, NextCommand
  <2> QED
    BY <2>2 DEF Packed
<1>2. CASE ZipFolder(b)
  <2>1. name[b] \in Names /\ pc[b] = "zip" /\ name' = name /\ lost' = lost /\ sys' = sys
        /\ result[b] = "none"
    BY <1>2, <1>t DEF ZipFolder, Named
  <2>2. CASE ZipFails(b) /\ Complete(b, "zipError")
    BY <2>2, <1>r DEF Packed
  <2>3. CASE ZipSucceeds(b) /\ Goto(b, "verify") /\ UNCHANGED ending
    <3>1. archive'[name[b]] = Added(b, files[b])
      BY <1>t, <2>1, <2>3 DEF ZipSucceeds, BuilderTypeOK
    <3>2. Wanted(b) \subseteq Files /\ \A f \in Wanted(b) : Due(f, b)
      BY <2>1 DEF Wanted, Due, Files, Basic, Extended
    <3>3. ASSUME NEW f \in Wanted(b) \ lost[b] PROVE Held(b, f)'
      <4>1. f \in files[b]
        BY <3>2, <3>3, <1>t DEF Written
      <4>2. PICK q : q = [file |-> f, by |-> b]
        OBVIOUS
      <4>3. q \in archive'[name[b]] /\ q.file = f /\ q.by = b
        BY <3>1, <4>1, <4>2 DEF Added
      <4> QED
        BY <4>3, <2>1 DEF Held
    <3> QED
      BY <3>3, <2>1 DEF Packed, Wanted
  <2> QED
    BY <1>2, <2>2, <2>3 DEF ZipFolder
<1>3. CASE Verify(b) \/ CleanUp(b)
  <2>1. /\ UNCHANGED <<name, archive, moved, sys, lost>>
        /\ pc[b] \in {"verify", "cleanup"}
    BY <1>3 DEF Verify, CleanUp
  <2> QED
    BY <2>1, <1>t DEF Packed, Held, Wanted
<1> QED
  BY <1>1, <1>2, <1>3 DEF BuildStep

LEMMA BuildStepKeeps ==
  ASSUME BuilderInv, NEW b \in Builds, BuildStep(b) PROVE BuilderInv'
<1>1. BuilderTypeOK' /\ Own(b)'
  BY StepTyped, StepWrites, StepPacks DEF Own
<1>2. ASSUME NEW c \in Builds, c # b PROVE Own(c)'
  <2>1. Kept(c)
    BY <1>2, OthersStay DEF BuilderInv
  <2>2. /\ moved' = moved
        /\ \A d \in Builds : name'[d] = name[d] \/ name[d] = NoName
        /\ name[c] \in Names => \A p \in archive[name[c]] : \E q \in archive'[name[c]] :
             q.file = p.file /\ (q = p \/ (q.by \in Builds /\ name[q.by] = name[c]))
    BY ArchivesStay
  <2> QED
    BY <2>1, <2>2, OwnKept DEF BuilderInv
<1> QED
  BY <1>1, <1>2 DEF BuilderInv

LEMMA BuilderInvNext == BuilderInv /\ [BuilderNext]_bvars => BuilderInv'
<1> SUFFICES ASSUME BuilderInv, [BuilderNext]_bvars PROVE BuilderInv'
  OBVIOUS
<1>1. ASSUME NEW b \in Builds, NEW s \in BOOLEAN, Request(b, s), UNCHANGED log
      PROVE  BuilderInv'
  BY <1>1, RequestKeeps DEF BuilderInv, BuilderTypeOK, log
<1> QED
  BY <1>1, BuildStepKeeps, ChildWriteKeeps, EnvironmentKeeps DEF BuilderNext

LEMMA InvPacks == BuilderInv => SuccessPacked
  BY DEF BuilderInv, Own, Packed, Held, SuccessPacked

\* Every variable of the builder keeps to its values: no build runs more commands than
\* there are, and no pipe holds more than its capacity.
THEOREM BuilderTyped == BuilderSpec => []BuilderTypeOK
<1>1. BuilderInv => BuilderTypeOK
  BY DEF BuilderInv
<1> QED
  BY <1>1, BuilderInvInit, BuilderInvNext, PTL DEF BuilderSpec

\* The archive of a build that reports success holds the files it set out to collect -
\* unless a write failed, the user has moved it away or a build of the same second has
\* replaced an entry: for every number of builds that share a name.
THEOREM SuccessIsPacked == BuilderSpec => []SuccessPacked
  BY InvPacks, BuilderInvInit, BuilderInvNext, PTL DEF BuilderSpec
=============================================================================
