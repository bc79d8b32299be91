------------------------- MODULE CrashHandlingProofs -------------------------
(* Proofs about CrashHandling for every set of application threads, every      *)
(* number of sections and every number of crashes inside the handlers: what    *)
(* the secondary exception thread is for, what the report says of the crash of *)
(* one thread, that what is on disk of it is never lost again, and that of any *)
(* number of crashes there are at most two reports.                            *)
EXTENDS CrashHandling, FiniteSetTheorems, TLAPS

\* As much of the types as the proof needs.
Typed == /\ pc \in [Threads -> Labels]
         /\ frame \in [Threads -> Frames \cup {"none"}]
         /\ subject \in [Threads -> Threads \cup {Nobody}]

\* While the exception ports are ours the secondary thread is parked and the
\* primary one has not got beyond giving them back, so that it does nothing yet
\* that may crash.
Early  == {"suspend", "test", "mark", "switch"}
Arming == ports => /\ pc[Secondary] = "parked"
                   /\ pc[Primary] \in Early \cup {"listen", "reply", "done"}
                   /\ pc[Primary] \in Early => frame[Primary] = "mach"

\* Only threads of the application are ever announced at the port.
OfTheApp == port \in Seq(App)

Given == Typed /\ Arming /\ OfTheApp /\ SecondaryForTheOthers

\* A step of thread t that leaves the ports and what is announced there alone.
Shift(t, l, f) == /\ UNCHANGED <<subject, ports, port>>
                  /\ pc' = [pc EXCEPT ![t] = l] /\ frame' = [frame EXCEPT ![t] = f]

LEMMA Names2 == Primary \in Threads /\ Secondary \in Threads /\ Primary # Secondary
                /\ \A t \in App : t \in Threads /\ t # Primary /\ t # Secondary
  BY CrashAssumption DEF CrashAssumption, Threads, Reserved, Primary, Secondary

LEMMA InitGiven == Init => Given
<1> SUFFICES ASSUME Init PROVE Given
  OBVIOUS
<1>1. Typed
  BY DEF Init, Typed, Labels
<1>2. Arming
  <2>1. Primary \notin App /\ Secondary \notin App
    BY Names2
  <2>2. pc[Primary] = "listen" /\ pc[Secondary] = "parked"
    BY <2>1, Names2 DEF Init
  <2> QED
    BY <2>2 DEF Arming, Early
<1>3. OfTheApp /\ SecondaryForTheOthers
  BY Names2 DEF Init, OfTheApp, SecondaryForTheOthers
<1> QED
  BY <1>1, <1>2, <1>3 DEF Given

\* Such a step keeps the invariant if its thread is not one of the two of the Mach
\* monitor while the ports are ours, or stays with the primary one in the early part.
LEMMA ShiftKeeps ==
  ASSUME Given, NEW t \in Threads, NEW l \in Labels, NEW f \in Frames \cup {"none"},
         Shift(t, l, f),
         ports => \/ t \in App
                  \/ t = Primary /\ l \in Early /\ f = "mach"
                  \/ t = Primary /\ l \in {"reply", "done"}
  PROVE  Given'
<1>1. Typed'
  BY DEF Given, Typed, Shift
<1>2. Arming'
  BY Names2 DEF Given, Typed, Arming, Shift, Early
<1>3. OfTheApp' /\ SecondaryForTheOthers'
  BY DEF Given, OfTheApp, SecondaryForTheOthers, Shift
<1> QED
  BY <1>1, <1>2, <1>3 DEF Given

LEMMA IdleKeeps == ASSUME Given, UNCHANGED <<pc, frame, subject, ports, port>> PROVE Given'
  BY DEF Given, Typed, Arming, OfTheApp, SecondaryForTheOthers

\* Beyond the early part the ports have been given back, or the thread is not one of
\* the two.
LEMMA LateIsApp ==
  ASSUME Given, NEW t \in Threads, ports,
         pc[t] \notin Early \cup {"parked", "listen", "reply", "done"}
  PROVE  t \in App
  BY DEF Given, Arming, Threads, Reserved

LEMMA GotoShift ==
  ASSUME Given, NEW t \in Threads, NEW l, Goto(t, l), UNCHANGED <<frame, subject, ports, port>>
  PROVE  Shift(t, l, frame[t]) /\ frame[t] \in Frames \cup {"none"}
  BY DEF Given, Typed, Goto, Shift

\* A thread beyond the early part goes on.
LEMMA LateKeeps ==
  ASSUME Given, NEW t \in Threads, NEW l \in Labels, Goto(t, l),
         UNCHANGED <<frame, subject, ports, port>>,
         pc[t] \notin Early \cup {"parked", "listen", "reply", "done"}
  PROVE  Given'
  BY LateIsApp, GotoShift, ShiftKeeps

\* ... or receives a signal.
LEMMA SignalKeeps ==
  ASSUME Given, NEW t \in Threads, NEW f \in Frames \cup {"none"}, Signal(t, f),
         UNCHANGED <<ports, port>>, ports => t \in App
  PROVE  Given'
<1>1. CASE Die
  BY <1>1, IdleKeeps DEF Die, thread
<1>2. CASE Enter(t, f)
  <2>1. Shift(t, "suspend", f)
    BY <1>2 DEF Enter, Goto, Shift
  <2> QED
    BY <2>1, ShiftKeeps DEF Labels
<1> QED
  BY <1>1, <1>2 DEF Signal

\* The stretches from the context to the end, and what follows it.
LEMMA LateStep ==
  ASSUME Given, NEW t \in Threads,
         \/ Malloc(t) \/ FillContext(t) \/ Handle(t) \/ Finish(t) \/ Resume(t)
         \/ Reporting(t)
  PROVE  Given'
<1> DEFINE Late == pc[t] \notin Early \cup {"parked", "listen", "reply", "done"}
           Goes == \E l \in Labels : Goto(t, l)
           Rest == UNCHANGED <<frame, subject, ports, port>>
<1> USE DEF At, Early, Labels, shared
<1>1. CASE Malloc(t) \/ FillContext(t) \/ Handle(t)
  <2>1. Late /\ Goes /\ Rest
    BY <1>1 DEF Malloc, FillContext, Handle
  <2> QED
    BY <2>1, LateKeeps
<1>2. CASE Finish(t)
  <2>1. Late /\ Goes /\ Rest
    BY <1>2 DEF Finish
  <2> QED
    BY <2>1, LateKeeps
<1>3. CASE Resume(t)
  <2>1. Late /\ Rest /\ (Goes \/ UNCHANGED pc)
    BY <1>3 DEF Resume, Leave
  <2> QED
    BY <2>1, LateKeeps, IdleKeeps
<1>4. CASE Reporting(t)
  <2>1. CASE OnCrash(t) \/ NextPath(t) \/ Rename(t) \/ Embed(t) \/ Unlink(t) \/ WriteRest(t)
             \/ SaveTransaction(t)
    <3>1. Late /\ Goes /\ Rest
      BY <2>1 DEF OnCrash, NextPath, Rename, Embed, Unlink, WriteRest, SaveTransaction
    <3> QED
      BY <3>1, LateKeeps
  <2>2. CASE OpenReport(t) \/ Reopen(t) \/ WriteSection(t)
    <3>1. Late /\ Rest /\ (Goes \/ UNCHANGED pc)
      BY <2>2 DEF OpenReport, Reopen, Create, WriteSection
    <3> QED
      BY <3>1, LateKeeps, IdleKeeps
  <2> QED
    BY <1>4, <2>1, <2>2 DEF Reporting
<1> QED
  BY <1>1, <1>2, <1>3, <1>4

\* While the ports are ours a thread in the early part is one of the application's, or
\* the primary one with the message it has received.
LEMMA EarlyIsMach ==
  ASSUME Given, NEW t \in Threads, ports, pc[t] \in Early
  PROVE  t \in App \/ (t = Primary /\ frame[t] = "mach")
  BY DEF Given, Arming, Threads, Reserved, Early

LEMMA EarlyStep ==
  ASSUME Given, NEW t \in Threads, Suspend(t) \/ Test(t) \/ Mark(t)
  PROVE  Given'
<1> USE DEF At, Early, Labels
<1>1. CASE Suspend(t)
  <2>1. pc[t] \in Early /\ UNCHANGED <<frame, subject, ports, port>>
    BY <1>1 DEF Suspend
  <2>2. CASE UNCHANGED pc
    BY <2>1, <2>2, IdleKeeps
  <2>3. CASE frame[t] = "skip" /\ Goto(t, "resume")
    BY <2>1, <2>3, EarlyIsMach, GotoShift, ShiftKeeps
  <2>4. CASE Goto(t, "test")
    BY <2>1, <2>4, EarlyIsMach, GotoShift, ShiftKeeps
  <2> QED
    BY <1>1, <2>2, <2>3, <2>4 DEF Suspend
<1>2. CASE Test(t)
  <2>1. pc[t] \in Early /\ Goto(t, "mark") /\ UNCHANGED <<frame, subject, ports, port>>
    BY <1>2 DEF Test
  <2> QED
    BY <2>1, EarlyIsMach, GotoShift, ShiftKeeps
<1>3. CASE Mark(t)
  <2>1. pc[t] \in Early /\ UNCHANGED <<frame, subject, ports, port>>
    BY <1>3 DEF Mark
  <2>2. CASE frame[t] = "mach"
    <3>1. Goto(t, "switch")
      BY <1>3, <2>2 DEF Mark
    <3> QED
      BY <2>1, <3>1, EarlyIsMach, GotoShift, ShiftKeeps
  <2>3. CASE frame[t] # "mach"
    <3>1. \E l \in {"malloc", "context"} : Goto(t, l)
      BY <1>3, <2>3 DEF Mark
    <3> QED
      BY <2>1, <2>3, <3>1, EarlyIsMach, GotoShift, ShiftKeeps
  <2> QED
    BY <2>2, <2>3
<1> QED
  BY <1>1, <1>2, <1>3

\* The primary thread gives the ports back before it goes on to what may crash.
LEMMA SwitchStep == ASSUME Given, NEW t \in Threads, Switch(t) PROVE Given'
<1>1. pc' \in [Threads -> Labels]
  BY Names2 DEF Given, Typed, Switch, Goto, Labels
<1>2. ports' => t \in App /\ Goto(t, "context") /\ ports
  <2> SUFFICES ASSUME ports' PROVE t \in App /\ Goto(t, "context") /\ ports
    OBVIOUS
  <2>1. t # Primary /\ Goto(t, "context") /\ ports
    BY DEF Switch
  <2> QED
    BY <2>1, EarlyIsMach DEF Switch, At, Early
<1>3. Arming'
  BY <1>2, Names2 DEF Given, Typed, Arming, Switch, Goto
<1> QED
  BY <1>1, <1>3 DEF Given, Typed, OfTheApp, SecondaryForTheOthers, Switch

LEMMA ReceiveStep == ASSUME Given, NEW t \in Threads, Receive(t) PROVE Given'
<1>1. Head(port) \in App /\ Tail(port) \in Seq(App)
  BY DEF Given, OfTheApp, Receive
<1>2. OfTheApp' /\ SecondaryForTheOthers'
  BY <1>1, Names2 DEF Given, Typed, OfTheApp, SecondaryForTheOthers, Receive
<1>3. Typed'
  BY <1>1, Names2 DEF Given, Typed, Receive, Goto, Labels, Frames
<1>4. Arming'
  <2> SUFFICES ASSUME ports' PROVE Arming'
    BY DEF Arming
  <2>1. ports /\ pc[t] = "listen"
    BY DEF Receive, At
  <2>2. t # Secondary
    BY <2>1 DEF Given, Arming
  <2>3. \/ pc' = [pc EXCEPT ![t] = "suspend"] /\ frame' = [frame EXCEPT ![t] = "mach"]
        \/ pc' = [pc EXCEPT ![t] = "reply"] /\ frame' = frame
    <3>1. CASE "mach" \in monitors
      BY <3>1 DEF Receive, Goto
    <3>2. CASE "mach" \notin monitors
      BY <3>2 DEF Receive, Goto
    <3> QED
      BY <3>1, <3>2
  <2> QED
    BY <2>1, <2>2, <2>3, Names2 DEF Given, Typed, Arming, Early
<1> QED
  BY <1>2, <1>3, <1>4 DEF Given

\* A fault becomes a message only while the ports are ours, and then it is one of a
\* thread of the application.
LEMMA FaultKeeps ==
  ASSUME Given, NEW t \in Threads, Fault(t), UNCHANGED ports, ports => t \in App
  PROVE  Given'
<1>1. CASE ports
  <2>1. pc' = [pc EXCEPT ![t] = "kernel"] /\ UNCHANGED <<frame, subject>> /\ port' = Append(port, t)
    BY <1>1 DEF Fault, Goto
  <2>2. OfTheApp' /\ Typed'
    BY <1>1, <2>1 DEF Given, Typed, OfTheApp, Labels
  <2>3. Arming' /\ SecondaryForTheOthers'
    BY <1>1, <2>1, Names2 DEF Given, Typed, Arming, SecondaryForTheOthers
  <2> QED
    BY <2>2, <2>3 DEF Given
<1>2. CASE ~ports
  BY <1>2, SignalKeeps DEF Fault, Frames
<1> QED
  BY <1>1, <1>2

LEMMA CrashStep ==
  ASSUME Given, NEW t \in App, NEW kind \in {"fault", "abort", "objc", "cpp"}, Crash(t, kind)
  PROVE  Given'
<1>1. t \in Threads /\ UNCHANGED ports
  BY Names2 DEF Crash
<1>2. CASE Fault(t)
  BY <1>1, <1>2, FaultKeeps
<1>3. CASE ~Fault(t)
  <2>1. UNCHANGED port /\ ((\E f \in Frames : Signal(t, f)) \/ (\E f \in Frames : Enter(t, f)))
    BY <1>3 DEF Crash, Frames
  <2>2. ASSUME NEW f \in Frames, Enter(t, f) PROVE Shift(t, "suspend", f)
    BY <1>1, <2>1, <2>2 DEF Enter, Goto, Shift
  <2> QED
    BY <1>1, <2>1, <2>2, SignalKeeps, ShiftKeeps DEF Labels
<1> QED
  BY <1>2, <1>3

LEMMA HandlerCrashStep == ASSUME Given, NEW t \in Threads, CrashInHandler(t) PROVE Given'
<1>1. Fault(t) /\ UNCHANGED ports
  BY DEF CrashInHandler
<1>2. ports => t \in App
  BY LateIsApp DEF CrashInHandler, Fragile, Early
<1> QED
  BY <1>1, <1>2, FaultKeeps

LEMMA LastStep ==
  ASSUME Given, NEW t \in Threads, Uncaught(t) \/ Raise(t) \/ Reply(t) \/ SignalAfterReply(t)
  PROVE  Given'
<1> USE DEF At, shared
<1>1. CASE Reply(t)
  <2>1. Goto(t, "done") /\ UNCHANGED <<frame, subject, ports, port>> /\ pc[t] = "reply"
    BY <1>1 DEF Reply
  <2>2. ports => t \in App \/ t = Primary
    BY <2>1 DEF Given, Arming, Threads, Reserved
  <2> QED
    BY <2>1, <2>2, GotoShift, ShiftKeeps DEF Labels
<1>2. CASE Uncaught(t) \/ Raise(t) \/ SignalAfterReply(t)
  <2>1. UNCHANGED <<ports, port>> /\ (ports => t \in App)
    BY <1>2, LateIsApp DEF Uncaught, Raise, SignalAfterReply, Early
  <2>2. CASE \E f \in Frames \cup {"none"} : Signal(t, f)
    BY <2>1, <2>2, SignalKeeps
  <2>3. CASE Enter(t, "objc")
    <3>1. Shift(t, "suspend", "objc")
      BY <2>1, <2>3 DEF Enter, Goto, Shift
    <3> QED
      BY <2>1, <3>1, ShiftKeeps DEF Labels, Frames
  <2> QED
    <3>1. CASE Uncaught(t)
      BY <3>1, <2>2, <2>3 DEF Uncaught, Frames
    <3>2. CASE SignalAfterReply(t)
      BY <3>2, <2>2 DEF SignalAfterReply, Frames
    <3>3. CASE Raise(t)
      <4>1. CASE Signal(t, "abort")
        BY <4>1, <2>2 DEF Frames
      <4>2. CASE Signal(t, frame[t])
        BY <4>2, <2>2 DEF Given, Typed
      <4> QED
        BY <3>3, <4>1, <4>2 DEF Raise
    <3> QED
      BY <1>2, <3>1, <3>2, <3>3
<1> QED
  BY <1>1, <1>2

LEMMA NextGiven == Given /\ [Next]_vars => Given'
<1> SUFFICES ASSUME Given, [Next]_vars PROVE Given'
  OBVIOUS
<1>1. ASSUME NEW t \in Threads, Step(t) PROVE Given'
  BY <1>1, LateStep, EarlyStep, SwitchStep, ReceiveStep, LastStep DEF Step, Monitoring, Leaving
<1>2. ASSUME NEW t \in Threads, CrashInHandler(t) PROVE Given'
  BY <1>2, HandlerCrashStep
<1>3. ASSUME NEW t \in App, NEW kind \in {"fault", "abort", "objc", "cpp"}, Crash(t, kind)
      PROVE  Given'
  BY <1>3, CrashStep
<1>4. ASSUME NEW t \in App, TakeHeap(t) \/ ReleaseHeap(t) PROVE Given'
  BY <1>4, IdleKeeps DEF TakeHeap, ReleaseHeap, thread, shared
<1>5. CASE UNCHANGED vars
  BY <1>5, IdleKeeps DEF vars, thread, shared
<1> QED
  BY <1>1, <1>2, <1>3, <1>4, <1>5 DEF Next

\* The secondary exception thread never handles a crash of the primary one, or of its
\* own: the ports are given back before anything in a handler can fail.
THEOREM SecondaryIsForTheApp == Spec => []SecondaryForTheOthers
<1>1. Given => SecondaryForTheOthers
  BY DEF Given
<1> QED
  BY <1>1, InitGiven, NextGiven, PTL DEF Spec

-----------------------------------------------------------------------------
\* The crash of one thread.

\* What the variables hold: those of the files while one thread has crashed, the others
\* however many do.
PartSet == [by : Threads, section : Nat, about : Threads \cup {Nobody}]
Inode   == [kind : {"standard", "minimal"}, parts : SUBSET PartSet, complete : BOOLEAN]
Contexts == [Monitors -> [about : Threads \cup {Nobody}, recrash : BOOLEAN]]
OnDiskOK == /\ path \in [Threads -> Nat] /\ lastPath \in Nat
            /\ inodes \in Seq(Inode)
            /\ dir \in [Names -> 0..Len(inodes)] /\ fd \in [Threads -> 0..Len(inodes)]
FlagsOK == /\ context \in Contexts
           /\ monitors \subseteq Monitors
           /\ handling \in BOOLEAN /\ recrash \in BOOLEAN /\ dead \in BOOLEAN
           /\ faults \in Nat /\ crashed \subseteq App

\* A thread inside a handler has one.
Inside == {"suspend", "test", "mark", "switch", "malloc", "context", "handle", "oncrash", "path",
           "open", "write", "rename", "reopen", "embed", "unlink", "rest", "transaction",
           "finish", "resume", "raise", "abort", "uncaught"}
Framed == \A t \in Threads : pc[t] \in Inside => frame[t] \in Frames

Kept == Given /\ FlagsOK /\ Framed

LEMMA InitKept == Init => Kept
<1> SUFFICES ASSUME Init PROVE Kept
  OBVIOUS
<1>1. FlagsOK
  BY DEF Init, FlagsOK, Contexts
<1>2. Framed
  BY DEF Init, Framed, Inside
<1> QED
  BY <1>1, <1>2, InitGiven DEF Kept

-----------------------------------------------------------------------------
\* One file's contents are replaced.
LEMMA Revised ==
  ASSUME inodes \in Seq(Inode), NEW i \in DOMAIN inodes, NEW new \in Inode,
         inodes' = [inodes EXCEPT ![i] = new]
  PROVE  /\ inodes' \in Seq(Inode) /\ Len(inodes') = Len(inodes)
         /\ DOMAIN inodes' = DOMAIN inodes
         /\ inodes'[i] = new
         /\ \A j \in DOMAIN inodes : j # i => inodes'[j] = inodes[j]
  OBVIOUS

LEMMA FileType ==
  ASSUME inodes \in Seq(Inode)
  PROVE  DOMAIN inodes = 1..Len(inodes) /\ Len(inodes) \in Nat
         /\ \A i \in DOMAIN inodes : inodes[i] \in Inode
  OBVIOUS

\* What writing into file i does: it adds parts, and perhaps the end.
Writes(i, X, done) ==
  /\ inodes' \in Seq(Inode) /\ Len(inodes') = Len(inodes)
  /\ \A j \in DOMAIN inodes : inodes[j].parts \subseteq inodes'[j].parts
  /\ i \in DOMAIN inodes => /\ inodes'[i].parts = inodes[i].parts \cup X
                            /\ inodes'[i].kind = inodes[i].kind
                            /\ inodes'[i].complete = IF done THEN TRUE ELSE inodes[i].complete

LEMMA AddParts ==
  ASSUME inodes \in Seq(Inode), NEW i, NEW X \in SUBSET PartSet,
         inodes' = [inodes EXCEPT ![i].parts = @ \cup X]
  PROVE  Writes(i, X, FALSE)
<1>t. \A j \in DOMAIN inodes : inodes[j] \in Inode
  BY FileType
<1>1. CASE i \in DOMAIN inodes
  <2> PICK new : new = [inodes[i] EXCEPT !.parts = inodes[i].parts \cup X]
    OBVIOUS
  <2>1. PICK old \in Inode : old = inodes[i]
    BY <1>1, <1>t
  <2>2. /\ new \in Inode /\ new.parts = old.parts \cup X /\ new.kind = old.kind
        /\ new.complete = old.complete
    BY <2>1 DEF Inode
  <2>3. inodes' = [inodes EXCEPT ![i] = new]
    BY <1>1
  <2> QED
    BY <1>1, <2>1, <2>2, <2>3, Revised DEF Writes
<1>2. CASE i \notin DOMAIN inodes
  <2>1. inodes' = inodes
    BY <1>2
  <2> QED
    BY <1>2, <2>1 DEF Writes
<1> QED
  BY <1>1, <1>2

LEMMA EndFile ==
  ASSUME inodes \in Seq(Inode), NEW i, NEW X, X = {},
         inodes' = [inodes EXCEPT ![i].complete = TRUE]
  PROVE  Writes(i, X, TRUE)
<1>t. \A j \in DOMAIN inodes : inodes[j] \in Inode
  BY FileType
<1>1. CASE i \in DOMAIN inodes
  <2> PICK new : new = [inodes[i] EXCEPT !.complete = TRUE]
    OBVIOUS
  <2>1. PICK old \in Inode : old = inodes[i]
    BY <1>1, <1>t
  <2>2. /\ new \in Inode /\ new.parts = old.parts \cup X /\ new.kind = old.kind
        /\ new.complete = TRUE
    BY <2>1 DEF Inode
  <2>3. inodes' = [inodes EXCEPT ![i] = new]
    BY <1>1
  <2> QED
    BY <1>1, <2>1, <2>2, <2>3, Revised DEF Writes
<1>2. CASE i \notin DOMAIN inodes
  <2>1. inodes' = inodes
    BY <1>2
  <2> QED
    BY <1>2, <2>1 DEF Writes
<1> QED
  BY <1>1, <1>2

LEMMA AddAndEnd ==
  ASSUME inodes \in Seq(Inode), NEW i, NEW X \in SUBSET PartSet,
         inodes' = [inodes EXCEPT ![i].parts = @ \cup X, ![i].complete = TRUE]
  PROVE  Writes(i, X, TRUE)
<1>t. \A j \in DOMAIN inodes : inodes[j] \in Inode
  BY FileType
<1>1. CASE i \in DOMAIN inodes
  <2> PICK new : new = [[inodes[i] EXCEPT !.parts = inodes[i].parts \cup X] EXCEPT !.complete = TRUE]
    OBVIOUS
  <2>1. PICK old \in Inode : old = inodes[i]
    BY <1>1, <1>t
  <2>2. /\ new \in Inode /\ new.parts = old.parts \cup X /\ new.kind = old.kind
        /\ new.complete = TRUE
    BY <2>1 DEF Inode
  <2>3. inodes' = [inodes EXCEPT ![i] = new]
    BY <1>1
  <2> QED
    BY <1>1, <2>1, <2>2, <2>3, Revised DEF Writes
<1>2. CASE i \notin DOMAIN inodes
  <2>1. inodes' = inodes
    BY <1>2
  <2> QED
    BY <1>2, <2>1 DEF Writes
<1> QED
  BY <1>1, <1>2

-----------------------------------------------------------------------------
\* The flags, and the handlers' frames, under every step.
LEMMA SignalFlags ==
  ASSUME FlagsOK, NEW t, NEW f, Signal(t, f), UNCHANGED <<context, monitors, handling, recrash>>,
         faults' \in Nat, crashed' \subseteq App
  PROVE  FlagsOK'
  BY DEF FlagsOK, Signal, Enter, Die

LEMMA ContextStep ==
  ASSUME Kept, NEW t \in Threads, FillContext(t) \/ Handle(t) PROVE context' \in Contexts
<1>1. context \in Contexts /\ subject[t] \in Threads \cup {Nobody} /\ recrash \in BOOLEAN
  BY DEF Kept, FlagsOK, Given, Typed
<1>2. CASE FillContext(t)
  <2> PICK m, who : m = MonitorOf(frame[t]) /\ who = IF m = "mach" THEN subject[t] ELSE t
    OBVIOUS
  <2>1. who \in Threads \cup {Nobody}
    BY <1>1
  <2>2. context' = [context EXCEPT ![m] = [[@ EXCEPT !.about = who]
                                             EXCEPT !.recrash = context[m].recrash /\ m = "mach"]]
    BY <1>2 DEF FillContext
  <2>3. ASSUME NEW c \in [about : Threads \cup {Nobody}, recrash : BOOLEAN], NEW r \in BOOLEAN
        PROVE  [[c EXCEPT !.about = who] EXCEPT !.recrash = r]
                 \in [about : Threads \cup {Nobody}, recrash : BOOLEAN]
    BY <2>1
  <2>4. CASE m \in Monitors
    <3>1. context[m] \in [about : Threads \cup {Nobody}, recrash : BOOLEAN]
      BY <1>1, <2>4 DEF Contexts
    <3>2. (context[m].recrash /\ m = "mach") \in BOOLEAN
      OBVIOUS
    <3> PICK new : new = [[context[m] EXCEPT !.about = who]
                            EXCEPT !.recrash = context[m].recrash /\ m = "mach"]
      OBVIOUS
    <3>3. new \in [about : Threads \cup {Nobody}, recrash : BOOLEAN]
      BY <2>3, <3>1, <3>2
    <3>4. context' = [context EXCEPT ![m] = new]
      BY <2>2
    <3> QED
      BY <1>1, <3>3, <3>4 DEF Contexts
  <2>5. CASE m \notin Monitors
    BY <1>1, <2>2, <2>5 DEF Contexts
  <2> QED
    BY <2>4, <2>5
<1>3. CASE Handle(t)
  BY <1>1, <1>3 DEF Handle, Contexts
<1> QED
  BY <1>2, <1>3

LEMMA FlagsStep == ASSUME Kept, Next PROVE FlagsOK'
<1> USE DEF Kept
<1>1. ASSUME NEW t \in Threads, Monitoring(t) PROVE FlagsOK'
  <2>1. CASE FillContext(t) \/ Handle(t)
    BY <2>1, ContextStep DEF FillContext, Handle, FlagsOK, disk
  <2>2. CASE Receive(t) \/ Suspend(t) \/ Test(t) \/ Mark(t) \/ Switch(t) \/ Malloc(t)
    BY <2>2 DEF Receive, Suspend, Test, Mark, Switch, Malloc, FlagsOK, shared
  <2> QED
    BY <1>1, <2>1, <2>2 DEF Monitoring
<1>2. ASSUME NEW t \in Threads, Reporting(t) PROVE FlagsOK'
  BY <1>2 DEF Reporting, OnCrash, NextPath, OpenReport, WriteSection, Rename, Reopen, Embed,
     Unlink, WriteRest, SaveTransaction, FlagsOK, shared
<1>3. ASSUME NEW t \in Threads, Leaving(t) PROVE FlagsOK'
  <2>1. CASE Finish(t) \/ Resume(t) \/ Reply(t)
    BY <2>1 DEF Finish, Resume, Reply, FlagsOK, shared
  <2>2. CASE Uncaught(t) \/ Raise(t) \/ SignalAfterReply(t)
    <3>1. (\E f : Signal(t, f)) \/ Enter(t, "objc")
      BY <2>2 DEF Uncaught, Raise, SignalAfterReply
    <3>2. UNCHANGED <<context, monitors, handling, recrash, faults, crashed>>
      BY <2>2 DEF Uncaught, Raise, SignalAfterReply, shared
    <3>3. faults' \in Nat /\ crashed' \subseteq App
      BY <3>2 DEF FlagsOK
    <3>4. CASE Enter(t, "objc")
      BY <3>2, <3>4 DEF Enter, FlagsOK
    <3> QED
      BY <3>1, <3>2, <3>3, <3>4, SignalFlags
  <2> QED
    BY <1>3, <2>1, <2>2 DEF Leaving
<1>4. ASSUME NEW t \in Threads, CrashInHandler(t) PROVE FlagsOK'
  <2>1. UNCHANGED <<context, monitors, handling, recrash>> /\ faults' \in Nat /\ crashed' \subseteq App
    BY <1>4 DEF CrashInHandler, FlagsOK
  <2>2. dead' = dead \/ Signal(t, "fault")
    BY <1>4 DEF CrashInHandler, Fault
  <2> QED
    BY <2>1, <2>2, SignalFlags DEF FlagsOK
<1>5. ASSUME NEW t \in App, NEW kind \in {"fault", "abort", "objc", "cpp"}, Crash(t, kind)
      PROVE  FlagsOK'
  <2>1. UNCHANGED <<context, monitors, handling, recrash>> /\ faults' \in Nat /\ crashed' \subseteq App
    BY <1>5 DEF Crash, FlagsOK
  <2>2. dead' = dead \/ \E f : Signal(t, f)
    BY <1>5 DEF Crash, Fault, Enter
  <2> QED
    BY <2>1, <2>2, SignalFlags DEF FlagsOK
<1>6. ASSUME NEW t \in App, TakeHeap(t) \/ ReleaseHeap(t) PROVE FlagsOK'
  BY <1>6 DEF TakeHeap, ReleaseHeap, FlagsOK, thread, shared
<1> QED
  BY <1>1, <1>2, <1>3, <1>4, <1>5, <1>6 DEF Next, Step

\* A handler goes on in its frame, leaves it, or starts another one.
LEMMA FrameGoesOn ==
  ASSUME Kept, NEW t \in Threads, NEW l, Goto(t, l), frame' = frame,
         pc[t] \in Inside \/ l \notin Inside
  PROVE  Framed'
  BY DEF Kept, Framed, Goto, Given, Typed

LEMMA FrameEnter ==
  ASSUME Kept, NEW t \in Threads, NEW f \in Frames, Enter(t, f) PROVE Framed'
  BY DEF Kept, Framed, Enter, Goto, Given, Typed

LEMMA FrameSignal ==
  ASSUME Kept, NEW t \in Threads, NEW f \in Frames, Signal(t, f) PROVE Framed'
<1>1. CASE Enter(t, f)
  BY <1>1, FrameEnter
<1>2. CASE Die
  BY <1>2 DEF Die, thread, Kept, Framed
<1> QED
  BY <1>1, <1>2 DEF Signal

LEMMA FrameFault == ASSUME Kept, NEW t \in Threads, Fault(t) PROVE Framed'
<1>1. CASE Goto(t, "kernel") /\ frame' = frame
  BY <1>1, FrameGoesOn DEF Inside
<1>2. CASE Signal(t, "fault")
  BY <1>2, FrameSignal DEF Frames
<1> QED
  BY <1>1, <1>2 DEF Fault

LEMMA FramedStep == ASSUME Kept, Next PROVE Framed'
<1>1. ASSUME UNCHANGED <<pc, frame>> PROVE Framed'
  BY <1>1 DEF Kept, Framed
<1>2. ASSUME NEW t \in Threads, Monitoring(t) PROVE Framed'
  <2>1. CASE Receive(t)
    <3>1. CASE Goto(t, "reply") /\ frame' = frame
      BY <3>1, FrameGoesOn DEF Inside
    <3>2. CASE Goto(t, "suspend") /\ frame' = [frame EXCEPT ![t] = "mach"]
      BY <3>2 DEF Kept, Framed, Goto, Given, Typed, Frames
    <3> QED
      BY <2>1, <3>1, <3>2 DEF Receive
  <2>2. CASE Switch(t)
    <3>1. pc[t] = "switch" /\ frame' = frame
      BY <2>2 DEF Switch, At
    <3>2. \A u \in Threads : u # t /\ pc'[u] \in Inside => pc[u] \in Inside
      BY <2>2 DEF Switch, Goto, Kept, Given, Typed, Inside
    <3> QED
      BY <3>1, <3>2 DEF Kept, Framed, Inside
  <2>3. CASE Suspend(t) \/ Test(t) \/ Mark(t) \/ Malloc(t) \/ FillContext(t) \/ Handle(t)
    <3>1. pc[t] \in Inside /\ frame' = frame /\ (UNCHANGED pc \/ \E l : Goto(t, l))
      BY <2>3 DEF Suspend, Test, Mark, Malloc, FillContext, Handle, At, Inside
    <3> QED
      BY <3>1, <1>1, FrameGoesOn
  <2> QED
    BY <1>2, <2>1, <2>2, <2>3 DEF Monitoring
<1>3. ASSUME NEW t \in Threads, Reporting(t) PROVE Framed'
  <2>1. pc[t] \in Inside /\ frame' = frame /\ (UNCHANGED pc \/ \E l : Goto(t, l))
    <3>1. CASE OpenReport(t) \/ Reopen(t) \/ WriteSection(t)
      BY <3>1 DEF OpenReport, Reopen, WriteSection, Create, At, Inside
    <3>2. CASE OnCrash(t) \/ NextPath(t) \/ Rename(t) \/ Embed(t) \/ Unlink(t) \/ WriteRest(t)
               \/ SaveTransaction(t)
      BY <3>2 DEF OnCrash, NextPath, Rename, Embed, Unlink, WriteRest, SaveTransaction, At, Inside
    <3> QED
      BY <1>3, <3>1, <3>2 DEF Reporting
  <2> QED
    BY <2>1, <1>1, FrameGoesOn
<1>4. ASSUME NEW t \in Threads, Leaving(t) PROVE Framed'
  <2>1. CASE Finish(t) \/ Resume(t) \/ Reply(t)
    <3>1. frame' = frame
          /\ (UNCHANGED pc \/ \E l : Goto(t, l) /\ (pc[t] \in Inside \/ l \notin Inside))
      BY <2>1 DEF Finish, Resume, Reply, At, Inside
    <3> QED
      BY <3>1, <1>1, FrameGoesOn
  <2>2. CASE Uncaught(t)
    BY <2>2, FrameEnter, FrameSignal DEF Uncaught, Frames
  <2>3. CASE Raise(t)
    <3>1. pc[t] \in Inside /\ (Signal(t, frame[t]) \/ Signal(t, "abort"))
      BY <2>3 DEF Raise, At, Inside
    <3>2. frame[t] \in Frames /\ "abort" \in Frames
      BY <3>1 DEF Kept, Framed, Frames
    <3> QED
      BY <3>1, <3>2, FrameSignal
  <2>4. CASE SignalAfterReply(t)
    BY <2>4, FrameSignal DEF SignalAfterReply, Frames
  <2> QED
    BY <1>4, <2>1, <2>2, <2>3, <2>4 DEF Leaving
<1>5. ASSUME NEW t \in Threads, CrashInHandler(t) PROVE Framed'
  BY <1>5, FrameFault DEF CrashInHandler
<1>6. ASSUME NEW t \in App, NEW kind \in {"fault", "abort", "objc", "cpp"}, Crash(t, kind)
      PROVE  Framed'
  <2>1. t \in Threads
    BY Names2
  <2>2. Fault(t) \/ (\E f \in Frames : Signal(t, f)) \/ (\E f \in Frames : Enter(t, f))
    BY <1>6 DEF Crash, Frames
  <2> QED
    BY <2>1, <2>2, FrameFault, FrameSignal, FrameEnter
<1>7. ASSUME NEW t \in App, TakeHeap(t) \/ ReleaseHeap(t) PROVE Framed'
  BY <1>7, <1>1 DEF TakeHeap, ReleaseHeap, thread
<1> QED
  BY <1>2, <1>3, <1>4, <1>5, <1>6, <1>7 DEF Next, Step

LEMMA NextKept == Kept /\ [Next]_vars => Kept'
<1> SUFFICES ASSUME Kept, [Next]_vars PROVE Kept'
  OBVIOUS
<1>1. Given'
  BY NextGiven DEF Kept
<1>2. CASE Next
  BY <1>1, <1>2, FlagsStep, FramedStep DEF Kept
<1>3. CASE UNCHANGED vars
  BY <1>1, <1>3 DEF vars, thread, shared, Kept, FlagsOK, Framed
<1> QED
  BY <1>2, <1>3
-----------------------------------------------------------------------------
\* The parts of a handler's way.
First  == {"suspend", "test", "mark"}
Before == {"switch", "malloc", "context", "handle", "oncrash"}
Fresh  == {"path", "open", "write"}
Again  == {"rename", "reopen", "embed", "unlink", "rest"}
Last   == {"transaction", "finish"}
After  == {"resume", "raise", "abort", "uncaught", "reply", "done"}
Busy   == First \cup Before \cup Fresh \cup Again \cup Last \cup After

\* What is on disk: nothing, no report moved aside, or one report with its first n sections.
NoFile == \A n \in Names : dir[n] = 0
Empty  == lastPath = 0 /\ NoFile /\ inodes = <<>>
NoOld  == \A n \in Names : n[2] = "old" => dir[n] = 0
TheReport     == <<1, "json">>
About(h, u, n) == {[by |-> h, section |-> k, about |-> u] : k \in 1..n}
Told(h, u, n) ==
  /\ lastPath = 1 /\ dir[TheReport] = 1 /\ \A m \in Names : m # TheReport => dir[m] = 0
  /\ Len(inodes) = 1 /\ inodes[1].kind = "standard" /\ inodes[1].parts = About(h, u, n)
Full(h, u) == Told(h, u, Sections) /\ inodes[1].complete

\* Thread h handles the crash of u, and nothing else is at work.
Alone(h, u) ==
  /\ \A v \in App \ {u} : pc[v] = "run"
  /\ port = <<>> /\ pc[h] \in Busy
  /\ \/ /\ h = u /\ frame[u] \in {"abort", "skip", "objc", "cpp"}
        /\ ports /\ pc[Primary] = "listen" /\ pc[Secondary] = "parked"
     \/ /\ h = Primary /\ frame[h] \in {"mach", "fault"} /\ pc[u] = "kernel"
        /\ subject[h] = u /\ pc[Secondary] \in {"parked", "listen"}

\* How far it is shows in the flags: the second handler finds the first one's mark.
Marked(h) ==
  /\ pc[h] \in First => monitors = Monitors /\ (recrash <=> pc[h] = "mark" /\ handling)
                        /\ (handling => h = Primary /\ faults > 0)
  /\ pc[h] \in Before \cup Fresh \cup Again \cup Last =>
       handling /\ monitors = IF recrash THEN {} ELSE Monitors
  /\ pc[h] \in After /\ frame[h] # "skip" => monitors = {}
  /\ frame[h] = "skip" => /\ pc[h] \in {"suspend", "resume", "uncaught"}
                          /\ ~handling /\ ~recrash /\ monitors = Monitors
  /\ pc[h] = "uncaught" => frame[h] = "skip"
  /\ pc[h] = "resume" => frame[h] # "objc"
  /\ recrash => h = Primary /\ faults > 0
  /\ frame[h] = "fault" => handling /\ (pc[h] \notin First => recrash)
  /\ pc[h] \in Fresh => ~recrash
  /\ pc[h] \in Again => recrash

\* What it knows of the crash.
Unmarked == \A m \in Monitors : ~context[m].recrash
Knows(h, u) ==
  /\ ~recrash => Unmarked
  /\ pc[h] = "oncrash" /\ recrash => context[MonitorOf(frame[h])].recrash
  /\ pc[h] \in {"handle", "oncrash"} \cup Fresh /\ ~recrash =>
       context[MonitorOf(frame[h])].about = u

\* What it has saved of it, the first time ...
SavedFirst(h, u) ==
  /\ pc[h] \in First => IF handling THEN NoOld ELSE Empty
  /\ pc[h] \in Before => IF recrash THEN NoOld ELSE Empty
  /\ pc[h] = "path" => Empty
  /\ pc[h] = "open" => lastPath = 1 /\ path[h] = 1 /\ NoFile /\ inodes = <<>>
  /\ pc[h] = "write" => fd[h] = 1 /\ \E n \in 0..Sections : Told(h, u, n)
  /\ pc[h] \in Last /\ ~recrash => Full(h, u)
  /\ pc[h] \in After /\ ~recrash /\ frame[h] # "skip" => Full(h, u)
  /\ frame[h] = "skip" => Empty

\* ... and the second time.
SavedAgain(h) ==
  /\ pc[h] = "rename" => NoOld
  /\ pc[h] \in {"embed", "unlink"} => fd[h] # 0 /\ dir[Current("json")] = fd[h]
  /\ pc[h] = "unlink" /\ dir[Current("old")] # 0 =>
       inodes[dir[Current("old")]].parts \subseteq inodes[fd[h]].parts \cup missed

HandledBy(h, u) == Alone(h, u) /\ Marked(h) /\ Knows(h, u) /\ SavedFirst(h, u) /\ SavedAgain(h)

\* The crash of u is announced at the port, for the first time or from its own handler.
Knocking(u) ==
  /\ \A v \in App \ {u} : pc[v] = "run"
  /\ pc[u] = "kernel" /\ port = <<u>> /\ ports
  /\ pc[Primary] = "listen" /\ pc[Secondary] = "parked"
  /\ monitors = Monitors /\ ~recrash /\ Unmarked
  /\ IF handling THEN faults > 0 /\ NoOld ELSE Empty

Lone(u) == /\ OnDiskOK /\ lastPath \in {0, 1}
           /\ dead /\ faults = 0 => \E h \in Threads : Full(h, u)
           /\ Knocking(u) \/ \E h \in {u, Primary} : HandledBy(h, u)

Untouched == /\ \A v \in App : pc[v] = "run" /\ frame[v] = "none"
             /\ port = <<>> /\ ports /\ pc[Primary] = "listen" /\ pc[Secondary] = "parked"
             /\ monitors = Monitors /\ ~handling /\ ~recrash /\ Unmarked /\ Empty /\ ~dead
             /\ OnDiskOK

Solo == /\ crashed = {} => Untouched
        /\ \A u \in App : crashed = {u} => Lone(u)

\* A state in which h is the one handler.
At1(h, u) == /\ Kept /\ OnDiskOK /\ lastPath \in {0, 1} /\ u \in App /\ h \in {u, Primary}
             /\ HandledBy(h, u)

LEMMA Two == ASSUME NEW u \in App, NEW h \in {u, Primary}
             PROVE  /\ h \in Threads /\ u \in Threads /\ u # Primary /\ u # Secondary
                    /\ h # Secondary /\ Secondary \in Threads /\ Primary \in Threads
                    /\ Primary # Secondary
                    /\ \A v \in App \ {u} : v # h /\ v \in Threads /\ v # Secondary
  BY Names2

\* Nobody but h takes a step of a handler.
LEMMA OnlyOne ==
  ASSUME NEW h, NEW u, At1(h, u), NEW t \in Threads, pc[t] \in Busy
  PROVE  t = h
<1>1. t \in App \/ t = Primary \/ t = Secondary
  BY DEF Threads, Reserved
<1> QED
  BY <1>1, Two DEF At1, HandledBy, Alone, Busy, First, Before, Fresh, Again, Last, After

\* h goes on.
LEMMA AloneGoes ==
  ASSUME NEW h, NEW u, At1(h, u), NEW l \in Busy, Goto(h, l), UNCHANGED <<frame, subject, ports, port>>
  PROVE  Alone(h, u)' /\ pc'[h] = l
<1>1. pc \in [Threads -> Labels]
  BY DEF At1, Kept, Given, Typed
<1>2. pc'[h] = l /\ \A t \in Threads : t # h => pc'[t] = pc[t]
  BY <1>1, Two DEF At1, Goto
<1> QED
  BY <1>2, Two DEF At1, HandledBy, Alone

\* Nothing on disk changes.
LEMMA DiskFrame ==
  ASSUME UNCHANGED <<path, fd, disk>>
  PROVE  /\ OnDiskOK' <=> OnDiskOK
         /\ NoFile' <=> NoFile
         /\ Empty' <=> Empty
         /\ NoOld' <=> NoOld
         /\ \A h, u : Full(h, u)' <=> Full(h, u)
         /\ OnDisk' = OnDisk
  BY DEF OnDiskOK, NoFile, Empty, NoOld, Full, Told, About, OnDisk, disk

\* What a step of h leaves: h handles the crash still, and what is gone no copy has reached.
Keeps(h, u) == /\ HandledBy(h, u)' /\ OnDiskOK' /\ lastPath' \in {0, 1} /\ dead' = dead
               /\ OnDisk \subseteq OnDisk' \cup missed'

LEMMA Quiet ==
  ASSUME NEW h, NEW u, At1(h, u), NEW l \in Busy, Goto(h, l),
         UNCHANGED <<frame, subject, ports, port, path, fd, disk, dead>>,
         pc'[h] = l => Marked(h)' /\ Knows(h, u)' /\ SavedFirst(h, u)' /\ SavedAgain(h)'
  PROVE  Keeps(h, u)
<1>1. Alone(h, u)' /\ pc'[h] = l
  BY AloneGoes
<1>2. OnDiskOK' /\ lastPath' \in {0, 1} /\ OnDisk' = OnDisk
  BY DiskFrame DEF At1, disk
<1> QED
  BY <1>1, <1>2 DEF Keeps, HandledBy

LEMMA SuspendTestMark ==
  ASSUME NEW h, NEW u, At1(h, u), Suspend(h) \/ Test(h) \/ Mark(h)
  PROVE  Keeps(h, u)
<1> USE DEF At, Busy, First, Before, Fresh, Again, Last, After
<1>d. UNCHANGED <<path, fd, disk, frame, subject, ports, port, dead, context, faults>>
  BY DEF Suspend, Test, Mark, disk
<1>e. (Empty' <=> Empty) /\ (NoOld' <=> NoOld) /\ (Full(h, u)' <=> Full(h, u))
  BY <1>d, DiskFrame
<1>h. Marked(h) /\ Knows(h, u) /\ SavedFirst(h, u) /\ SavedAgain(h) /\ recrash \in BOOLEAN
      /\ handling \in BOOLEAN
  BY DEF At1, HandledBy, Kept, FlagsOK
<1>1. CASE UNCHANGED pc
  <2>1. Suspend(h)
    BY <1>1, Two DEF At1, Test, Mark, Goto, Kept, Given, Typed
  <2>2. UNCHANGED <<frame, subject, ports, port, monitors, handling, recrash, context, faults>>
    BY <2>1 DEF Suspend
  <2> QED
    BY <1>1, <1>d, <2>2, DiskFrame DEF At1, HandledBy, Keeps, Alone, Marked, Knows, Unmarked,
       SavedFirst, SavedAgain, Told, About, Current, disk
<1>2. CASE Suspend(h) /\ pc' # pc
  <2>1. \/ Goto(h, "test") /\ frame[h] # "skip"
        \/ Goto(h, "resume") /\ frame[h] = "skip"
    BY <1>2 DEF Suspend
  <2>2. pc[h] = "suspend" /\ UNCHANGED <<monitors, handling, recrash>>
    BY <1>2 DEF Suspend
  <2>3. CASE Goto(h, "test") /\ frame[h] # "skip"
    <3>1. ASSUME pc'[h] = "test" PROVE Marked(h)' /\ Knows(h, u)'
      BY <1>d, <1>h, <2>2, <2>3, <3>1 DEF Marked, Knows, Unmarked
    <3>2. ASSUME pc'[h] = "test" PROVE SavedFirst(h, u)' /\ SavedAgain(h)'
      BY <1>d, <1>e, <1>h, <2>2, <2>3, <3>2 DEF SavedFirst, SavedAgain
    <3> QED
      BY <1>d, <2>3, <3>1, <3>2, Quiet
  <2>4. CASE Goto(h, "resume") /\ frame[h] = "skip"
    <3>1. ASSUME pc'[h] = "resume" PROVE Marked(h)' /\ Knows(h, u)'
      BY <1>d, <1>h, <2>2, <2>4, <3>1 DEF Marked, Knows, Unmarked
    <3>2. ASSUME pc'[h] = "resume" PROVE SavedFirst(h, u)' /\ SavedAgain(h)'
      BY <1>d, <1>e, <1>h, <2>2, <2>4, <3>2 DEF SavedFirst, SavedAgain
    <3> QED
      BY <1>d, <2>4, <3>1, <3>2, Quiet
  <2> QED
    BY <2>1, <2>3, <2>4
<1>3. CASE Test(h)
  <2>1. /\ pc[h] = "test" /\ Goto(h, "mark") /\ UNCHANGED <<monitors, handling>>
        /\ recrash' = (recrash \/ handling)
    BY <1>3 DEF Test
  <2>2. ~recrash /\ (recrash' <=> handling)
    BY <1>h, <2>1 DEF Marked
  <2>3. ASSUME pc'[h] = "mark" PROVE Marked(h)' /\ Knows(h, u)'
    BY <1>d, <1>h, <2>1, <2>2, <2>3 DEF Marked, Knows, Unmarked
  <2>4. ASSUME pc'[h] = "mark" PROVE SavedFirst(h, u)' /\ SavedAgain(h)'
    BY <1>d, <1>e, <1>h, <2>1, <2>4 DEF SavedFirst, SavedAgain, Marked
  <2> QED
    BY <1>d, <2>1, <2>3, <2>4, Quiet
<1>4. CASE Mark(h)
  <2>1. /\ pc[h] = "mark" /\ handling' = TRUE /\ recrash' = recrash
        /\ monitors' = IF recrash THEN {} ELSE monitors
    BY <1>4 DEF Mark
  <2>2. \E l \in {"switch", "malloc", "context"} : Goto(h, l)
    BY <1>4 DEF Mark
  <2>3. PICK l \in {"switch", "malloc", "context"} : Goto(h, l)
    BY <2>2
  <2>4. ASSUME pc'[h] = l PROVE Marked(h)' /\ Knows(h, u)'
    BY <1>d, <1>h, <2>1, <2>3, <2>4 DEF Marked, Knows, Unmarked
  <2>5. ASSUME pc'[h] = l PROVE SavedFirst(h, u)' /\ SavedAgain(h)'
    BY <1>d, <1>e, <1>h, <2>1, <2>3, <2>5 DEF SavedFirst, SavedAgain, Marked
  <2> QED
    BY <1>d, <2>3, <2>4, <2>5, Quiet
<1> QED
  BY <1>1, <1>2, <1>3, <1>4

LEMMA Filled ==
  ASSUME Kept, NEW t \in Threads, frame[t] \in Frames, FillContext(t)
  PROVE  /\ context'[MonitorOf(frame[t])].about
              = (IF MonitorOf(frame[t]) = "mach" THEN subject[t] ELSE t)
         /\ \A k \in Monitors : context'[k].recrash => context[k].recrash
<1> PICK m, who : m = MonitorOf(frame[t]) /\ who = IF m = "mach" THEN subject[t] ELSE t
  OBVIOUS
<1>1. m \in Monitors
  BY DEF Frames, MonitorOf, Monitors
<1>2. \A k \in Monitors : context[k] \in [about : Threads \cup {Nobody}, recrash : BOOLEAN]
  BY DEF Kept, FlagsOK, Contexts
<1>3. /\ context' = [context EXCEPT ![m] = [[@ EXCEPT !.about = who]
                                              EXCEPT !.recrash = context[m].recrash /\ m = "mach"]]
      /\ DOMAIN context = Monitors
  BY DEF FillContext, Kept, FlagsOK, Contexts
<1> PICK new : new = [[context[m] EXCEPT !.about = who]
                        EXCEPT !.recrash = context[m].recrash /\ m = "mach"]
  OBVIOUS
<1>4. new.about = who /\ (new.recrash => context[m].recrash)
  BY <1>1, <1>2
<1>5. context' = [context EXCEPT ![m] = new]
  BY <1>3
<1> QED
  BY <1>1, <1>3, <1>4, <1>5

LEMMA Noted ==
  ASSUME Kept, NEW t \in Threads, frame[t] \in Frames, Handle(t)
  PROVE  /\ \A k \in Monitors : context'[k].about = context[k].about
         /\ context'[MonitorOf(frame[t])].recrash = (context[MonitorOf(frame[t])].recrash \/ recrash)
         /\ \A k \in Monitors : context'[k].recrash => context[k].recrash \/ recrash
<1> PICK m : m = MonitorOf(frame[t])
  OBVIOUS
<1>1. m \in Monitors
  BY DEF Frames, MonitorOf, Monitors
<1>2. \A k \in Monitors : context[k] \in [about : Threads \cup {Nobody}, recrash : BOOLEAN]
  BY DEF Kept, FlagsOK, Contexts
<1>3. context' = [context EXCEPT ![m].recrash = @ \/ recrash] /\ DOMAIN context = Monitors
  BY DEF Handle, Kept, FlagsOK, Contexts
<1> QED
  BY <1>1, <1>2, <1>3

\* Up to the callback.
LEMMA SwitchToOnCrash ==
  ASSUME NEW h, NEW u, At1(h, u), Switch(h) \/ Malloc(h) \/ FillContext(h) \/ Handle(h) \/ OnCrash(h)
  PROVE  Keeps(h, u)
<1> USE DEF At, Busy, First, Before, Fresh, Again, Last, After
<1>d. UNCHANGED <<path, fd, disk, frame, subject, port, dead, faults, monitors, handling, recrash>>
  BY DEF Switch, Malloc, FillContext, Handle, OnCrash, disk, shared
<1>e. (Empty' <=> Empty) /\ (NoOld' <=> NoOld) /\ (Full(h, u)' <=> Full(h, u))
  BY <1>d, DiskFrame
<1>h. /\ Marked(h) /\ Knows(h, u) /\ SavedFirst(h, u) /\ SavedAgain(h)
      /\ recrash \in BOOLEAN /\ handling \in BOOLEAN /\ Alone(h, u) /\ Kept
  BY DEF At1, HandledBy, Kept, FlagsOK
<1>f. pc[h] \in Before
  BY DEF Switch, Malloc, FillContext, Handle, OnCrash
<1>g. /\ h \in Threads /\ frame[h] \in Frames
      /\ MonitorOf(frame[h]) \in Monitors
      /\ ~recrash => \/ h = u /\ frame[h] # "mach" /\ MonitorOf(frame[h]) # "mach"
                     \/ frame[h] = "mach" /\ MonitorOf(frame[h]) = "mach" /\ subject[h] = u
  BY <1>h, <1>f, Two DEF At1, Alone, Marked, Frames, MonitorOf, Monitors
<1>1. CASE Switch(h)
  <2>1. pc[h] = "switch" /\ context' = context
    BY <1>1 DEF Switch
  <2>2. pc'[h] = "context" /\ Alone(h, u)'
    <3>1. pc \in [Threads -> Labels]
      BY <1>h DEF Kept, Given, Typed
    <3>2. CASE h = Primary
      BY <1>1, <1>d, <1>h, <3>1, <3>2, Two DEF At1, Alone, Switch
    <3>3. CASE h # Primary
      BY <1>1, <1>d, <1>h, <3>1, <3>3, Two DEF At1, Alone, Switch, Goto
    <3> QED
      BY <3>2, <3>3
  <2>3. Marked(h)' /\ Knows(h, u)'
    BY <1>d, <1>h, <2>1, <2>2 DEF Marked, Knows, Unmarked
  <2>4. SavedFirst(h, u)' /\ SavedAgain(h)'
    BY <1>d, <1>e, <1>h, <2>1, <2>2 DEF SavedFirst, SavedAgain
  <2>5. OnDiskOK' /\ lastPath' \in {0, 1} /\ OnDisk' = OnDisk
    BY <1>d, DiskFrame DEF At1, disk
  <2> QED
    BY <1>d, <2>2, <2>3, <2>4, <2>5 DEF Keeps, HandledBy
<1>2. CASE Malloc(h)
  <2>1. pc[h] = "malloc" /\ Goto(h, "context") /\ UNCHANGED <<ports, context>>
    BY <1>2 DEF Malloc, shared
  <2>2. ASSUME pc'[h] = "context" PROVE Marked(h)' /\ Knows(h, u)'
    BY <1>d, <1>h, <2>1, <2>2 DEF Marked, Knows, Unmarked
  <2>3. ASSUME pc'[h] = "context" PROVE SavedFirst(h, u)' /\ SavedAgain(h)'
    BY <1>d, <1>e, <1>h, <2>1, <2>3 DEF SavedFirst, SavedAgain
  <2> QED
    BY <1>d, <2>1, <2>2, <2>3, Quiet
<1>3. CASE FillContext(h)
  <2>1. pc[h] = "context" /\ Goto(h, "handle") /\ ports' = ports
    BY <1>3 DEF FillContext
  <2>2. /\ \A k \in Monitors : context'[k].recrash => context[k].recrash
        /\ ~recrash => context'[MonitorOf(frame[h])].about = u
    BY <1>3, <1>g, <1>h, Filled
  <2>3. ASSUME pc'[h] = "handle" PROVE Marked(h)' /\ Knows(h, u)'
    <3>1. Marked(h)'
      BY <1>d, <1>h, <2>1, <2>3 DEF Marked
    <3>2. Knows(h, u)'
      BY <1>d, <1>h, <2>2, <2>3 DEF Knows, Unmarked
    <3> QED
      BY <3>1, <3>2
  <2>4. ASSUME pc'[h] = "handle" PROVE SavedFirst(h, u)' /\ SavedAgain(h)'
    BY <1>d, <1>e, <1>h, <2>1, <2>4 DEF SavedFirst, SavedAgain
  <2> QED
    BY <1>d, <2>1, <2>3, <2>4, Quiet
<1>4. CASE Handle(h)
  <2>1. pc[h] = "handle" /\ Goto(h, "oncrash") /\ ports' = ports
    BY <1>4 DEF Handle
  <2>2. /\ \A k \in Monitors : context'[k].recrash => context[k].recrash \/ recrash
        /\ context'[MonitorOf(frame[h])].about = context[MonitorOf(frame[h])].about
        /\ recrash => context'[MonitorOf(frame[h])].recrash
    BY <1>4, <1>g, <1>h, Noted
  <2>3. ASSUME pc'[h] = "oncrash" PROVE Marked(h)' /\ Knows(h, u)'
    <3>1. Marked(h)'
      BY <1>d, <1>h, <2>1, <2>3 DEF Marked
    <3>2. Knows(h, u)'
      BY <1>d, <1>h, <2>1, <2>2, <2>3 DEF Knows, Unmarked
    <3> QED
      BY <3>1, <3>2
  <2>4. ASSUME pc'[h] = "oncrash" PROVE SavedFirst(h, u)' /\ SavedAgain(h)'
    BY <1>d, <1>e, <1>h, <2>1, <2>4 DEF SavedFirst, SavedAgain
  <2> QED
    BY <1>d, <2>1, <2>3, <2>4, Quiet
<1>5. CASE OnCrash(h)
  <2>1. pc[h] = "oncrash" /\ UNCHANGED <<ports, context>>
    BY <1>5 DEF OnCrash, shared
  <2>2. Goto(h, IF recrash THEN "rename" ELSE "path")
    <3>1. context[MonitorOf(frame[h])].recrash <=> recrash
      BY <1>g, <1>h, <2>1 DEF Knows, Unmarked
    <3> QED
      BY <1>5, <3>1 DEF OnCrash
  <2> PICK l \in {"rename", "path"} : l = IF recrash THEN "rename" ELSE "path"
    OBVIOUS
  <2>3. ASSUME pc'[h] = l PROVE Marked(h)' /\ Knows(h, u)'
    BY <1>d, <1>h, <2>1, <2>3 DEF Marked, Knows, Unmarked
  <2>4. ASSUME pc'[h] = l PROVE SavedFirst(h, u)' /\ SavedAgain(h)'
    BY <1>d, <1>e, <1>h, <2>1, <2>4 DEF SavedFirst, SavedAgain
  <2> QED
    BY <1>d, <2>1, <2>2, <2>3, <2>4, Quiet
<1> QED
  BY <1>1, <1>2, <1>3, <1>4, <1>5

\* From the report to the end.
LEMMA TransactionToReply ==
  ASSUME NEW h, NEW u, At1(h, u), SaveTransaction(h) \/ Finish(h) \/ Resume(h) \/ Reply(h)
  PROVE  Keeps(h, u)
<1> USE DEF At, Busy, First, Before, Fresh, Again, Last, After
<1>d. UNCHANGED <<path, fd, disk, frame, subject, ports, port, dead, faults, handling, recrash,
                  context>>
  BY DEF SaveTransaction, Finish, Resume, Reply, disk, shared
<1>e. (Empty' <=> Empty) /\ (NoOld' <=> NoOld) /\ (Full(h, u)' <=> Full(h, u))
  BY <1>d, DiskFrame
<1>h. /\ Marked(h) /\ Knows(h, u) /\ SavedFirst(h, u) /\ SavedAgain(h)
      /\ recrash \in BOOLEAN /\ handling \in BOOLEAN /\ Alone(h, u) /\ Kept
  BY DEF At1, HandledBy, Kept, FlagsOK
<1>g. h \in Threads /\ frame[h] \in Frames
  BY <1>h, Two DEF At1, Alone, Frames
<1>1. CASE SaveTransaction(h)
  <2>1. pc[h] = "transaction" /\ Goto(h, "finish") /\ monitors' = monitors
    BY <1>1 DEF SaveTransaction, shared
  <2>2. ASSUME pc'[h] = "finish" PROVE Marked(h)' /\ Knows(h, u)'
    BY <1>d, <1>h, <2>1, <2>2 DEF Marked, Knows, Unmarked
  <2>3. ASSUME pc'[h] = "finish" PROVE SavedFirst(h, u)' /\ SavedAgain(h)'
    BY <1>d, <1>e, <1>h, <2>1, <2>3 DEF SavedFirst, SavedAgain
  <2> QED
    BY <1>d, <2>1, <2>2, <2>3, Quiet
<1>2. CASE Finish(h)
  <2>1. pc[h] = "finish" /\ monitors' = IF handling /\ ~recrash THEN {} ELSE monitors
    BY <1>2 DEF Finish
  <2>2. monitors' = {} /\ frame[h] # "skip"
    BY <1>h, <2>1 DEF Marked
  <2> PICK l \in {"abort", "resume"} : l = IF frame[h] = "objc" THEN "abort" ELSE "resume"
    OBVIOUS
  <2>3. Goto(h, l)
    BY <1>2 DEF Finish
  <2>4. ASSUME pc'[h] = l PROVE Marked(h)' /\ Knows(h, u)'
    BY <1>d, <1>h, <2>1, <2>2, <2>4 DEF Marked, Knows, Unmarked
  <2>5. ASSUME pc'[h] = l PROVE SavedFirst(h, u)' /\ SavedAgain(h)'
    BY <1>d, <1>e, <1>h, <2>1, <2>2, <2>5 DEF SavedFirst, SavedAgain
  <2> QED
    BY <1>d, <2>3, <2>4, <2>5, Quiet
<1>3. CASE Resume(h)
  <2>1. pc[h] = "resume" /\ monitors' = monitors /\ (UNCHANGED pc \/ Goto(h, Leave(h)))
    BY <1>3 DEF Resume
  <2>2. CASE UNCHANGED pc
    BY <1>d, <2>1, <2>2, DiskFrame DEF At1, HandledBy, Keeps, Alone, Marked, Knows, Unmarked,
       SavedFirst, SavedAgain, disk
  <2>3. CASE Goto(h, Leave(h))
    <3> PICK l \in {"reply", "raise", "abort", "uncaught"} : l = Leave(h)
      BY DEF Leave
    <3>1. l = "uncaught" => frame[h] = "skip"
      BY <1>g, <1>h, <2>1 DEF Leave, Marked, Frames
    <3>2. frame[h] = "skip" => l = "uncaught"
      BY DEF Leave
    <3>3. ASSUME pc'[h] = l PROVE Marked(h)' /\ Knows(h, u)'
      BY <1>d, <1>h, <2>1, <3>1, <3>2, <3>3 DEF Marked, Knows, Unmarked
    <3>4. ASSUME pc'[h] = l PROVE SavedFirst(h, u)' /\ SavedAgain(h)'
      BY <1>d, <1>e, <1>h, <2>1, <3>1, <3>4 DEF SavedFirst, SavedAgain
    <3> QED
      BY <1>d, <2>3, <3>3, <3>4, Quiet
  <2> QED
    BY <2>1, <2>2, <2>3
<1>4. CASE Reply(h)
  <2>1. pc[h] = "reply" /\ Goto(h, "done") /\ monitors' = monitors
    BY <1>4 DEF Reply, shared
  <2>2. frame[h] # "skip"
    BY <1>h, <2>1 DEF Marked
  <2>3. ASSUME pc'[h] = "done" PROVE Marked(h)' /\ Knows(h, u)'
    BY <1>d, <1>h, <2>1, <2>2, <2>3 DEF Marked, Knows, Unmarked
  <2>4. ASSUME pc'[h] = "done" PROVE SavedFirst(h, u)' /\ SavedAgain(h)'
    BY <1>d, <1>e, <1>h, <2>1, <2>2, <2>4 DEF SavedFirst, SavedAgain
  <2> QED
    BY <1>d, <2>1, <2>3, <2>4, Quiet
<1> QED
  BY <1>1, <1>2, <1>3, <1>4

-----------------------------------------------------------------------------
\* The steps that write.

\* There is a number for a first report.
LEMMA FirstReport == ASSUME NEW u \in App PROVE {0, 1} \subseteq Reports /\ TheReport \in Names
<1>1. Cardinality(App) \in Nat /\ Cardinality(App) # 0
  BY CrashAssumption, FS_CardinalityType, FS_EmptySet DEF CrashAssumption
<1> QED
  BY <1>1 DEF TheReport, Names, Reports

\* What was on disk is there still if each file lives on in some file.
LEMMA Evidence ==
  ASSUME \A n \in Names : dir[n] # 0 =>
           \E m \in Names : dir'[m] # 0 /\ inodes[dir[n]].parts \subseteq inodes'[dir'[m]].parts
  PROVE  OnDisk \subseteq OnDisk'
<1> SUFFICES ASSUME NEW p \in OnDisk PROVE p \in OnDisk'
  OBVIOUS
<1>1. PICK n \in Names : dir[n] # 0 /\ p \in inodes[dir[n]].parts
  BY DEF OnDisk
<1>2. PICK m \in Names : dir'[m] # 0 /\ p \in inodes'[dir'[m]].parts
  BY <1>1
<1> QED
  BY <1>2 DEF OnDisk

\* A file is written to.
LEMMA EvidenceWritten ==
  ASSUME OnDiskOK, NEW i, NEW X, NEW done, Writes(i, X, done), UNCHANGED <<dir, fd, path, lastPath>>
  PROVE  OnDisk \subseteq OnDisk' /\ OnDiskOK'
<1>1. \A n \in Names : dir[n] # 0 => dir[n] \in DOMAIN inodes
  BY DEF OnDiskOK
<1>2. OnDisk \subseteq OnDisk'
  BY <1>1, Evidence DEF Writes
<1>3. OnDiskOK'
  BY DEF OnDiskOK, Writes
<1> QED
  BY <1>2, <1>3

\* A file is created.
LEMMA Created ==
  ASSUME OnDiskOK, NEW name \in Names, NEW kind \in {"standard", "minimal"}, NEW t \in Threads,
         dir[name] = 0, inodes' = Append(inodes, Blank(kind)),
         dir' = [dir EXCEPT ![name] = Len(inodes) + 1], fd' = [fd EXCEPT ![t] = Len(inodes) + 1],
         UNCHANGED <<path, lastPath>>
  PROVE  /\ OnDisk \subseteq OnDisk' /\ OnDiskOK'
         /\ Len(inodes') = Len(inodes) + 1 /\ inodes'[Len(inodes')] = Blank(kind)
         /\ dir'[name] = Len(inodes) + 1 /\ fd'[t] = Len(inodes) + 1
         /\ \A m \in Names : m # name => dir'[m] = dir[m]
<1>1. Blank(kind) \in Inode
  BY DEF Blank, Inode
<1>2. /\ inodes' \in Seq(Inode) /\ Len(inodes') = Len(inodes) + 1 /\ Len(inodes) \in Nat
      /\ inodes'[Len(inodes) + 1] = Blank(kind)
      /\ \A j \in 1..Len(inodes) : inodes'[j] = inodes[j]
  BY <1>1 DEF OnDiskOK
<1>3. /\ dir'[name] = Len(inodes) + 1 /\ fd'[t] = Len(inodes) + 1
      /\ \A m \in Names : m # name => dir'[m] = dir[m]
  BY DEF OnDiskOK
<1>4. OnDiskOK'
  BY <1>2 DEF OnDiskOK
<1>5. \A n \in Names : dir[n] # 0 => dir[n] \in 1..Len(inodes)
  BY <1>2 DEF OnDiskOK
<1>6. OnDisk \subseteq OnDisk'
  BY <1>2, <1>3, <1>5, Evidence
<1> QED
  BY <1>2, <1>3, <1>4, <1>6

\* The first n sections are n parts, and with the next one they are n + 1.
LEMMA AboutCounts ==
  ASSUME NEW h, NEW u, NEW n \in Nat
  PROVE  Cardinality(About(h, u, n)) = n
<1> DEFINE f == [k \in 1..n |-> [by |-> h, section |-> k, about |-> u]]
<1>1. f \in Bijection(1..n, About(h, u, n))
  BY DEF Bijection, Injection, Surjection, IsInjective, About
<1>2. IsFiniteSet(1..n) /\ Cardinality(1..n) = n
  BY FS_Interval
<1> QED
  BY <1>1, <1>2, FS_Bijection DEF ExistsBijection

LEMMA AboutNext ==
  ASSUME NEW h \in Threads, NEW u \in Threads, NEW n \in Nat
  PROVE  /\ About(h, u, n + 1) = About(h, u, n) \cup {[by |-> h, section |-> n + 1, about |-> u]}
         /\ About(h, u, n) \subseteq PartSet
         /\ {p \in About(h, u, n) : p.by = h /\ p.section > 0} = About(h, u, n)
<1>1. 1..(n + 1) = 1..n \cup {n + 1}
  OBVIOUS
<1>2. \A p \in About(h, u, n) : p \in PartSet /\ p.by = h /\ p.section > 0
  BY DEF About, PartSet
<1> QED
  BY <1>1, <1>2 DEF About

LEMMA NextPathKeeps == ASSUME NEW h, NEW u, At1(h, u), NextPath(h) PROVE Keeps(h, u)
<1>1. /\ pc[h] = "path" /\ Goto(h, "open") /\ lastPath' = lastPath + 1
      /\ path' = [path EXCEPT ![h] = lastPath + 1] /\ UNCHANGED <<dir, inodes, fd>>
      /\ UNCHANGED <<frame, subject, ports, port, faults, monitors, handling, recrash, context, dead>>
  BY DEF NextPath, At, shared
<1>2. /\ Empty /\ ~recrash /\ Marked(h) /\ Knows(h, u) /\ OnDiskOK
  BY <1>1 DEF At1, HandledBy, SavedFirst, Marked, Fresh
<1>3. Alone(h, u)' /\ pc'[h] = "open"
  BY <1>1, AloneGoes DEF Busy, Fresh
<1>4. lastPath' = 1 /\ path'[h] = 1 /\ NoFile' /\ inodes' = <<>> /\ OnDiskOK'
  BY <1>1, <1>2, Two DEF Empty, OnDiskOK, NoFile, At1
<1>5. Marked(h)' /\ Knows(h, u)'
  BY <1>1, <1>2, <1>3
     DEF Marked, Knows, Unmarked, First, Before, Fresh, Again, Last, After
<1>6. SavedFirst(h, u)' /\ SavedAgain(h)'
  BY <1>1, <1>2, <1>3, <1>4
     DEF SavedFirst, SavedAgain, Marked, First, Before, Fresh, Again, Last, After
<1>7. OnDisk' = OnDisk
  BY <1>1 DEF OnDisk
<1> QED
  BY <1>1, <1>3, <1>4, <1>5, <1>6, <1>7 DEF Keeps, HandledBy

LEMMA OpenReportKeeps == ASSUME NEW h, NEW u, At1(h, u), OpenReport(h) PROVE Keeps(h, u)
<1>1. /\ pc[h] = "open" /\ Create(h, <<path[h], "json">>, "standard", "write")
      /\ UNCHANGED <<path, lastPath>>
      /\ UNCHANGED <<frame, subject, ports, port, faults, monitors, handling, recrash, context, dead>>
  BY DEF OpenReport, At, shared
<1>2. /\ lastPath = 1 /\ path[h] = 1 /\ NoFile /\ inodes = <<>>
      /\ ~recrash /\ Marked(h) /\ Knows(h, u) /\ OnDiskOK /\ h \in Threads
  BY <1>1, Two DEF At1, HandledBy, SavedFirst, Marked, Fresh
<1>3. TheReport \in Names
  BY FirstReport DEF At1
<1>4. dir[TheReport] = 0 /\ <<path[h], "json">> = TheReport /\ TheReport[1] # 0
  BY <1>2, <1>3 DEF NoFile, TheReport
<1>5. /\ inodes' = Append(inodes, Blank("standard"))
      /\ dir' = [dir EXCEPT ![TheReport] = Len(inodes) + 1]
      /\ fd' = [fd EXCEPT ![h] = Len(inodes) + 1] /\ Goto(h, "write")
  BY <1>1, <1>4 DEF Create
<1>6. /\ OnDisk \subseteq OnDisk' /\ OnDiskOK' /\ Len(inodes') = 1
      /\ inodes'[1] = Blank("standard") /\ dir'[TheReport] = 1 /\ fd'[h] = 1
      /\ \A m \in Names : m # TheReport => dir'[m] = 0
  <2>1. Len(inodes) = 0
    BY <1>2
  <2>2. /\ OnDisk \subseteq OnDisk' /\ OnDiskOK'
        /\ Len(inodes') = Len(inodes) + 1 /\ inodes'[Len(inodes')] = Blank("standard")
        /\ dir'[TheReport] = Len(inodes) + 1 /\ fd'[h] = Len(inodes) + 1
        /\ \A m \in Names : m # TheReport => dir'[m] = dir[m]
    BY <1>1, <1>2, <1>3, <1>4, <1>5, Created
  <2> QED
    BY <1>2, <2>1, <2>2 DEF NoFile
<1>7. Alone(h, u)' /\ pc'[h] = "write"
  BY <1>1, <1>5, AloneGoes DEF Busy, Fresh
<1>8. Told(h, u, 0)'
  BY <1>1, <1>2, <1>6 DEF Told, About, Blank
<1>9. Marked(h)' /\ Knows(h, u)'
  BY <1>1, <1>2, <1>7
     DEF Marked, Knows, Unmarked, First, Before, Fresh, Again, Last, After
<1>10. SavedFirst(h, u)' /\ SavedAgain(h)'
  <2>1. 0 \in 0..Sections
    BY CrashAssumption DEF CrashAssumption
  <2>2. \E n \in 0..Sections : Told(h, u, n)'
    BY <1>8, <2>1
  <2> QED
    BY <1>1, <1>2, <1>6, <1>7, <2>2
       DEF SavedFirst, SavedAgain, First, Before, Fresh, Again, Last, After, Marked
<1> QED
  BY <1>1, <1>2, <1>6, <1>7, <1>9, <1>10 DEF Keeps, HandledBy

LEMMA WriteSectionKeeps == ASSUME NEW h, NEW u, At1(h, u), WriteSection(h) PROVE Keeps(h, u)
<1>1. /\ pc[h] = "write" /\ UNCHANGED <<path, lastPath, dir, fd>>
      /\ UNCHANGED <<frame, subject, ports, port, faults, monitors, handling, recrash, context, dead>>
  BY DEF WriteSection, At, shared
<1>2. /\ fd[h] = 1 /\ ~recrash /\ Marked(h) /\ Knows(h, u) /\ OnDiskOK /\ Alone(h, u)
      /\ h \in Threads /\ u \in Threads
  BY <1>1, Two DEF At1, HandledBy, SavedFirst, Marked, Fresh
<1>3. PICK n \in 0..Sections : Told(h, u, n)
  BY <1>1 DEF At1, HandledBy, SavedFirst
<1>s. n \in Nat /\ Sections \in Nat
  BY CrashAssumption DEF CrashAssumption
<1>4. Written(h) = n
  <2>1. inodes[fd[h]].parts = About(h, u, n)
    BY <1>2, <1>3 DEF Told
  <2>2. {p \in About(h, u, n) : p.by = h /\ p.section > 0} = About(h, u, n)
    BY <1>2, <1>s, AboutNext
  <2>3. Cardinality(About(h, u, n)) = n
    BY <1>s, AboutCounts
  <2> QED
    BY <2>1, <2>2, <2>3 DEF Written
<1>5. context[MonitorOf(frame[h])].about = u
  BY <1>1, <1>2 DEF Knows, Fresh
<1>6. 1 \in DOMAIN inodes
  BY <1>2, <1>3 DEF Told, OnDiskOK
<1>7. CASE n < Sections
  <2> PICK X : X = {[by |-> h, section |-> n + 1, about |-> u]}
    OBVIOUS
  <2>1. inodes' = [inodes EXCEPT ![1].parts = @ \cup X] /\ UNCHANGED pc
    BY <1>2, <1>4, <1>5, <1>7 DEF WriteSection, Part
  <2>2. X \in SUBSET PartSet
    BY <1>2, <1>s DEF PartSet
  <2>3. Writes(1, X, FALSE)
    BY <1>2, <2>1, <2>2, AddParts DEF OnDiskOK
  <2>4. OnDisk \subseteq OnDisk' /\ OnDiskOK'
    BY <1>1, <1>2, <2>3, EvidenceWritten
  <2>5. Told(h, u, n + 1)'
    <3>1. inodes'[1].parts = About(h, u, n + 1)
      <4>1. inodes'[1].parts = About(h, u, n) \cup X
        BY <1>3, <1>6, <2>3 DEF Writes, Told
      <4>2. About(h, u, n + 1) = About(h, u, n) \cup X
        BY <1>2, <1>s, AboutNext
      <4> QED
        BY <4>1, <4>2
    <3> QED
      BY <1>1, <1>3, <1>6, <2>3, <3>1 DEF Writes, Told, About
  <2>6. \E k \in 0..Sections : Told(h, u, k)'
    BY <1>7, <1>s, <2>5
  <2>7. Alone(h, u)' /\ Marked(h)' /\ Knows(h, u)'
    BY <1>1, <1>2, <2>1 DEF Alone, Marked, Knows, Unmarked
  <2>8. SavedFirst(h, u)' /\ SavedAgain(h)'
    BY <1>1, <1>2, <2>1, <2>6
       DEF SavedFirst, SavedAgain, First, Before, Fresh, Again, Last, After, Marked
  <2> QED
    BY <1>1, <2>4, <2>7, <2>8 DEF Keeps, HandledBy, At1
<1>8. CASE n = Sections
  <2>1. inodes' = [inodes EXCEPT ![1].complete = TRUE] /\ Goto(h, "transaction")
    BY <1>2, <1>4, <1>8, <1>s DEF WriteSection
  <2>2. Writes(1, {}, TRUE)
    BY <1>2, <2>1, EndFile DEF OnDiskOK
  <2>3. OnDisk \subseteq OnDisk' /\ OnDiskOK'
    BY <1>1, <1>2, <2>2, EvidenceWritten
  <2>4. Full(h, u)'
    BY <1>1, <1>3, <1>6, <1>8, <2>2 DEF Writes, Told, About, Full
  <2>5. Alone(h, u)' /\ pc'[h] = "transaction"
    BY <1>1, <2>1, AloneGoes DEF Busy, Last
  <2>6. Marked(h)' /\ Knows(h, u)'
    BY <1>1, <1>2, <2>5
       DEF Marked, Knows, Unmarked, First, Before, Fresh, Again, Last, After
  <2>7. SavedFirst(h, u)' /\ SavedAgain(h)'
    BY <1>1, <1>2, <2>4, <2>5
       DEF SavedFirst, SavedAgain, First, Before, Fresh, Again, Last, After, Marked
  <2> QED
    BY <1>1, <2>3, <2>5, <2>6, <2>7 DEF Keeps, HandledBy, At1
<1> QED
  BY <1>3, <1>7, <1>8, <1>s

\* The second report is about whatever the first one has told.
LEMMA AgainGoes ==
  ASSUME NEW h, NEW u, At1(h, u), pc[h] \in Again,
         NEW l \in (Again \ {"rename"}) \cup {"transaction"}, Goto(h, l),
         UNCHANGED <<frame, subject, ports, port, faults, monitors, handling, recrash, context>>
  PROVE  /\ Alone(h, u)' /\ Marked(h)' /\ Knows(h, u)' /\ SavedFirst(h, u)' /\ pc'[h] = l
         /\ l \notin {"embed", "unlink"} => SavedAgain(h)'
<1>1. Alone(h, u)' /\ pc'[h] = l
  BY AloneGoes DEF Busy, Again, Last
<1>2. recrash /\ frame[h] # "skip" /\ Marked(h) /\ Knows(h, u)
  BY DEF At1, HandledBy, Marked, Again
<1>3. Marked(h)' /\ Knows(h, u)'
  BY <1>1, <1>2
     DEF Marked, Knows, Unmarked, First, Before, Fresh, Again, Last, After
<1>4. SavedFirst(h, u)'
  BY <1>1, <1>2
     DEF SavedFirst, First, Before, Fresh, Again, Last, After, Marked
<1>5. l \notin {"embed", "unlink"} => SavedAgain(h)'
  BY <1>1 DEF SavedAgain
<1> QED
  BY <1>1, <1>3, <1>4, <1>5

LEMMA CurrentNames ==
  ASSUME NEW h, NEW u, At1(h, u)
  PROVE  /\ Current("json") \in Names /\ Current("old") \in Names
         /\ Current("json") # Current("old") /\ Current("old")[2] = "old"
<1>1. {0, 1} \subseteq Reports
  BY FirstReport DEF At1
<1> QED
  BY <1>1 DEF At1, Current, Names

LEMMA RenameKeeps == ASSUME NEW h, NEW u, At1(h, u), Rename(h) PROVE Keeps(h, u)
<1>1. /\ pc[h] = "rename" /\ Goto(h, "reopen") /\ UNCHANGED <<path, lastPath, inodes, fd>>
      /\ UNCHANGED <<frame, subject, ports, port, faults, monitors, handling, recrash, context, dead>>
  BY DEF Rename, At, shared
<1>2. NoOld /\ OnDiskOK /\ lastPath \in {0, 1}
  BY <1>1 DEF At1, HandledBy, SavedAgain
<1>3. Alone(h, u)' /\ Marked(h)' /\ Knows(h, u)' /\ SavedFirst(h, u)' /\ SavedAgain(h)'
  BY <1>1, AgainGoes DEF Again
<1>4. OnDiskOK' /\ OnDisk \subseteq OnDisk'
  <2>1. CASE dir[Current("json")] = 0
    BY <1>1, <1>2, <2>1 DEF Rename, OnDiskOK, OnDisk
  <2>2. CASE dir[Current("json")] # 0
    <3>1. dir' = [dir EXCEPT ![Current("old")] = dir[Current("json")], ![Current("json")] = 0]
      BY <2>2 DEF Rename
    <3>2. /\ dir' \in [Names -> 0..Len(inodes)]
          /\ dir'[Current("old")] = dir[Current("json")]
          /\ \A m \in Names : m # Current("old") /\ m # Current("json") => dir'[m] = dir[m]
      <4>1. dir \in [Names -> 0..Len(inodes)] /\ 0 \in 0..Len(inodes)
        BY <1>2, FileType DEF OnDiskOK
      <4> QED
        BY <3>1, <4>1, CurrentNames
    <3>3. dir[Current("old")] = 0
      BY <1>2, CurrentNames DEF NoOld
    <3>4. OnDisk \subseteq OnDisk'
      BY <1>1, <2>2, <3>2, <3>3, CurrentNames, Evidence
    <3> QED
      BY <1>1, <1>2, <3>2, <3>4 DEF OnDiskOK
  <2> QED
    BY <2>1, <2>2
<1> QED
  BY <1>1, <1>2, <1>3, <1>4 DEF Keeps, HandledBy

LEMMA ReopenKeeps == ASSUME NEW h, NEW u, At1(h, u), Reopen(h) PROVE Keeps(h, u)
<1>1. /\ pc[h] = "reopen" /\ UNCHANGED <<path, lastPath>>
      /\ UNCHANGED <<frame, subject, ports, port, faults, monitors, handling, recrash, context, dead>>
  BY DEF Reopen, At, shared
<1>2. OnDiskOK /\ lastPath \in {0, 1} /\ h \in Threads
  BY Two DEF At1
<1>3. CASE lastPath # 0 /\ dir[Current("json")] = 0
  <2>1. /\ inodes' = Append(inodes, Blank("minimal"))
        /\ dir' = [dir EXCEPT ![Current("json")] = Len(inodes) + 1]
        /\ fd' = [fd EXCEPT ![h] = Len(inodes) + 1] /\ Goto(h, "embed")
    BY <1>3 DEF Reopen, Create, Current
  <2>2. /\ OnDisk \subseteq OnDisk' /\ OnDiskOK'
        /\ dir'[Current("json")] = Len(inodes) + 1 /\ fd'[h] = Len(inodes) + 1
    BY <1>1, <1>2, <1>3, <2>1, CurrentNames, Created
  <2>3. Alone(h, u)' /\ Marked(h)' /\ Knows(h, u)' /\ SavedFirst(h, u)' /\ pc'[h] = "embed"
    BY <1>1, <2>1, AgainGoes DEF Again
  <2>4. Len(inodes) + 1 # 0
    BY <1>2 DEF OnDiskOK
  <2>5. SavedAgain(h)'
    BY <1>1, <2>2, <2>3, <2>4 DEF SavedAgain, Current
  <2> QED
    BY <1>1, <1>2, <2>2, <2>3, <2>5 DEF Keeps, HandledBy
<1>4. CASE ~(lastPath # 0 /\ dir[Current("json")] = 0)
  <2>1. UNCHANGED <<inodes, dir, fd>> /\ Goto(h, "transaction")
    BY <1>4 DEF Reopen, Create, Current
  <2>2. Alone(h, u)' /\ Marked(h)' /\ Knows(h, u)' /\ SavedFirst(h, u)' /\ SavedAgain(h)'
    BY <1>1, <2>1, AgainGoes DEF Again
  <2>3. OnDiskOK' /\ OnDisk' = OnDisk
    BY <1>1, <1>2, <2>1 DEF OnDiskOK, OnDisk
  <2> QED
    BY <1>1, <1>2, <2>2, <2>3 DEF Keeps, HandledBy
<1> QED
  BY <1>3, <1>4

LEMMA EmbedKeeps == ASSUME NEW h, NEW u, At1(h, u), Embed(h) PROVE Keeps(h, u)
<1>1. /\ pc[h] = "embed" /\ Goto(h, "unlink") /\ UNCHANGED <<path, lastPath, dir, fd>>
      /\ UNCHANGED <<frame, subject, ports, port, faults, monitors, handling, recrash, context, dead>>
  BY DEF Embed, At, shared
<1>2. /\ OnDiskOK /\ lastPath \in {0, 1} /\ h \in Threads
      /\ fd[h] # 0 /\ dir[Current("json")] = fd[h]
  BY <1>1, Two DEF At1, HandledBy, SavedAgain
<1>3. /\ Alone(h, u)' /\ Marked(h)' /\ Knows(h, u)' /\ SavedFirst(h, u)' /\ pc'[h] = "unlink"
  BY <1>1, AgainGoes DEF Again
<1>4. CASE dir[Current("old")] = 0
  <2>1. inodes' = inodes
    BY <1>4 DEF Embed
  <2>2. OnDiskOK' /\ OnDisk' = OnDisk
    BY <1>1, <1>2, <2>1 DEF OnDiskOK, OnDisk
  <2>3. SavedAgain(h)'
    BY <1>1, <1>2, <1>3, <1>4 DEF SavedAgain, Current
  <2> QED
    BY <1>1, <1>2, <1>3, <2>2, <2>3 DEF Keeps, HandledBy
<1>5. CASE dir[Current("old")] # 0
  <2> PICK old : old = inodes[dir[Current("old")]].parts
    OBVIOUS
  <2>1. PICK X \in Beginnings(old) :
          /\ inodes' = [inodes EXCEPT ![fd[h]].parts = @ \cup X]
          /\ missed' = missed \cup (old \ X)
    BY <1>5 DEF Embed
  <2>2. fd[h] \in DOMAIN inodes /\ dir[Current("old")] \in DOMAIN inodes
    BY <1>2, <1>5, CurrentNames DEF OnDiskOK
  <2>3. X \in SUBSET PartSet
    <3>1. inodes[dir[Current("old")]] \in Inode
      BY <1>2, <2>2, FileType DEF OnDiskOK
    <3>2. X \subseteq old
      BY DEF Beginnings
    <3> QED
      BY <3>1, <3>2 DEF Inode
  <2>4. Writes(fd[h], X, FALSE)
    BY <1>2, <2>1, <2>3, AddParts DEF OnDiskOK
  <2>5. OnDisk \subseteq OnDisk' /\ OnDiskOK'
    BY <1>1, <1>2, <2>4, EvidenceWritten
  <2>6. inodes'[dir[Current("old")]].parts \subseteq inodes'[fd[h]].parts \cup missed'
    <3>1. CASE fd[h] = dir[Current("old")]
      BY <3>1
    <3>2. CASE fd[h] # dir[Current("old")]
      <4>1. inodes'[dir[Current("old")]].parts = old
        BY <1>2, <2>1, <3>2 DEF OnDiskOK
      <4>2. X \subseteq inodes'[fd[h]].parts
        BY <2>2, <2>4 DEF Writes
      <4> QED
        BY <2>1, <4>1, <4>2
    <3> QED
      BY <3>1, <3>2
  <2>7. SavedAgain(h)'
    BY <1>1, <1>2, <1>3, <2>6 DEF SavedAgain, Current
  <2> QED
    BY <1>1, <1>2, <1>3, <2>5, <2>7 DEF Keeps, HandledBy
<1> QED
  BY <1>4, <1>5

LEMMA UnlinkKeeps == ASSUME NEW h, NEW u, At1(h, u), Unlink(h) PROVE Keeps(h, u)
<1>1. /\ pc[h] = "unlink" /\ Goto(h, "rest") /\ UNCHANGED <<path, lastPath, inodes, missed, fd>>
      /\ dir' = [dir EXCEPT ![Current("old")] = 0]
      /\ UNCHANGED <<frame, subject, ports, port, faults, monitors, handling, recrash, context, dead>>
  BY DEF Unlink, At, shared
<1>2. /\ OnDiskOK /\ lastPath \in {0, 1} /\ fd[h] # 0 /\ dir[Current("json")] = fd[h]
      /\ dir[Current("old")] # 0 =>
           inodes[dir[Current("old")]].parts \subseteq inodes[fd[h]].parts \cup missed
  BY <1>1 DEF At1, HandledBy, SavedAgain
<1>3. /\ Alone(h, u)' /\ Marked(h)' /\ Knows(h, u)' /\ SavedFirst(h, u)' /\ SavedAgain(h)'
  BY <1>1, AgainGoes DEF Again
<1>4. \A m \in Names : m # Current("old") => dir'[m] = dir[m]
  BY <1>1, <1>2 DEF OnDiskOK
<1>5. OnDisk \subseteq OnDisk' \cup missed'
  <2> SUFFICES ASSUME NEW p \in OnDisk, p \notin missed PROVE p \in OnDisk'
    BY <1>1
  <2>1. PICK n \in Names : dir[n] # 0 /\ p \in inodes[dir[n]].parts
    BY DEF OnDisk
  <2>2. CASE n = Current("old")
    <3>1. p \in inodes[fd[h]].parts
      BY <1>2, <2>1, <2>2
    <3>2. dir'[Current("json")] = fd[h] /\ inodes' = inodes /\ Current("json") \in Names
      BY <1>1, <1>2, <1>4, CurrentNames
    <3> QED
      BY <1>2, <3>1, <3>2 DEF OnDisk
  <2>3. CASE n # Current("old")
    BY <1>1, <1>4, <2>1, <2>3 DEF OnDisk
  <2> QED
    BY <2>2, <2>3
<1>6. OnDiskOK'
  <2>1. dir \in [Names -> 0..Len(inodes)] /\ 0 \in 0..Len(inodes)
    BY <1>2, FileType DEF OnDiskOK
  <2>2. dir' \in [Names -> 0..Len(inodes)]
    BY <1>1, <2>1
  <2> QED
    BY <1>1, <1>2, <2>2 DEF OnDiskOK
<1> QED
  BY <1>1, <1>2, <1>3, <1>5, <1>6 DEF Keeps, HandledBy

LEMMA WriteRestKeeps == ASSUME NEW h, NEW u, At1(h, u), WriteRest(h) PROVE Keeps(h, u)
<1>1. /\ pc[h] = "rest" /\ Goto(h, "transaction") /\ UNCHANGED <<path, lastPath, dir, fd>>
      /\ UNCHANGED <<frame, subject, ports, port, faults, monitors, handling, recrash, context, dead>>
  BY DEF WriteRest, At, shared
<1>2. /\ OnDiskOK /\ lastPath \in {0, 1} /\ h \in Threads
      /\ frame[h] \in Frames /\ context \in Contexts
  BY <1>1, Two DEF At1, Kept, FlagsOK, Framed, Inside
<1>3. /\ Alone(h, u)' /\ Marked(h)' /\ Knows(h, u)' /\ SavedFirst(h, u)' /\ SavedAgain(h)'
  BY <1>1, AgainGoes DEF Again
<1>4. Part(h, 0) \in PartSet
  <2>1. MonitorOf(frame[h]) \in Monitors
    BY <1>2 DEF Frames, MonitorOf, Monitors
  <2>2. context[MonitorOf(frame[h])].about \in Threads \cup {Nobody}
    BY <1>2, <2>1 DEF Contexts
  <2> QED
    BY <1>2, <2>2 DEF Part, PartSet
<1>5. inodes' = [inodes EXCEPT ![fd[h]].parts = @ \cup {Part(h, 0)}, ![fd[h]].complete = TRUE]
  BY DEF WriteRest
<1>6. Writes(fd[h], {Part(h, 0)}, TRUE)
  BY <1>2, <1>4, <1>5, AddAndEnd DEF OnDiskOK
<1>7. OnDisk \subseteq OnDisk' /\ OnDiskOK'
  BY <1>1, <1>2, <1>6, EvidenceWritten
<1> QED
  BY <1>1, <1>2, <1>3, <1>7 DEF Keeps, HandledBy

-----------------------------------------------------------------------------
\* The steps that start a handler or end the process.

\* A step keeps what holds of the crash of u, and the evidence.
StaysLone(u) == Lone(u)' /\ OnDisk \subseteq OnDisk' \cup missed'

LEMMA KeepsLone ==
  ASSUME NEW h, NEW u, At1(h, u), ~dead, Keeps(h, u) PROVE StaysLone(u)
  BY DEF StaysLone, Lone, Keeps, At1, Kept, FlagsOK

\* The process may only die without a report of a crash in the reporter.
LEMMA DieLone ==
  ASSUME NEW h, NEW u, At1(h, u), Die, faults' \in {faults, faults + 1},
         UNCHANGED <<ports, port, monitors, handling, recrash, context, disk>>,
         faults' = 0 => Full(h, u)
  PROVE  StaysLone(u)
<1>1. UNCHANGED <<pc, frame, subject, path, fd, disk>> /\ faults \in Nat /\ h \in Threads
  BY Two DEF Die, thread, At1, Kept, FlagsOK
<1>2. /\ OnDiskOK' /\ OnDisk' = OnDisk /\ lastPath' = lastPath
      /\ (Empty' <=> Empty) /\ (NoOld' <=> NoOld) /\ (Full(h, u)' <=> Full(h, u))
  BY <1>1, DiskFrame DEF At1, disk
<1>3. Alone(h, u)' /\ Knows(h, u)'
  BY <1>1 DEF At1, HandledBy, Alone, Knows, Unmarked
<1>4. Marked(h)'
  BY <1>1 DEF At1, HandledBy, Marked
<1>5. SavedFirst(h, u)' /\ SavedAgain(h)'
  BY <1>1, <1>2 DEF At1, HandledBy, SavedFirst, SavedAgain, NoFile, Told, About, Current, disk
<1>6. faults' = 0 => Full(h, u)'
  BY <1>2
<1> QED
  BY <1>1, <1>2, <1>3, <1>4, <1>5, <1>6 DEF StaysLone, Lone, HandledBy, At1

\* A handler is entered: nothing on disk changes.
LEMMA EnterLone ==
  ASSUME NEW u \in App, NEW h \in {u, Primary}, OnDiskOK, lastPath \in {0, 1}, ~dead', disk' = disk,
         UNCHANGED <<path, fd>>, pc'[h] = "suspend",
         Alone(h, u)', Marked(h)', Unmarked',
         frame'[h] = "skip" => Empty, IF handling' THEN NoOld ELSE Empty
  PROVE  StaysLone(u)
<1>1. /\ OnDiskOK' /\ OnDisk' = OnDisk /\ lastPath' = lastPath
      /\ (Empty' <=> Empty) /\ (NoOld' <=> NoOld)
  BY DiskFrame DEF disk
<1>2. Knows(h, u)'
  BY DEF Knows, Fresh
<1>3. SavedFirst(h, u)' /\ SavedAgain(h)'
  BY <1>1 DEF SavedFirst, SavedAgain, First, Before, Fresh, Again, Last, After
<1> QED
  BY <1>1, <1>2, <1>3 DEF StaysLone, Lone, HandledBy

LEMMA UncaughtLone == ASSUME NEW h, NEW u, At1(h, u), ~dead, Uncaught(h) PROVE StaysLone(u)
<1>1. /\ pc[h] = "uncaught" /\ UNCHANGED <<shared, disk, faults>>
  BY DEF Uncaught, At
<1>2. /\ frame[h] = "skip" /\ h = u /\ monitors = Monitors /\ ~handling /\ ~recrash
      /\ Empty /\ Unmarked /\ OnDiskOK /\ lastPath \in {0, 1} /\ u \in App /\ Kept
  BY <1>1 DEF At1, HandledBy, Marked, Alone, SavedFirst, Knows, Frames, After, Busy
<1>3. Enter(h, "objc")
  BY <1>2 DEF Uncaught, Monitors
<1>4. pc'[h] = "suspend" /\ frame'[h] = "objc" /\ UNCHANGED <<path, fd, dead>>
      /\ \A t \in Threads : t # h => pc'[t] = pc[t]
  BY <1>2, <1>3, Two DEF Enter, Goto, Kept, Given, Typed
<1>5. Alone(h, u)'
  BY <1>1, <1>2, <1>4, Two DEF At1, HandledBy, Alone, Busy, First, shared
<1>6. Marked(h)'
  BY <1>1, <1>2, <1>4 DEF Marked, First, Before, Fresh, Again, Last, After, shared
<1> QED
  BY <1>1, <1>2, <1>4, <1>5, <1>6, EnterLone DEF Unmarked, shared

LEMMA RaiseLone == ASSUME NEW h, NEW u, At1(h, u), Raise(h) PROVE StaysLone(u)
<1>1. /\ pc[h] \in {"raise", "abort"} /\ UNCHANGED <<shared, disk, faults>>
      /\ \E s : Signal(h, s)
  BY DEF Raise, At
<1>2. frame[h] # "skip" /\ monitors = {} /\ (recrash => faults > 0) /\ (~recrash => Full(h, u))
  BY <1>1 DEF At1, HandledBy, Marked, SavedFirst, After, First, Before
<1>3. Die
  BY <1>1, <1>2 DEF Signal
<1> QED
  BY <1>1, <1>2, <1>3, DieLone DEF shared, At1, Kept, FlagsOK

LEMMA SignalLone ==
  ASSUME NEW h, NEW u, At1(h, u), NEW v \in Threads, SignalAfterReply(v) PROVE StaysLone(u)
<1>1. PICK t \in Reserved : pc[t] = "done" /\ subject[t] = v
  BY DEF SignalAfterReply
<1>2. pc[v] = "kernel" /\ Signal(v, "fault") /\ UNCHANGED <<shared, disk, faults>>
  BY DEF SignalAfterReply
<1>3. t = h
  BY <1>1, OnlyOne DEF Threads, Busy, After
<1>4. frame[h] # "skip" /\ monitors = {} /\ (recrash => faults > 0) /\ (~recrash => Full(h, u))
  BY <1>1, <1>3 DEF At1, HandledBy, Marked, SavedFirst, After, First, Before
<1>5. Die
  BY <1>2, <1>4 DEF Signal
<1> QED
  BY <1>2, <1>4, <1>5, DieLone DEF shared, At1, Kept, FlagsOK

LEMMA CrashInHandlerLone ==
  ASSUME NEW h, NEW u, At1(h, u), CrashInHandler(h) PROVE StaysLone(u)
<1>1. /\ pc[h] \in Fragile /\ faults' = faults + 1 /\ Fault(h) /\ ~dead
      /\ UNCHANGED <<monitors, ports, handling, recrash, context, disk>>
  BY DEF CrashInHandler, Alive
<1>2. /\ faults \in Nat /\ handling /\ OnDiskOK /\ lastPath \in {0, 1} /\ u \in App
      /\ monitors = (IF recrash THEN {} ELSE Monitors) /\ h \in Threads
      /\ pc \in [Threads -> Labels] /\ frame \in [Threads -> Frames \cup {"none"}]
      /\ Alone(h, u) /\ Marked(h) /\ Knows(h, u) /\ Kept /\ frame[h] # "skip"
  BY <1>1, Two
     DEF At1, Kept, FlagsOK, Given, Typed, HandledBy, Marked, Fragile, Before, Fresh, Again, Last
<1>3. ~recrash => NoOld /\ Unmarked
  <2>1. ASSUME NEW n, Told(h, u, n) PROVE NoOld
    BY <2>1 DEF Told, NoOld, TheReport
  <2>2. NoFile => NoOld
    BY DEF NoFile, NoOld
  <2> QED
    BY <1>1, <1>2, <2>1, <2>2
       DEF At1, HandledBy, SavedFirst, Fragile, Before, Fresh, Again, Last, Empty, Full, Knows, Marked
<1>4. CASE h = u
  <2>1. ports /\ port = <<>> /\ ~recrash /\ pc[Primary] = "listen" /\ pc[Secondary] = "parked"
    BY <1>2, <1>4, Two DEF Alone, Marked, At1
  <2>2. port' = <<u>> /\ Goto(h, "kernel") /\ UNCHANGED <<frame, path, fd, dead>>
    BY <1>1, <1>4, <2>1 DEF Fault
  <2>3. pc'[u] = "kernel" /\ \A t \in Threads : t # u => pc'[t] = pc[t]
    BY <1>2, <1>4, <2>2 DEF Goto
  <2>4. OnDiskOK' /\ OnDisk' = OnDisk /\ lastPath' = lastPath /\ (NoOld' <=> NoOld)
    BY <1>1, <1>2, <2>2, DiskFrame DEF disk
  <2>5. Knocking(u)'
    BY <1>1, <1>2, <1>3, <1>4, <2>1, <2>2, <2>3, <2>4, Two DEF Knocking, Alone, Unmarked
  <2> QED
    BY <1>1, <1>2, <2>2, <2>4, <2>5 DEF StaysLone, Lone
<1>5. CASE h # u
  <2>1. h = Primary /\ pc[u] = "kernel" /\ ~ports
    BY <1>1, <1>2, <1>5 DEF At1, Alone, Kept, Given, Arming, Early, Fragile
  <2>2. Signal(h, "fault") /\ port' = port
    BY <1>1, <2>1 DEF Fault
  <2>3. CASE recrash
    BY <1>1, <1>2, <2>2, <2>3, DieLone DEF Signal
  <2>4. CASE ~recrash
    <3>1. frame[h] # "fault" /\ monitors = Monitors
      BY <1>1, <1>2, <2>4 DEF Marked, Fragile, First
    <3>2. Enter(h, "fault")
      BY <2>2, <3>1 DEF Signal, Monitors
    <3>3. /\ pc'[h] = "suspend" /\ frame'[h] = "fault" /\ UNCHANGED <<path, fd, dead, subject>>
          /\ \A t \in Threads : t # h => pc'[t] = pc[t]
      BY <1>2, <3>2 DEF Enter, Goto
    <3>4. Alone(h, u)'
      BY <1>1, <1>2, <2>1, <2>2, <3>3, <1>5, Two DEF Alone, Busy, First, At1
    <3>5. Marked(h)'
      BY <1>1, <1>2, <2>1, <2>4, <3>1, <3>3
         DEF Marked, First, Before, Fresh, Again, Last, After
    <3> QED
      BY <1>1, <1>2, <1>3, <2>1, <2>4, <3>3, <3>4, <3>5, EnterLone DEF Unmarked
  <2> QED
    BY <2>3, <2>4
<1> QED
  BY <1>4, <1>5

-----------------------------------------------------------------------------
\* Who may step at all.
LEMMA Active ==
  ASSUME NEW t \in Threads, Step(t)
  PROVE  \/ Receive(t) /\ pc[t] = "listen" /\ port # <<>>
         \/ SignalAfterReply(t) /\ \E r \in Reserved : pc[r] = "done"
         \/ pc[t] \in Busy
<1> USE DEF At, Busy, First, Before, Fresh, Again, Last, After
<1>1. CASE Receive(t)
  BY <1>1 DEF Receive
<1>2. CASE SignalAfterReply(t)
  BY <1>2 DEF SignalAfterReply
<1>3. CASE Monitoring(t) /\ ~Receive(t)
  BY <1>3 DEF Monitoring, Suspend, Test, Mark, Switch, Malloc, FillContext, Handle
<1>4. CASE Reporting(t)
  BY <1>4 DEF Reporting, OnCrash, NextPath, OpenReport, WriteSection, Rename, Reopen, Embed, Unlink,
     WriteRest, SaveTransaction
<1>5. CASE Leaving(t) /\ ~SignalAfterReply(t)
  BY <1>5 DEF Leaving, Finish, Resume, Uncaught, Raise, Reply
<1> QED
  BY <1>1, <1>2, <1>3, <1>4, <1>5 DEF Step

\* A process that is gone does nothing more.
LEMMA DeadEnds == ASSUME Next PROVE ~dead
<1> USE DEF At, Alive
<1>1. ASSUME NEW t \in Threads, Monitoring(t) PROVE ~dead
  BY <1>1 DEF Monitoring, Receive, Suspend, Test, Mark, Switch, Malloc, FillContext, Handle
<1>2. ASSUME NEW t \in Threads, Reporting(t) PROVE ~dead
  BY <1>2 DEF Reporting, OnCrash, NextPath, OpenReport, WriteSection, Rename, Reopen, Embed, Unlink,
     WriteRest, SaveTransaction
<1>3. ASSUME NEW t \in Threads, Leaving(t) PROVE ~dead
  BY <1>3 DEF Leaving, Finish, Resume, Uncaught, Raise, Reply, SignalAfterReply
<1>4. ASSUME NEW t \in Threads, CrashInHandler(t) PROVE ~dead
  BY <1>4 DEF CrashInHandler
<1>5. ASSUME NEW t \in App, NEW kind \in {"fault", "abort", "objc", "cpp"}, Crash(t, kind) PROVE ~dead
  BY <1>5 DEF Crash
<1>6. ASSUME NEW t \in App, TakeHeap(t) \/ ReleaseHeap(t) PROVE ~dead
  BY <1>6 DEF TakeHeap, ReleaseHeap
<1> QED
  BY <1>1, <1>2, <1>3, <1>4, <1>5, <1>6 DEF Next, Step

\* Only a crash adds to the threads that crashed.
LEMMA CrashedSame ==
  ASSUME NEW t \in Threads, Step(t) \/ CrashInHandler(t) PROVE crashed' = crashed
<1>1. ASSUME Monitoring(t) PROVE crashed' = crashed
  BY <1>1 DEF Monitoring, Receive, Suspend, Test, Mark, Switch, Malloc, FillContext, Handle
<1>2. ASSUME Reporting(t) PROVE crashed' = crashed
  BY <1>2 DEF Reporting, OnCrash, NextPath, OpenReport, WriteSection, Rename, Reopen, Embed, Unlink,
     WriteRest, SaveTransaction
<1>3. ASSUME Leaving(t) PROVE crashed' = crashed
  BY <1>3 DEF Leaving, Finish, Resume, Uncaught, Raise, Reply, SignalAfterReply
<1> QED
  BY <1>1, <1>2, <1>3 DEF Step, CrashInHandler

LEMMA HandledStep ==
  ASSUME NEW h, NEW u, At1(h, u), NEW t \in Threads, Step(t) \/ CrashInHandler(t)
  PROVE  StaysLone(u)
<1>1. ~dead
  BY DeadEnds DEF Next
<1>2. CASE CrashInHandler(t)
  <2>1. t = h
    BY <1>2, OnlyOne DEF CrashInHandler, Fragile, Busy, Before, Fresh, Again, Last
  <2> QED
    BY <1>2, <2>1, CrashInHandlerLone
<1>3. CASE SignalAfterReply(t)
  BY <1>3, SignalLone
<1>4. CASE Step(t) /\ ~SignalAfterReply(t)
  <2>1. port = <<>>
    BY DEF At1, HandledBy, Alone
  <2>2. t = h
    BY <1>4, <2>1, Active, OnlyOne
  <2>3. ~Receive(h)
    BY <2>1 DEF Receive
  <2>4. ASSUME Keeps(h, u) PROVE StaysLone(u)
    BY <1>1, <2>4, KeepsLone
  <2>5. CASE Monitoring(h)
    BY <2>3, <2>4, <2>5, SuspendTestMark, SwitchToOnCrash DEF Monitoring
  <2>6. CASE Reporting(h)
    <3>1. CASE OnCrash(h) \/ SaveTransaction(h)
      BY <2>4, <3>1, SwitchToOnCrash, TransactionToReply
    <3>2. CASE NextPath(h) \/ OpenReport(h) \/ WriteSection(h)
      BY <2>4, <3>2, NextPathKeeps, OpenReportKeeps, WriteSectionKeeps
    <3>3. CASE Rename(h) \/ Reopen(h) \/ Embed(h) \/ Unlink(h) \/ WriteRest(h)
      BY <2>4, <3>3, RenameKeeps, ReopenKeeps, EmbedKeeps, UnlinkKeeps, WriteRestKeeps
    <3> QED
      BY <2>6, <3>1, <3>2, <3>3 DEF Reporting
  <2>7. CASE Leaving(h)
    <3>1. CASE Finish(h) \/ Resume(h) \/ Reply(h)
      BY <2>4, <3>1, TransactionToReply
    <3>2. CASE Uncaught(h) \/ Raise(h)
      BY <1>1, <3>2, UncaughtLone, RaiseLone
    <3> QED
      BY <1>4, <2>2, <2>7, <3>1, <3>2 DEF Leaving
  <2> QED
    BY <1>4, <2>2, <2>5, <2>6, <2>7 DEF Step
<1> QED
  BY <1>2, <1>3, <1>4

\* A crash announced at the port: only the primary thread can go on, and receives it.
LEMMA KnockingStep ==
  ASSUME Kept, NEW u \in App, OnDiskOK, lastPath \in {0, 1}, Knocking(u),
         NEW t \in Threads, Step(t) \/ CrashInHandler(t)
  PROVE  StaysLone(u)
<1>1. ~dead
  BY DeadEnds DEF Next
<1>2. \A v \in Threads : pc[v] \in {"run", "kernel", "listen", "parked"}
                         /\ (pc[v] = "listen" => v = Primary)
  BY Names2 DEF Knocking, Threads, Reserved
<1>3. \A v \in Threads : pc[v] \notin Busy /\ pc[v] \notin Fragile /\ pc[v] # "done"
  BY <1>2 DEF Busy, First, Before, Fresh, Again, Last, After, Fragile
<1>4. Receive(t)
  BY <1>3, Active DEF CrashInHandler, Threads
<1>5. t = Primary
  BY <1>2, <1>4 DEF Receive, At
<1>6. /\ subject' = [subject EXCEPT ![t] = u] /\ port' = <<>> /\ Goto(t, "suspend")
      /\ frame' = [frame EXCEPT ![t] = "mach"]
      /\ UNCHANGED <<path, fd, dead, monitors, ports, handling, recrash, context, disk, faults>>
  <2>1. Head(port) = u /\ Tail(port) = <<>> /\ "mach" \in monitors
    BY DEF Knocking, Monitors
  <2> QED
    BY <1>4, <2>1 DEF Receive
<1>7. /\ pc'[t] = "suspend" /\ frame'[t] = "mach" /\ subject'[t] = u
      /\ \A v \in Threads : v # t => pc'[v] = pc[v]
  BY <1>6 DEF Goto, Kept, Given, Typed
<1>8. Alone(Primary, u)'
  BY <1>5, <1>6, <1>7, Names2 DEF Alone, Knocking, Busy, First
<1>9. Marked(Primary)'
  BY <1>5, <1>6, <1>7 DEF Marked, Knocking, First, Before, Fresh, Again, Last, After
<1>10. Unmarked' /\ IF handling' THEN NoOld ELSE Empty
  BY <1>6 DEF Knocking, Unmarked
<1> QED
  BY <1>1, <1>5, <1>6, <1>7, <1>8, <1>9, <1>10, EnterLone

\* Before any crash, no handler has a step, ...
LEMMA UntouchedStep ==
  ASSUME Untouched, NEW t \in Threads, Step(t) \/ CrashInHandler(t) PROVE FALSE
<1>1. \A v \in Threads : pc[v] \in {"run", "listen", "parked"}
  BY DEF Untouched, Threads, Reserved
<1>2. \A v \in Threads : pc[v] \notin Busy /\ pc[v] \notin Fragile /\ pc[v] # "done"
  BY <1>1 DEF Busy, First, Before, Fresh, Again, Last, After, Fragile
<1> QED
  BY <1>2, Active DEF CrashInHandler, Threads, Untouched

\* ... and the first crash of a thread is announced or handled.
LEMMA CrashLone ==
  ASSUME Kept, Untouched, NEW u \in App, NEW kind \in {"fault", "abort", "objc", "cpp"},
         Crash(u, kind)
  PROVE  StaysLone(u)
<1>1. /\ UNCHANGED <<monitors, ports, handling, recrash, context, disk, faults>>
      /\ u \in Threads /\ OnDiskOK /\ lastPath = 0 /\ Empty /\ ~dead
      /\ pc \in [Threads -> Labels] /\ frame \in [Threads -> Frames \cup {"none"}]
  BY Names2 DEF Crash, Untouched, Empty, Kept, Given, Typed
<1>2. CASE kind = "fault"
  <2>1. port' = <<u>> /\ Goto(u, "kernel") /\ UNCHANGED <<frame, path, fd, dead>>
    BY <1>2 DEF Crash, Fault, Untouched
  <2>2. pc'[u] = "kernel" /\ \A t \in Threads : t # u => pc'[t] = pc[t]
    BY <1>1, <2>1 DEF Goto
  <2>3. OnDiskOK' /\ OnDisk' = OnDisk /\ lastPath' = lastPath /\ (Empty' <=> Empty)
    BY <1>1, <2>1, DiskFrame DEF disk
  <2>4. Knocking(u)'
    BY <1>1, <2>1, <2>2, <2>3, Names2 DEF Knocking, Unmarked, Untouched
  <2> QED
    BY <1>1, <2>1, <2>3, <2>4 DEF StaysLone, Lone
<1>3. CASE kind # "fault"
  <2>1. port' = port /\ \E f \in {"abort", "skip", "cpp"} : Enter(u, f)
    BY <1>3 DEF Crash, Signal, Untouched, Monitors
  <2> PICK f \in {"abort", "skip", "cpp"} : Enter(u, f)
    BY <2>1
  <2>2. /\ pc'[u] = "suspend" /\ frame'[u] = f /\ UNCHANGED <<path, fd, dead>>
        /\ \A t \in Threads : t # u => pc'[t] = pc[t]
    BY <1>1 DEF Enter, Goto
  <2>3. Alone(u, u)'
    BY <1>1, <2>1, <2>2, Names2 DEF Alone, Untouched, Busy, First
  <2>4. Marked(u)'
    BY <1>1, <2>2 DEF Marked, Untouched, First, Before, Fresh, Again, Last, After
  <2>5. Unmarked' /\ ~handling'
    BY <1>1 DEF Unmarked, Untouched
  <2> QED
    BY <1>1, <2>2, <2>3, <2>4, <2>5, EnterLone
<1> QED
  BY <1>2, <1>3

-----------------------------------------------------------------------------
\* The invariant.
Single == Kept /\ Solo

\* Memory is allocated and freed, or nothing happens.
LEMMA SameElse ==
  ASSUME UNCHANGED <<thread, shared, disk, crashed, faults, dead>>
  PROVE  /\ Untouched => Untouched'
         /\ \A u \in App : Lone(u) => Lone(u)'
         /\ OnDisk' = OnDisk
<1>1. /\ UNCHANGED <<pc, frame, subject, path, fd, monitors, ports, port, handling, recrash, context>>
      /\ UNCHANGED <<lastPath, dir, inodes, missed>>
  BY DEF thread, shared, disk
<1>2. /\ (OnDiskOK' <=> OnDiskOK) /\ (Empty' <=> Empty) /\ (NoOld' <=> NoOld)
      /\ (\A h, u : Full(h, u)' <=> Full(h, u)) /\ OnDisk' = OnDisk
  BY <1>1, DiskFrame DEF disk
<1>3. Untouched => Untouched'
  BY <1>1, <1>2 DEF Untouched, Unmarked
<1>4. ASSUME NEW u \in App, Lone(u) PROVE Lone(u)'
  <2>1. CASE Knocking(u)
    BY <1>1, <1>2, <1>4, <2>1 DEF Lone, Knocking, Unmarked
  <2>2. ASSUME NEW h \in {u, Primary}, HandledBy(h, u) PROVE Lone(u)'
    <3>1. Alone(h, u)' /\ Marked(h)' /\ Knows(h, u)'
      BY <1>1, <2>2 DEF HandledBy, Alone, Marked, Knows, Unmarked
    <3>2. SavedFirst(h, u)' /\ SavedAgain(h)'
      BY <1>1, <1>2, <2>2
         DEF HandledBy, SavedFirst, SavedAgain, NoFile, Told, About, Current
    <3> QED
      BY <1>1, <1>2, <1>4, <3>1, <3>2 DEF Lone, HandledBy
  <2> QED
    BY <1>4, <2>1, <2>2 DEF Lone
<1> QED
  BY <1>2, <1>3, <1>4

\* A thread whose crash is handled does not crash itself once more.
LEMMA NoSecond ==
  ASSUME NEW u \in App, Lone(u) PROVE pc[u] # "run"
  BY DEF Lone, Knocking, HandledBy, Alone, Busy, First, Before, Fresh, Again, Last, After

\* One step, for a thread u that is the only one to have crashed after it.
LEMMA LoneStep ==
  ASSUME Single, [Next]_vars, NEW u \in App, crashed' = {u}
  PROVE  StaysLone(u)
<1>1. crashed \subseteq App /\ Kept
  BY DEF Single, Kept, FlagsOK
<1>2. CASE UNCHANGED <<thread, shared, disk, crashed, faults, dead>>
  BY <1>2, SameElse DEF Single, Solo, StaysLone
<1>3. ASSUME NEW t \in Threads, Step(t) \/ CrashInHandler(t) PROVE StaysLone(u)
  <2>1. crashed = {u}
    BY <1>3, CrashedSame
  <2>2. Lone(u)
    BY <2>1 DEF Single, Solo
  <2>3. CASE Knocking(u)
    BY <1>1, <1>3, <2>2, <2>3, KnockingStep DEF Lone
  <2>4. ASSUME NEW h \in {u, Primary}, HandledBy(h, u) PROVE StaysLone(u)
    BY <1>1, <1>3, <2>2, <2>4, HandledStep DEF At1, Lone
  <2> QED
    BY <2>2, <2>3, <2>4 DEF Lone
<1>4. ASSUME NEW t \in App, NEW kind \in {"fault", "abort", "objc", "cpp"}, Crash(t, kind)
      PROVE  StaysLone(u)
  <2>1. crashed' = crashed \cup {t} /\ pc[t] = "run"
    BY <1>4 DEF Crash, At
  <2>2. t = u /\ crashed \subseteq {u}
    BY <2>1
  <2>3. crashed # {u}
    BY <2>1, <2>2, NoSecond DEF Single, Solo
  <2>4. Untouched
    BY <2>2, <2>3 DEF Single, Solo
  <2> QED
    BY <1>1, <1>4, <2>2, <2>4, CrashLone
<1>5. ASSUME NEW t \in App, TakeHeap(t) \/ ReleaseHeap(t) PROVE StaysLone(u)
  BY <1>5, <1>2 DEF TakeHeap, ReleaseHeap
<1>6. CASE UNCHANGED vars
  BY <1>2, <1>6 DEF vars
<1> QED
  BY <1>3, <1>4, <1>5, <1>6 DEF Next

\* One step after which no thread has crashed.
LEMMA QuietStep ==
  ASSUME Single, [Next]_vars, crashed' = {}
  PROVE  Untouched' /\ OnDisk' = OnDisk
<1>2. CASE UNCHANGED <<thread, shared, disk, crashed, faults, dead>>
  BY <1>2, SameElse DEF Single, Solo
<1>3. ASSUME NEW t \in Threads, Step(t) \/ CrashInHandler(t) PROVE FALSE
  BY <1>3, CrashedSame, UntouchedStep DEF Single, Solo
<1>4. ASSUME NEW t \in App, NEW kind \in {"fault", "abort", "objc", "cpp"}, Crash(t, kind) PROVE FALSE
  BY <1>4 DEF Crash
<1>5. CASE \E t \in App : TakeHeap(t) \/ ReleaseHeap(t)
  BY <1>5, <1>2 DEF TakeHeap, ReleaseHeap
<1>6. CASE UNCHANGED vars
  BY <1>2, <1>6 DEF vars
<1> QED
  BY <1>3, <1>4, <1>5, <1>6 DEF Next

LEMMA InitSingle == Init => Single
<1> SUFFICES ASSUME Init PROVE Single
  OBVIOUS
<1>1. Kept
  BY InitKept
<1>2. crashed = {} /\ Empty
  BY DEF Init, Empty, NoFile
<1>3. OnDiskOK
  <2>1. inodes = <<>> /\ Len(inodes) = 0
    BY DEF Init
  <2>2. inodes \in Seq(Inode)
    BY <2>1
  <2> QED
    BY <2>1, <2>2 DEF Init, OnDiskOK
<1>4. Untouched
  BY <1>2, <1>3, Names2 DEF Init, Untouched, Unmarked
<1> QED
  BY <1>1, <1>2, <1>4 DEF Single, Solo

LEMMA NextSingle == Single /\ [Next]_vars => Single'
<1> SUFFICES ASSUME Single, [Next]_vars PROVE Single'
  OBVIOUS
<1>1. Kept'
  BY NextKept DEF Single
<1>2. Solo'
  BY LoneStep, QuietStep DEF Solo, StaysLone
<1> QED
  BY <1>1, <1>2 DEF Single

\* The report is the one the run describes.
LEMMA LoneReported == Single => LoneCrashReported
<1> SUFFICES ASSUME Single, dead, faults = 0, NEW t \in App, crashed = {t}
             PROVE  \E n \in Names :
                      /\ Files = {n} /\ n[2] = "json"
                      /\ inodes[dir[n]].kind = "standard" /\ inodes[dir[n]].complete
                      /\ {p.about : p \in inodes[dir[n]].parts} = {t}
                      /\ Cardinality(inodes[dir[n]].parts) = Sections
  BY DEF LoneCrashReported
<1>1. PICK h \in Threads : Full(h, t)
  BY DEF Single, Solo, Lone
<1>2. TheReport \in Names
  BY FirstReport
<1>3. Files = {TheReport} /\ TheReport[2] = "json"
  BY <1>1, <1>2 DEF Full, Told, Files, TheReport
<1>4. Sections \in Nat /\ 1 \in 1..Sections
  BY CrashAssumption DEF CrashAssumption
<1>5. {p.about : p \in About(h, t, Sections)} = {t}
  <2>1. \A p \in About(h, t, Sections) : p.about = t
    BY DEF About
  <2>2. \E p \in About(h, t, Sections) : TRUE
    BY <1>4 DEF About
  <2> QED
    BY <2>1, <2>2
<1>6. Cardinality(About(h, t, Sections)) = Sections
  BY <1>4, AboutCounts
<1>7. /\ dir[TheReport] = 1 /\ inodes[1].kind = "standard" /\ inodes[1].complete
      /\ inodes[1].parts = About(h, t, Sections)
  BY <1>1 DEF Full, Told
<1> QED
  BY <1>2, <1>3, <1>5, <1>6, <1>7

\* A lone crash is reported: when the process is gone after the crash of one thread, and
\* the reporter did not crash, there is exactly one report, complete, with every section,
\* and all of it is about that thread.
THEOREM LoneCrashAlwaysReported == Spec => []LoneCrashReported
<1>1. Single => LoneCrashReported
  BY LoneReported
<1> QED
  BY <1>1, InitSingle, NextSingle, PTL DEF Spec

\* However often the reporter of a lone crash crashes itself, nothing that is on disk gets lost
\* but what a copy that ended early has left out.
THEOREM EvidenceAlwaysKept == Spec => EvidenceKept
<1>1. ASSUME Single, [Next]_vars
      PROVE  [Cardinality(crashed') <= 1 => OnDisk \subseteq OnDisk' \cup missed']_vars
  <2> SUFFICES ASSUME Cardinality(crashed') <= 1 PROVE OnDisk \subseteq OnDisk' \cup missed'
    OBVIOUS
  <2>1. crashed' \subseteq App
    BY <1>1, NextKept DEF Single, Kept, FlagsOK
  <2>2. IsFiniteSet(crashed') /\ Cardinality(crashed') \in Nat
    BY <2>1, CrashAssumption, FS_Subset, FS_CardinalityType DEF CrashAssumption
  <2>3. crashed' = {} \/ \E u \in App : crashed' = {u}
    <3>1. Cardinality(crashed') = 0 \/ Cardinality(crashed') = 1
      BY <2>2
    <3>2. Cardinality(crashed') = 0 => crashed' = {}
      BY <2>2, FS_EmptySet
    <3>3. Cardinality(crashed') = 1 => \E u : crashed' = {u}
      BY <2>2, FS_Singleton
    <3> QED
      BY <2>1, <3>1, <3>2, <3>3
  <2> QED
    BY <1>1, <2>3, LoneStep, QuietStep DEF StaysLone
<1> QED
  BY <1>1, InitSingle, NextSingle, PTL DEF Spec, EvidenceKept

-----------------------------------------------------------------------------
\* Any number of crashes.  A handler holds the threads it has suspended until it resumes
\* them; one that crashes lets go of what it held, for the proof's sake, although they
\* stay suspended - but the primary thread does not.
Between == {"test", "mark", "switch", "malloc", "context", "handle", "oncrash", "path", "open",
            "write", "rename", "reopen", "embed", "unlink", "rest", "transaction", "finish"}
Beyond  == Between \ {"test", "mark"}
Holds(t, u) ==
  /\ u # t
  /\ \/ pc[t] \in Between
     \/ pc[t] = "suspend" /\ u \notin todo[t]
     \/ pc[t] = "suspend" /\ t = Primary /\ frame[t] = "fault"
     \/ pc[t] = "resume" /\ u \in todo[t]
Holders(u) == {t \in Threads : Holds(t, u)}

\* A thread is suspended as often as it is held, and no two hold each other.
Lists   == /\ todo \in [Threads -> SUBSET App] /\ stopped \in [App -> Nat]
           /\ \A t \in Threads : t \notin todo[t]
Counted == \A u \in App : stopped[u] >= Cardinality(Holders(u))
NotBoth == \A t, u \in App : ~(Holds(t, u) /\ Holds(u, t))
Holding == Lists /\ Counted /\ NotBoth

\* The flags: a context tells of a crash in the reporter only if there was one.
NotedSo   == (recrash => handling) /\ \A m \in Monitors : context[m].recrash => recrash
IsNoted(t) == context[MonitorOf(frame[t])].recrash

\* Before the first mark only an application's thread and the primary one can be about to
\* set it, and what is announced at the port, or handled, waits in the kernel.
ToTheMark  == {"run", "kernel", "parked", "listen", "suspend", "test", "mark", "resume", "uncaught"}
BeforeMark ==
  ~handling =>
    /\ lastPath = 0 /\ monitors = Monitors /\ pc[Secondary] = "parked"
    /\ \A t \in Threads : /\ pc[t] \in ToTheMark
                          /\ pc[t] = "resume" => frame[t] = "skip"
    /\ \A i \in DOMAIN port : pc[port[i]] = "kernel"
    /\ pc[Primary] # "listen" => subject[Primary] \in App /\ pc[subject[Primary]] = "kernel"

\* The frames of the application's threads, and the places of the other two.
AppPlaces == \A s \in App : frame[s] # "mach" /\ pc[s] \notin {"listen", "parked"}
SecondaryPlaces ==
  /\ pc[Secondary] \in {"parked", "listen", "suspend", "resume", "reply", "done"}
                      \cup (Between \ {"malloc", "path"})
  /\ frame[Secondary] \in {"none", "mach"}
  /\ pc[Secondary] \in Between \ {"test"} => recrash
  /\ pc[Secondary] \in Beyond => monitors = {}
  /\ pc[Secondary] = "oncrash" => context["mach"].recrash
PrimaryPlaces ==
  /\ pc[Primary] \in {"listen", "suspend", "resume", "reply", "done", "raise"} \cup (Between \ {"malloc"})
  /\ frame[Primary] \in {"none", "mach", "fault"}
  /\ frame[Primary] = "fault" =>
       /\ handling /\ pc[Primary] \notin {"switch", "path"}
       /\ pc[Primary] \in Between \ {"test"} => recrash
       /\ pc[Primary] \in Beyond => monitors = {}
       /\ pc[Primary] = "oncrash" => context["signal"].recrash

\* While the primary thread may crash and go on to the signal handler, no thread that it
\* has suspended is about to write a second report.
Nesting ==
  \/ pc[Primary] \in Beyond /\ frame[Primary] = "mach" /\ monitors # {}
  \/ pc[Primary] \in {"suspend", "test", "mark", "context", "handle"} /\ frame[Primary] = "fault"
NoneNoted == Nesting => \A s \in App : pc[s] = "oncrash" => ~IsNoted(s)

\* The threads that may yet write a report of their own.
Writers == {t \in Threads : \/ pc[t] = "path"
                            \/ pc[t] = "oncrash" /\ ~IsNoted(t)
                            \/ pc[t] \in {"mark", "switch", "malloc", "context", "handle"} /\ ~recrash}
Enough  == /\ lastPath \in Nat /\ lastPath + Cardinality(Writers) <= 2
           /\ lastPath + Cardinality(Writers) <= Cardinality(App)

Crowd == /\ Kept /\ Holding /\ NotedSo /\ BeforeMark /\ AppPlaces /\ SecondaryPlaces
         /\ PrimaryPlaces /\ NoneNoted /\ Enough

-----------------------------------------------------------------------------
LEMMA FiniteThreads == IsFiniteSet(Threads) /\ IsFiniteSet(App) /\ Cardinality(App) \in Nat
<1>1. IsFiniteSet(App)
  BY CrashAssumption DEF CrashAssumption
<1>2. IsFiniteSet(Reserved)
  <2>1. IsFiniteSet({} \cup {Primary})
    BY FS_EmptySet, FS_AddElement
  <2>2. IsFiniteSet(({} \cup {Primary}) \cup {Secondary})
    BY <2>1, FS_AddElement
  <2>3. Reserved = ({} \cup {Primary}) \cup {Secondary}
    BY DEF Reserved
  <2> QED
    BY <2>2, <2>3
<1> QED
  BY <1>1, <1>2, FS_Union, FS_CardinalityType DEF Threads

LEMMA FiniteParts ==
  /\ \A u : IsFiniteSet(Holders(u)) /\ Cardinality(Holders(u)) \in Nat
  /\ IsFiniteSet(Writers) /\ Cardinality(Writers) \in Nat
<1>1. (\A u : Holders(u) \subseteq Threads) /\ Writers \subseteq Threads
  BY DEF Holders, Writers
<1> QED
  BY <1>1, FiniteThreads, FS_Subset, FS_CardinalityType

LEMMA FiniteNext ==
  /\ \A u : IsFiniteSet(Holders(u)') /\ Cardinality(Holders(u)') \in Nat
  /\ IsFiniteSet(Writers') /\ Cardinality(Writers') \in Nat
<1>1. (\A u : Holders(u)' \subseteq Threads) /\ Writers' \subseteq Threads
  BY DEF Holders, Writers
<1> QED
  BY <1>1, FiniteThreads, FS_Subset, FS_CardinalityType

\* A thread that is held does not run.
LEMMA HeldStands ==
  ASSUME Holding, NEW t \in Threads, NEW u \in App, Holds(t, u) PROVE ~Alive(u)
<1>1. t \in Holders(u)
  BY DEF Holders
<1>2. Cardinality(Holders(u)) # 0
  BY <1>1, FiniteParts, FS_EmptySet
<1>3. stopped[u] >= Cardinality(Holders(u)) /\ stopped[u] \in Nat
  BY DEF Holding, Counted, Lists
<1> QED
  BY <1>2, <1>3, FiniteParts DEF Alive

\* Nobody holds more than before.
LEMMA HoldsLess ==
  ASSUME Holding, Lists', stopped' = stopped,
         \A s \in Threads : \A u \in App : Holds(s, u)' => Holds(s, u)
  PROVE  Holding'
<1>1. ASSUME NEW u \in App PROVE stopped'[u] >= Cardinality(Holders(u)')
  <2>1. Holders(u)' \subseteq Holders(u)
    BY DEF Holders
  <2>2. Cardinality(Holders(u)') <= Cardinality(Holders(u))
    BY <2>1, FiniteParts, FS_Subset
  <2>3. stopped[u] \in Nat /\ stopped[u] >= Cardinality(Holders(u))
    BY DEF Holding, Lists, Counted
  <2> QED
    BY <2>2, <2>3, FiniteParts, FiniteNext
<1>2. Counted'
  BY <1>1 DEF Counted
<1>3. App \subseteq Threads
  BY DEF Threads
<1>4. NotBoth'
  BY <1>3 DEF Holding, NotBoth
<1> QED
  BY <1>2, <1>4 DEF Holding

\* No more threads may write than before.
LEMMA WritersLess ==
  ASSUME Enough, lastPath' = lastPath, Writers' \subseteq Writers PROVE Enough'
<1>1. Cardinality(Writers') <= Cardinality(Writers)
  BY FiniteParts, FS_Subset
<1> QED
  BY <1>1, FiniteParts, FiniteNext, FiniteThreads DEF Enough

-----------------------------------------------------------------------------
\* What the types say, and where a thread is after it has gone on.
LEMMA CrowdTypes ==
  ASSUME Crowd
  PROVE  /\ pc \in [Threads -> Labels] /\ frame \in [Threads -> Frames \cup {"none"}]
         /\ subject \in [Threads -> Threads \cup {Nobody}]
         /\ todo \in [Threads -> SUBSET App] /\ stopped \in [App -> Nat]
         /\ context \in Contexts /\ monitors \subseteq Monitors
         /\ handling \in BOOLEAN /\ recrash \in BOOLEAN /\ lastPath \in Nat /\ port \in Seq(App)
         /\ \A t \in Threads : pc[t] \in Inside => frame[t] \in Frames
  BY DEF Crowd, Kept, Given, Typed, FlagsOK, Framed, Holding, Lists, Enough, OfTheApp

\* The others are where they were.
LEMMA OneGoes ==
  ASSUME Crowd, NEW t \in Threads, NEW l, Goto(t, l)
  PROVE  /\ pc'[t] = l /\ \A s \in Threads : s # t => pc'[s] = pc[s]
         /\ \A s \in Threads : s = t \/ s # t
  BY CrowdTypes DEF Goto

\* Nothing that matters changes.
LEMMA CrowdIdle ==
  ASSUME Crowd, Kept',
         UNCHANGED <<pc, frame, todo, subject, stopped, monitors, port, handling, recrash, context, lastPath>>
  PROVE  Crowd'
<1>1. Holding'
  <2>1. Lists'
    BY DEF Crowd, Holding, Lists
  <2>2. \A s \in Threads : \A u \in App : Holds(s, u)' => Holds(s, u)
    BY DEF Holds
  <2> QED
    BY <2>1, <2>2, HoldsLess DEF Crowd
<1>2. NotedSo' /\ BeforeMark' /\ AppPlaces' /\ SecondaryPlaces' /\ PrimaryPlaces' /\ NoneNoted'
  BY DEF Crowd, NotedSo, BeforeMark, ToTheMark, AppPlaces, SecondaryPlaces, PrimaryPlaces,
       NoneNoted, Nesting, IsNoted
<1>3. Enough'
  BY WritersLess DEF Crowd, Writers, IsNoted
<1> QED
  BY <1>1, <1>2, <1>3 DEF Crowd

\* What a handler does between its callback and its end.
Late == {"open", "write", "rename", "reopen", "embed", "unlink", "rest", "transaction", "finish"}
LEMMA CrowdLate ==
  ASSUME Crowd, Kept', NEW t \in Threads, pc[t] \in Late, NEW l \in Late, Goto(t, l),
         UNCHANGED <<frame, todo, subject, shared, lastPath>>
  PROVE  Crowd'
<1>1. pc'[t] = l /\ \A s \in Threads : s # t => pc'[s] = pc[s]
  BY OneGoes
<1> USE DEF shared
<1>2. Holding'
  <2>1. Lists'
    BY DEF Crowd, Holding, Lists
  <2>2. \A s \in Threads : \A u \in App : Holds(s, u)' => Holds(s, u)
    BY <1>1 DEF Holds, Late, Between
  <2> QED
    BY <2>1, <2>2, HoldsLess DEF Crowd
<1>3. NotedSo'
  BY DEF Crowd, NotedSo
<1>4. BeforeMark'
  BY DEF Crowd, BeforeMark, ToTheMark, Late
<1>5. AppPlaces'
  BY <1>1 DEF Crowd, AppPlaces, Late, Threads
<1>6. SecondaryPlaces'
  BY <1>1, Names2 DEF Crowd, SecondaryPlaces, Late, Between, Beyond
<1>7. PrimaryPlaces'
  BY <1>1, Names2 DEF Crowd, PrimaryPlaces, Late, Between, Beyond
<1>8. NoneNoted'
  BY <1>1, Names2 DEF Crowd, NoneNoted, Nesting, IsNoted, Late, Between, Beyond
<1>9. Writers' \subseteq Writers
  BY <1>1 DEF Writers, IsNoted, Late
<1> QED
  BY <1>2, <1>3, <1>4, <1>5, <1>6, <1>7, <1>8, <1>9, WritersLess DEF Crowd

LEMMA InitCrowd == Init => Crowd
<1> SUFFICES ASSUME Init PROVE Crowd
  OBVIOUS
<1>1. pc[Primary] = "listen" /\ pc[Secondary] = "parked" /\ \A t \in App : pc[t] = "run"
  BY Names2 DEF Init
<1>2. Holding
  <2>1. Lists
    BY Names2 DEF Init, Lists
  <2>2. \A t \in Threads : \A u : ~Holds(t, u)
    BY DEF Init, Holds, Between
  <2>3. \A u : Holders(u) = {}
    BY <2>2 DEF Holders
  <2>4. Counted
    <3>1. \A u : Cardinality(Holders(u)) = 0
      BY <2>3, FS_EmptySet
    <3>2. \A u \in App : stopped[u] = 0
      BY DEF Init
    <3> QED
      BY <3>1, <3>2 DEF Counted
  <2>5. NotBoth
    BY <2>2, Names2 DEF NotBoth
  <2> QED
    BY <2>1, <2>4, <2>5 DEF Holding
<1>3. NotedSo
  BY DEF Init, NotedSo
<1>4. BeforeMark
  BY <1>1 DEF Init, BeforeMark, ToTheMark
<1>5. AppPlaces /\ NoneNoted
  BY <1>1, Names2 DEF Init, AppPlaces, NoneNoted
<1>6. SecondaryPlaces /\ PrimaryPlaces
  BY <1>1, Names2 DEF Init, SecondaryPlaces, PrimaryPlaces, Between, Beyond
<1>7. Enough
  <2>1. Writers = {}
    BY DEF Init, Writers
  <2> QED
    BY <2>1, FS_EmptySet, FiniteThreads DEF Init, Enough
<1> QED
  BY <1>2, <1>3, <1>4, <1>5, <1>6, <1>7, InitKept DEF Crowd

\* A handler is entered: by a thread of the application that does not wait for a reply,
\* or by the primary thread, whose own handler has crashed.
LEMMA CrowdEnter ==
  ASSUME Crowd, Kept', NEW t \in Threads, NEW f \in Frames, Enter(t, f), UNCHANGED <<shared, lastPath>>,
         \/ t \in App /\ f # "mach" /\ (handling \/ pc[t] # "kernel")
         \/ t = Primary /\ f = "fault" /\ pc[t] \in Beyond /\ frame[t] = "mach" /\ monitors # {}
  PROVE  Crowd'
<1>1. pc'[t] = "suspend" /\ \A s \in Threads : s # t => pc'[s] = pc[s]
  BY OneGoes DEF Enter
<1>2. /\ frame'[t] = f /\ \A s \in Threads : s # t => frame'[s] = frame[s]
      /\ todo'[t] = App \ {t} /\ \A s \in Threads : s # t => todo'[s] = todo[s]
      /\ subject' = subject
  BY CrowdTypes DEF Enter
<1> USE DEF shared
<1>3. Holding'
  <2>1. Lists'
    BY <1>2 DEF Crowd, Holding, Lists, Enter
  <2>2. ASSUME NEW s \in Threads, NEW u \in App, Holds(s, u)' PROVE Holds(s, u)
    <3>1. CASE s = t
      BY <1>1, <1>2, <2>2, <3>1, Names2 DEF Holds, Beyond, Between
    <3>2. CASE s # t
      BY <1>1, <1>2, <2>2, <3>2 DEF Holds
    <3> QED
      BY <3>1, <3>2
  <2> QED
    BY <2>1, <2>2, HoldsLess DEF Crowd
<1>4. NotedSo'
  BY DEF Crowd, NotedSo
<1>5. BeforeMark'
  <2> SUFFICES ASSUME ~handling PROVE BeforeMark'
    BY DEF BeforeMark, ToTheMark
  <2>1. pc[t] # "kernel" /\ pc[t] \notin Beyond
    BY Names2 DEF Crowd, BeforeMark, ToTheMark, Beyond, Between
  <2>2. t \in App
    BY <2>1
  <2>3. \A i \in DOMAIN port : port[i] # t /\ port[i] \in Threads
    BY <2>1, CrowdTypes, Names2 DEF Crowd, BeforeMark, ToTheMark
  <2>4. subject[Primary] \in App /\ pc[subject[Primary]] = "kernel" => pc'[subject[Primary]] = "kernel"
    BY <1>1, <2>1, Names2
  <2>5. \A s \in Threads : /\ pc'[s] \in ToTheMark
                           /\ pc'[s] = "resume" => frame'[s] = "skip"
    BY <1>1, <1>2 DEF Crowd, BeforeMark, ToTheMark
  <2> QED
    BY <1>1, <1>2, <2>2, <2>3, <2>4, <2>5, Names2 DEF Crowd, BeforeMark, ToTheMark
<1>6. AppPlaces'
  BY <1>1, <1>2, Names2 DEF Crowd, AppPlaces
<1>7. SecondaryPlaces'
  BY <1>1, <1>2, Names2 DEF Crowd, SecondaryPlaces
<1>8. PrimaryPlaces'
  <2>1. CASE t = Primary
    <3>1. handling
      BY <2>1, Names2 DEF Crowd, BeforeMark, ToTheMark, Beyond, Between
    <3> QED
      BY <1>1, <1>2, <2>1, <3>1, Names2 DEF PrimaryPlaces, Between, Beyond
  <2>2. CASE t # Primary
    BY <1>1, <1>2, <2>2, Names2 DEF Crowd, PrimaryPlaces
  <2> QED
    BY <2>1, <2>2
<1>9. NoneNoted'
  BY <1>1, <1>2, Names2 DEF Crowd, NoneNoted, Nesting, IsNoted
<1>10. Writers' \subseteq Writers
  BY <1>1, <1>2 DEF Writers, IsNoted
<1> QED
  BY <1>3, <1>4, <1>5, <1>6, <1>7, <1>8, <1>9, <1>10, WritersLess DEF Crowd

\* A fault of a thread of the application is announced, and the thread waits.
LEMMA CrowdKernel ==
  ASSUME Crowd, Kept', NEW t \in App, pc[t] # "kernel", Goto(t, "kernel"), port' = Append(port, t),
         handling \/ pc[t] = "run",
         UNCHANGED <<frame, todo, subject, stopped, monitors, handling, recrash, context, lastPath>>
  PROVE  Crowd'
<1>1. pc'[t] = "kernel" /\ \A s \in Threads : s # t => pc'[s] = pc[s]
  BY OneGoes, Names2
<1>2. Holding'
  <2>1. Lists'
    BY DEF Crowd, Holding, Lists
  <2>2. \A s \in Threads : \A u \in App : Holds(s, u)' => Holds(s, u)
    BY <1>1 DEF Holds, Between
  <2> QED
    BY <2>1, <2>2, HoldsLess DEF Crowd
<1>3. NotedSo'
  BY DEF Crowd, NotedSo
<1>4. BeforeMark'
  <2> SUFFICES ASSUME ~handling PROVE BeforeMark'
    BY DEF BeforeMark, ToTheMark
  <2>1. \A s \in Threads : /\ pc'[s] \in ToTheMark
                           /\ pc'[s] = "resume" => frame'[s] = "skip"
    BY <1>1 DEF Crowd, BeforeMark, ToTheMark
  <2>2. \A i \in DOMAIN port' : pc'[port'[i]] = "kernel"
    <3>1. port \in Seq(App) /\ \A i \in DOMAIN port : pc[port[i]] = "kernel"
      BY CrowdTypes DEF Crowd, BeforeMark, ToTheMark
    <3>2. \A i \in DOMAIN port : pc'[port[i]] = "kernel"
      BY <1>1, <3>1, Names2
    <3> QED
      BY <1>1, <3>1, <3>2
  <2>3. pc'[Primary] # "listen" => subject[Primary] \in App /\ pc'[subject[Primary]] = "kernel"
    BY <1>1, Names2 DEF Crowd, BeforeMark, ToTheMark
  <2> QED
    BY <1>1, <2>1, <2>2, <2>3, Names2 DEF Crowd, BeforeMark, ToTheMark
<1>5. AppPlaces'
  BY <1>1, Names2 DEF Crowd, AppPlaces
<1>6. SecondaryPlaces'
  BY <1>1, Names2 DEF Crowd, SecondaryPlaces
<1>7. PrimaryPlaces'
  BY <1>1, Names2 DEF Crowd, PrimaryPlaces
<1>8. NoneNoted'
  BY <1>1, Names2 DEF Crowd, NoneNoted, Nesting, IsNoted
<1>9. Writers' \subseteq Writers
  BY <1>1 DEF Writers, IsNoted
<1> QED
  BY <1>2, <1>3, <1>4, <1>5, <1>6, <1>7, <1>8, <1>9, WritersLess DEF Crowd

LEMMA CrowdReceive == ASSUME Crowd, Kept', NEW t \in Threads, Receive(t) PROVE Crowd'
<1> USE DEF At
<1>1. /\ UNCHANGED <<stopped, monitors, handling, recrash, context, lastPath>> /\ pc[t] = "listen"
      /\ pc'[t] \in {"suspend", "reply"} /\ \A s \in Threads : s # t => pc'[s] = pc[s]
  BY CrowdTypes DEF Receive, Goto, disk
<1>2. /\ t \in Reserved /\ port \in Seq(App) /\ port # <<>> /\ Head(port) \in App
      /\ subject'[t] = Head(port) /\ \A s \in Threads : s # t => subject'[s] = subject[s]
  BY CrowdTypes DEF Receive, Crowd, AppPlaces, Threads
<1>3. /\ \A s \in Threads : s # t => frame'[s] = frame[s] /\ todo'[s] = todo[s]
      /\ pc'[t] = "suspend" => frame'[t] = "mach" /\ todo'[t] = App
      /\ pc'[t] = "reply" => frame'[t] = frame[t] /\ todo'[t] = todo[t] /\ "mach" \notin monitors
      /\ todo' \in [Threads -> SUBSET App]
  <2>1. CASE "mach" \in monitors
    BY <2>1, CrowdTypes DEF Receive, Goto
  <2>2. CASE "mach" \notin monitors
    BY <2>2, CrowdTypes DEF Receive, Goto
  <2> QED
    BY <2>1, <2>2
<1>4. Holding'
  <2>1. Lists'
    BY <1>1, <1>2, <1>3, Names2 DEF Crowd, Holding, Lists, Reserved
  <2>2. \A s \in Threads : \A u \in App : Holds(s, u)' => Holds(s, u)
    BY <1>1, <1>3 DEF Holds, Between
  <2> QED
    BY <1>1, <2>1, <2>2, HoldsLess DEF Crowd
<1>5. NotedSo'
  BY <1>1 DEF Crowd, NotedSo
<1>6. BeforeMark'
  <2> SUFFICES ASSUME ~handling PROVE BeforeMark'
    BY <1>1 DEF BeforeMark, ToTheMark
  <2>1. t = Primary /\ pc'[t] = "suspend"
    BY <1>1, <1>2, <1>3 DEF Crowd, BeforeMark, ToTheMark, Reserved, Monitors
  <2>2. \A s \in Threads : /\ pc'[s] \in ToTheMark
                           /\ pc'[s] = "resume" => frame'[s] = "skip"
    BY <1>1, <1>3, <2>1 DEF Crowd, BeforeMark, ToTheMark
  <2>3. \A i \in DOMAIN port : pc'[port[i]] = "kernel"
    BY <1>1, <1>2, <2>1, Names2 DEF Crowd, BeforeMark, ToTheMark
  <2>4. \A i \in DOMAIN port' : pc'[port'[i]] = "kernel"
    <3>1. port' = Tail(port)
      BY DEF Receive
    <3>2. \A i \in DOMAIN port' : i + 1 \in DOMAIN port /\ port'[i] = port[i + 1]
      BY <1>2, <3>1
    <3> QED
      BY <2>3, <3>2
  <2>5. pc'[Head(port)] = "kernel"
    BY <1>2, <2>3
  <2> QED
    BY <1>1, <1>2, <2>1, <2>2, <2>4, <2>5, Names2 DEF Crowd, BeforeMark, ToTheMark
<1>7. AppPlaces'
  BY <1>1, <1>2, <1>3, Names2 DEF Crowd, AppPlaces, Reserved
<1>8. SecondaryPlaces'
  BY <1>1, <1>2, <1>3, Names2 DEF Crowd, SecondaryPlaces, Between, Beyond
<1>9. PrimaryPlaces'
  BY <1>1, <1>2, <1>3, Names2 DEF Crowd, PrimaryPlaces, Between, Beyond
<1>10. NoneNoted'
  BY <1>1, <1>2, <1>3, Names2 DEF Crowd, NoneNoted, Nesting, IsNoted, Reserved, Beyond, Between
<1>11. Writers' \subseteq Writers
  BY <1>1, <1>3 DEF Writers, IsNoted
<1> QED
  BY <1>1, <1>4, <1>5, <1>6, <1>7, <1>8, <1>9, <1>10, <1>11, WritersLess DEF Crowd

LEMMA CrowdSuspend == ASSUME Crowd, Kept', NEW t \in Threads, Suspend(t) PROVE Crowd'
<1> USE DEF At
<1>1. /\ UNCHANGED <<frame, subject, monitors, port, handling, recrash, context, lastPath>>
      /\ pc[t] = "suspend" /\ Alive(t) /\ \A s \in Threads : s # t => pc'[s] = pc[s]
  BY CrowdTypes DEF Suspend, Goto, disk
<1>2. CASE \E u \in todo[t] : /\ stopped' = [stopped EXCEPT ![u] = @ + 1]
                              /\ todo' = [todo EXCEPT ![t] = @ \ {u}] /\ UNCHANGED pc
  <2> PICK u \in todo[t] : /\ stopped' = [stopped EXCEPT ![u] = @ + 1]
                           /\ todo' = [todo EXCEPT ![t] = @ \ {u}] /\ UNCHANGED pc
    BY <1>2
  <2>1. /\ u \in App /\ u # t /\ stopped' \in [App -> Nat] /\ stopped'[u] = stopped[u] + 1
        /\ \A v \in App : v # u => stopped'[v] = stopped[v]
    BY CrowdTypes DEF Crowd, Holding, Lists
  <2>2. todo'[t] = todo[t] \ {u} /\ \A s \in Threads : s # t => todo'[s] = todo[s]
    BY CrowdTypes
  <2>3. Lists'
    BY <2>1, <2>2, CrowdTypes DEF Crowd, Holding, Lists
  <2>4. \A s \in Threads : \A v \in App : Holds(s, v)' => Holds(s, v) \/ (s = t /\ v = u)
    BY <1>1, <2>2 DEF Holds
  <2>5. ASSUME NEW v \in App PROVE stopped'[v] >= Cardinality(Holders(v)')
    <3>1. stopped[v] >= Cardinality(Holders(v)) /\ stopped[v] \in Nat /\ stopped'[v] \in Nat
      BY <2>1, CrowdTypes DEF Crowd, Holding, Counted
    <3>2. CASE v = u
      <4>1. Holders(v)' \subseteq Holders(v) \cup {t}
        BY <2>4 DEF Holders
      <4>2. /\ Cardinality(Holders(v) \cup {t}) <= Cardinality(Holders(v)) + 1
            /\ IsFiniteSet(Holders(v) \cup {t}) /\ Cardinality(Holders(v) \cup {t}) \in Nat
        <5>1. IsFiniteSet(Holders(v)) /\ Cardinality(Holders(v)) \in Nat
          BY FiniteParts
        <5>2. /\ IsFiniteSet(Holders(v) \cup {t})
              /\ Cardinality(Holders(v) \cup {t})
                   = IF t \in Holders(v) THEN Cardinality(Holders(v)) ELSE Cardinality(Holders(v)) + 1
          BY <5>1, FS_AddElement
        <5> QED
          BY <5>1, <5>2
      <4>3. Cardinality(Holders(v)') <= Cardinality(Holders(v) \cup {t})
        BY <4>1, <4>2, FS_Subset
      <4> QED
        BY <2>1, <3>1, <3>2, <4>2, <4>3, FiniteParts, FiniteNext
    <3>3. CASE v # u
      <4>1. Holders(v)' \subseteq Holders(v)
        BY <2>4, <3>3 DEF Holders
      <4>2. Cardinality(Holders(v)') <= Cardinality(Holders(v))
        BY <4>1, FiniteParts, FS_Subset
      <4> QED
        BY <2>1, <3>1, <3>3, <4>2, FiniteParts, FiniteNext
    <3> QED
      BY <3>2, <3>3
  <2>6. NotBoth'
    <3>1. t \in App => ~Holds(u, t)
      BY <1>1, <2>1, HeldStands, Names2 DEF Crowd
    <3> QED
      BY <2>1, <2>4, <3>1, Names2 DEF Crowd, Holding, NotBoth
  <2>7. Counted'
    BY <2>5 DEF Counted
  <2>8. Holding'
    BY <2>3, <2>6, <2>7 DEF Holding
  <2>9. NotedSo' /\ BeforeMark' /\ AppPlaces' /\ SecondaryPlaces' /\ PrimaryPlaces' /\ NoneNoted'
    BY <1>1 DEF Crowd, NotedSo, BeforeMark, ToTheMark, AppPlaces, SecondaryPlaces, PrimaryPlaces,
       NoneNoted, Nesting, IsNoted
  <2>10. Writers' \subseteq Writers
    BY <1>1 DEF Writers, IsNoted
  <2> QED
    BY <1>1, <2>8, <2>9, <2>10, WritersLess DEF Crowd
<1>3. CASE todo[t] = {} /\ UNCHANGED stopped
           /\ IF frame[t] = "skip" THEN Goto(t, "resume") /\ todo' = [todo EXCEPT ![t] = App \ {t}]
                                   ELSE Goto(t, "test") /\ UNCHANGED todo
  <2>1. /\ pc'[t] = (IF frame[t] = "skip" THEN "resume" ELSE "test")
        /\ \A s \in Threads : s # t => todo'[s] = todo[s]
        /\ todo' \in [Threads -> SUBSET App] /\ t \notin todo'[t]
    BY <1>3, CrowdTypes DEF Goto
  <2>2. Holding'
    <3>1. Lists'
      BY <1>3, <2>1 DEF Crowd, Holding, Lists
    <3>2. \A s \in Threads : \A v \in App : Holds(s, v)' => Holds(s, v)
      BY <1>1, <1>3, <2>1 DEF Holds
    <3> QED
      BY <1>3, <3>1, <3>2, HoldsLess DEF Crowd
  <2>3. NotedSo'
    BY <1>1 DEF Crowd, NotedSo
  <2>4. BeforeMark'
    <3> SUFFICES ASSUME ~handling PROVE BeforeMark'
      BY <1>1 DEF BeforeMark, ToTheMark
    <3>1. \A s \in Threads : /\ pc'[s] \in ToTheMark
                             /\ pc'[s] = "resume" => frame'[s] = "skip"
      BY <1>1, <2>1 DEF Crowd, BeforeMark, ToTheMark
    <3>2. \A i \in DOMAIN port : pc'[port[i]] = "kernel"
      BY <1>1, CrowdTypes, Names2 DEF Crowd, BeforeMark, ToTheMark
    <3> QED
      BY <1>1, <3>1, <3>2, Names2 DEF Crowd, BeforeMark, ToTheMark
  <2>5. AppPlaces'
    BY <1>1, <2>1, Names2 DEF Crowd, AppPlaces
  <2>6. SecondaryPlaces'
    BY <1>1, <2>1, Names2 DEF Crowd, SecondaryPlaces, Between, Beyond
  <2>7. PrimaryPlaces'
    BY <1>1, <2>1, Names2 DEF Crowd, PrimaryPlaces, Between, Beyond
  <2>8. NoneNoted'
    BY <1>1, <2>1, Names2 DEF Crowd, NoneNoted, Nesting, IsNoted, Between, Beyond
  <2>9. Writers' \subseteq Writers
    BY <1>1, <2>1 DEF Writers, IsNoted
  <2> QED
    BY <1>1, <2>2, <2>3, <2>4, <2>5, <2>6, <2>7, <2>8, <2>9, WritersLess DEF Crowd
<1> QED
  BY <1>2, <1>3 DEF Suspend

\* Of two threads that could be about to set the mark for the first time, one is the
\* primary, which acts for a third.
LEMMA FirstWriters ==
  ASSUME Crowd, ~handling, NEW W \in SUBSET Threads,
         \A s \in W : pc[s] \in {"test", "mark"}
  PROVE  Cardinality(W) <= Cardinality(App) /\ Cardinality(W) <= 2
<1>1. IsFiniteSet(W) /\ Cardinality(W) \in Nat /\ IsFiniteSet(App) /\ Cardinality(App) \in Nat
  BY FiniteThreads, FS_Subset, FS_CardinalityType
<1>2. Secondary \notin W
  BY DEF Crowd, BeforeMark, ToTheMark
<1>3. \A a, b \in W \cap App : a = b
  <2> SUFFICES ASSUME NEW a \in W \cap App, NEW b \in W \cap App, a # b PROVE FALSE
    OBVIOUS
  <2>1. Holds(a, b) /\ Holds(b, a)
    BY DEF Holds, Between
  <2> QED
    BY <2>1 DEF Crowd, Holding, NotBoth
<1>4. ASSUME NEW a, W \subseteq {a} PROVE Cardinality(W) <= 1
  <2>1. IsFiniteSet({a}) /\ Cardinality({a}) = 1
    BY FS_Singleton
  <2>2. Cardinality(W) <= Cardinality({a})
    BY <1>4, <2>1, FS_Subset
  <2> QED
    BY <2>1, <2>2
<1>5. ASSUME NEW a \in App PROVE 1 <= Cardinality(App)
  <2>1. {a} \subseteq App /\ Cardinality({a}) = 1
    BY FS_Singleton
  <2> QED
    BY <1>1, <2>1, FS_Subset
<1>6. ASSUME Primary \in W PROVE subject[Primary] \in App /\ pc[subject[Primary]] = "kernel"
  BY <1>6 DEF Crowd, BeforeMark, ToTheMark
<1>7. CASE Primary \notin W /\ W # {}
  <2> PICK a \in W : TRUE
    BY <1>7
  <2>1. a \in App /\ W \subseteq {a}
    BY <1>2, <1>3, <1>7 DEF Threads, Reserved
  <2> QED
    BY <1>1, <1>4, <1>5, <2>1
<1>8. CASE W = {}
  BY <1>1, <1>8, FS_EmptySet
<1>9. CASE W = {Primary}
  BY <1>1, <1>4, <1>5, <1>6, <1>9
<1>10. CASE Primary \in W /\ W # {Primary}
  <2> PICK a \in W : a # Primary
    BY <1>10
  <2>1. a \in App /\ W \subseteq {a, Primary}
    BY <1>2, <1>3 DEF Threads, Reserved
  <2> PICK k : k = subject[Primary]
    OBVIOUS
  <2>2. k \in App /\ k # a
    BY <1>6, <1>10
  <2>3. /\ IsFiniteSet({a, Primary}) /\ Cardinality({a, Primary}) <= 2
        /\ Cardinality({a, k}) = 2 /\ Cardinality({a, Primary}) \in Nat
    <3>1. IsFiniteSet({a}) /\ Cardinality({a}) = 1
      BY FS_Singleton
    <3>2. /\ {a, Primary} = {a} \cup {Primary} /\ {a, k} = {a} \cup {k}
          /\ Primary \notin {a} /\ k \notin {a}
      BY <2>2
    <3>3. IsFiniteSet({a} \cup {Primary}) /\ Cardinality({a} \cup {Primary}) = 1 + 1
      BY <3>1, <3>2, FS_AddElement
    <3>4. Cardinality({a} \cup {k}) = 1 + 1
      BY <3>1, <3>2, FS_AddElement
    <3> QED
      BY <3>2, <3>3, <3>4
  <2>4. Cardinality(W) <= Cardinality({a, Primary})
    BY <2>1, <2>3, FS_Subset
  <2>5. Cardinality({a, k}) <= Cardinality(App)
    BY <1>1, <2>1, <2>2, FS_Subset
  <2> QED
    BY <1>1, <2>3, <2>4, <2>5
<1> QED
  BY <1>7, <1>8, <1>9, <1>10

LEMMA CrowdTest == ASSUME Crowd, Kept', NEW t \in Threads, Test(t) PROVE Crowd'
<1> USE DEF At
<1>1. /\ UNCHANGED <<frame, subject, todo, stopped, monitors, port, handling, context, lastPath>>
      /\ pc[t] = "test" /\ pc'[t] = "mark" /\ \A s \in Threads : s # t => pc'[s] = pc[s]
      /\ recrash' = (recrash \/ handling)
  BY OneGoes DEF Test, disk
<1>2. Holding'
  <2>1. Lists'
    BY <1>1 DEF Crowd, Holding, Lists
  <2>2. \A s \in Threads : \A u \in App : Holds(s, u)' => Holds(s, u)
    BY <1>1 DEF Holds, Between
  <2> QED
    BY <1>1, <2>1, <2>2, HoldsLess DEF Crowd
<1>3. NotedSo'
  BY <1>1 DEF Crowd, NotedSo
<1>4. BeforeMark'
  <2> SUFFICES ASSUME ~handling PROVE BeforeMark'
    BY <1>1 DEF BeforeMark, ToTheMark
  <2>1. \A s \in Threads : /\ pc'[s] \in ToTheMark
                           /\ pc'[s] = "resume" => frame'[s] = "skip"
    BY <1>1 DEF Crowd, BeforeMark, ToTheMark
  <2>2. \A i \in DOMAIN port : pc'[port[i]] = "kernel"
    BY <1>1, CrowdTypes, Names2 DEF Crowd, BeforeMark, ToTheMark
  <2> QED
    BY <1>1, <2>1, <2>2, Names2 DEF Crowd, BeforeMark, ToTheMark
<1>5. AppPlaces'
  BY <1>1, Names2 DEF Crowd, AppPlaces
<1>6. SecondaryPlaces'
  <2>1. t = Secondary => handling
    BY <1>1 DEF Crowd, BeforeMark, ToTheMark
  <2> QED
    BY <1>1, <2>1, Names2, CrowdTypes DEF Crowd, SecondaryPlaces, Between, Beyond
<1>7. PrimaryPlaces'
  BY <1>1, Names2, CrowdTypes DEF Crowd, PrimaryPlaces, Between, Beyond
<1>8. NoneNoted'
  BY <1>1, Names2 DEF Crowd, NoneNoted, Nesting, IsNoted, Beyond, Between
<1>9. CASE handling
  <2>1. Writers' \subseteq Writers
    BY <1>1, <1>9 DEF Writers, IsNoted
  <2> QED
    BY <1>1, <1>2, <1>3, <1>4, <1>5, <1>6, <1>7, <1>8, <2>1, WritersLess DEF Crowd
<1>10. CASE ~handling
  <2>1. lastPath = 0
    BY <1>10 DEF Crowd, BeforeMark, ToTheMark
  <2>2. Writers' \subseteq Threads /\ \A s \in Writers' : pc'[s] = "mark"
    BY <1>1, <1>10 DEF Writers, Crowd, BeforeMark, ToTheMark
  <2>3. \A s \in Writers' : pc[s] \in {"test", "mark"}
    BY <1>1, <2>2
  <2>4. Cardinality(Writers') <= Cardinality(App) /\ Cardinality(Writers') <= 2
    BY <1>10, <2>2, <2>3, FirstWriters
  <2>5. Enough'
    BY <1>1, <2>1, <2>4, FiniteNext, FiniteThreads DEF Enough
  <2> QED
    BY <1>2, <1>3, <1>4, <1>5, <1>6, <1>7, <1>8, <2>5 DEF Crowd
<1> QED
  BY <1>9, <1>10

LEMMA CrowdMark == ASSUME Crowd, Kept', NEW t \in Threads, Mark(t) PROVE Crowd'
<1> USE DEF At
<1>1. /\ UNCHANGED <<frame, subject, todo, stopped, port, recrash, context, lastPath>> /\ handling'
      /\ pc[t] = "mark" /\ \A s \in Threads : s # t => pc'[s] = pc[s]
      /\ pc'[t] = (IF frame[t] = "mach" THEN "switch" ELSE IF frame[t] = "objc" THEN "malloc" ELSE "context")
      /\ monitors' = IF recrash THEN {} ELSE monitors
  BY CrowdTypes DEF Mark, Goto, disk
<1>2. Holding'
  <2>1. Lists'
    BY <1>1 DEF Crowd, Holding, Lists
  <2>2. \A s \in Threads : \A u \in App : Holds(s, u)' => Holds(s, u)
    BY <1>1 DEF Holds, Between
  <2> QED
    BY <1>1, <2>1, <2>2, HoldsLess DEF Crowd
<1>3. NotedSo' /\ BeforeMark'
  BY <1>1 DEF Crowd, NotedSo, BeforeMark, ToTheMark
<1>4. AppPlaces'
  BY <1>1, Names2 DEF Crowd, AppPlaces
<1>5. SecondaryPlaces'
  <2>1. t = Secondary => recrash /\ frame[t] = "mach"
    BY <1>1, CrowdTypes, Names2 DEF Crowd, SecondaryPlaces, Between, Inside, Frames
  <2> QED
    BY <1>1, <2>1, Names2 DEF Crowd, SecondaryPlaces, Between, Beyond
<1>6. PrimaryPlaces'
  <2>1. t = Primary => frame[t] \in {"mach", "fault"} /\ (frame[t] = "fault" => recrash)
    BY <1>1, CrowdTypes, Names2 DEF Crowd, PrimaryPlaces, Between, Inside, Frames
  <2> QED
    BY <1>1, <2>1, Names2 DEF Crowd, PrimaryPlaces, Between, Beyond
<1>7. NoneNoted'
  <2>1. CASE ~recrash
    <3>1. \A s \in App : MonitorOf(frame[s]) \in Monitors \/ pc[s] # "oncrash"
      BY CrowdTypes, Names2 DEF MonitorOf, Monitors, Frames, Inside
    <3> QED
      BY <1>1, <2>1, <3>1, Names2 DEF Crowd, NotedSo, NoneNoted, IsNoted
  <2>2. CASE recrash
    BY <1>1, <2>2, Names2 DEF Crowd, NoneNoted, Nesting, IsNoted
  <2> QED
    BY <2>1, <2>2
<1>8. Writers' \subseteq Writers
  BY <1>1 DEF Writers, IsNoted
<1> QED
  BY <1>1, <1>2, <1>3, <1>4, <1>5, <1>6, <1>7, <1>8, WritersLess DEF Crowd

\* While the primary thread may go on to the signal handler it holds every other thread.
LEMMA NestingHolds ==
  ASSUME Crowd, Nesting, NEW u \in App PROVE Holds(Primary, u) /\ ~Alive(u)
<1>1. Holds(Primary, u)
  BY Names2 DEF Holds, Nesting, Beyond, Between
<1> QED
  BY <1>1, HeldStands, Names2 DEF Crowd

LEMMA CrowdSwitch == ASSUME Crowd, Kept', NEW t \in Threads, Switch(t) PROVE Crowd'
<1> USE DEF At
<1>1. /\ UNCHANGED <<frame, subject, todo, stopped, monitors, port, handling, recrash, context, lastPath>>
      /\ pc[t] = "switch" /\ pc'[t] = "context" /\ handling
  BY CrowdTypes, Names2 DEF Switch, Goto, disk, Crowd, BeforeMark, ToTheMark
<1>2. \A s \in Threads : s # t => pc'[s] = pc[s] \/ (s = Secondary /\ pc[s] = "parked" /\ pc'[s] = "listen")
  BY CrowdTypes, Names2 DEF Switch, Goto
<1>3. Holding'
  <2>1. Lists'
    BY <1>1 DEF Crowd, Holding, Lists
  <2>2. \A s \in Threads : \A u \in App : Holds(s, u)' => Holds(s, u)
    BY <1>1, <1>2 DEF Holds, Between
  <2> QED
    BY <1>1, <2>1, <2>2, HoldsLess DEF Crowd
<1>4. NotedSo' /\ BeforeMark'
  BY <1>1 DEF Crowd, NotedSo, BeforeMark, ToTheMark
<1>5. AppPlaces'
  BY <1>1, <1>2, Names2 DEF Crowd, AppPlaces
<1>6. SecondaryPlaces'
  BY <1>1, <1>2, Names2 DEF Crowd, SecondaryPlaces, Between, Beyond
<1>7. PrimaryPlaces'
  BY <1>1, <1>2, Names2 DEF Crowd, PrimaryPlaces, Between, Beyond
<1>8. NoneNoted'
  <2>1. Nesting' => Nesting
    BY <1>1, <1>2, Names2 DEF Crowd, PrimaryPlaces, Nesting, Between, Beyond
  <2>2. \A s \in App : pc'[s] = "oncrash" => pc[s] = "oncrash"
    BY <1>1, <1>2, Names2
  <2> QED
    BY <1>1, <2>1, <2>2 DEF Crowd, NoneNoted, IsNoted
<1>9. Writers' \subseteq Writers
  BY <1>1, <1>2 DEF Writers, IsNoted
<1> QED
  BY <1>1, <1>3, <1>4, <1>5, <1>6, <1>7, <1>8, <1>9, WritersLess DEF Crowd

LEMMA CrowdMalloc == ASSUME Crowd, Kept', NEW t \in Threads, Malloc(t) PROVE Crowd'
<1> USE DEF At, shared
<1>1. /\ UNCHANGED <<frame, subject, todo, shared, lastPath>>
      /\ pc[t] = "malloc" /\ pc'[t] = "context" /\ \A s \in Threads : s # t => pc'[s] = pc[s]
  BY OneGoes DEF Malloc, disk
<1>2. t \in App /\ handling
  BY <1>1 DEF Crowd, BeforeMark, ToTheMark, SecondaryPlaces, PrimaryPlaces, Between, Threads, Reserved
<1>3. Holding'
  <2>1. Lists'
    BY <1>1 DEF Crowd, Holding, Lists
  <2>2. \A s \in Threads : \A u \in App : Holds(s, u)' => Holds(s, u)
    BY <1>1 DEF Holds, Between
  <2> QED
    BY <1>1, <2>1, <2>2, HoldsLess DEF Crowd
<1>4. NotedSo' /\ BeforeMark'
  BY <1>1, <1>2 DEF Crowd, NotedSo, BeforeMark, ToTheMark
<1>5. AppPlaces' /\ SecondaryPlaces' /\ PrimaryPlaces'
  BY <1>1, <1>2, Names2 DEF Crowd, AppPlaces, SecondaryPlaces, PrimaryPlaces
<1>6. NoneNoted'
  BY <1>1, <1>2, Names2 DEF Crowd, NoneNoted, Nesting, IsNoted
<1>7. Writers' \subseteq Writers
  BY <1>1 DEF Writers, IsNoted
<1> QED
  BY <1>1, <1>3, <1>4, <1>5, <1>6, <1>7, WritersLess DEF Crowd

\* Filling in a context clears only its own flag, the Mach monitor not even that.
LEMMA FilledFlags ==
  ASSUME Kept, NEW t \in Threads, frame[t] \in Frames, FillContext(t),
         NEW k \in Monitors, k # MonitorOf(frame[t]) \/ k = "mach"
  PROVE  context'[k].recrash = context[k].recrash
<1> PICK m, who : m = MonitorOf(frame[t]) /\ who = IF m = "mach" THEN subject[t] ELSE t
  OBVIOUS
<1>1. m \in Monitors /\ \A j \in Monitors : context[j] \in [about : Threads \cup {Nobody}, recrash : BOOLEAN]
  BY DEF Frames, MonitorOf, Monitors, Kept, FlagsOK, Contexts
<1>2. /\ context' = [context EXCEPT ![m] = [[@ EXCEPT !.about = who]
                                              EXCEPT !.recrash = context[m].recrash /\ m = "mach"]]
      /\ DOMAIN context = Monitors
  BY DEF FillContext, Kept, FlagsOK, Contexts
<1> PICK new : new = [[context[m] EXCEPT !.about = who]
                        EXCEPT !.recrash = context[m].recrash /\ m = "mach"]
  OBVIOUS
<1>3. m = "mach" => new.recrash = context[m].recrash
  BY <1>1
<1>4. context' = [context EXCEPT ![m] = new]
  BY <1>2
<1> QED
  BY <1>1, <1>2, <1>3, <1>4

LEMMA CrowdContext == ASSUME Crowd, Kept', NEW t \in Threads, FillContext(t) PROVE Crowd'
<1> USE DEF At
<1>1. /\ UNCHANGED <<frame, subject, todo, stopped, monitors, port, handling, recrash, lastPath>>
      /\ pc[t] = "context" /\ pc'[t] = "handle" /\ \A s \in Threads : s # t => pc'[s] = pc[s]
      /\ Alive(t) /\ handling
  BY OneGoes DEF FillContext, disk, Crowd, BeforeMark, ToTheMark
<1>2. /\ frame[t] \in Frames /\ \A s \in Threads : pc[s] = "oncrash" => frame[s] \in Frames
      /\ \A k \in Monitors : context'[k].recrash => context[k].recrash
  BY <1>1, CrowdTypes, Filled DEF Inside, Crowd
<1>3. \A k \in Monitors : k # MonitorOf(frame[t]) \/ k = "mach" => context'[k].recrash = context[k].recrash
  BY <1>2, FilledFlags DEF Crowd
<1>4. \A f \in Frames : MonitorOf(f) \in Monitors /\ (MonitorOf(f) = "mach" <=> f = "mach")
  BY DEF Frames, MonitorOf, Monitors
<1>5. ASSUME NEW s \in Threads, pc[s] = "oncrash", IsNoted(s) PROVE IsNoted(s)'
  <2>1. s # t
    BY <1>1, <1>5
  <2>2. CASE MonitorOf(frame[s]) # MonitorOf(frame[t]) \/ frame[s] = "mach"
    BY <1>1, <1>2, <1>3, <1>4, <1>5, <2>2 DEF IsNoted
  <2>3. CASE MonitorOf(frame[s]) = MonitorOf(frame[t]) /\ frame[s] # "mach"
    <3>1. frame[t] # "mach" /\ t # Secondary /\ s # Secondary
      BY <1>2, <1>4, <1>5, <2>3 DEF Crowd, SecondaryPlaces, Frames
    <3>2. CASE t \in App
      <4>1. Holds(t, s) /\ Holds(s, t)
        BY <1>1, <1>5, <2>1 DEF Holds, Between
      <4>2. s \notin App
        BY <3>2, <4>1 DEF Crowd, Holding, NotBoth
      <4> QED
        BY <1>1, <3>2, <4>1, HeldStands DEF Crowd
    <3>3. CASE t = Primary
      <4>1. s \in App /\ Nesting
        BY <1>1, <1>2, <2>1, <3>1, <3>3 DEF Crowd, PrimaryPlaces, Nesting, Threads, Reserved, Frames
      <4> QED
        BY <1>5, <4>1 DEF Crowd, NoneNoted
    <3> QED
      BY <3>1, <3>2, <3>3 DEF Threads, Reserved
  <2> QED
    BY <2>2, <2>3
<1>6. Holding'
  <2>1. Lists'
    BY <1>1 DEF Crowd, Holding, Lists
  <2>2. \A s \in Threads : \A u \in App : Holds(s, u)' => Holds(s, u)
    BY <1>1 DEF Holds, Between
  <2> QED
    BY <1>1, <2>1, <2>2, HoldsLess DEF Crowd
<1>7. NotedSo' /\ BeforeMark'
  BY <1>1, <1>2 DEF Crowd, NotedSo, BeforeMark, ToTheMark
<1>8. AppPlaces'
  BY <1>1, Names2 DEF Crowd, AppPlaces
<1>9. SecondaryPlaces'
  BY <1>1, <1>3, Names2 DEF Crowd, SecondaryPlaces, Between, Beyond, Monitors
<1>10. PrimaryPlaces'
  <2>1. pc'[Primary] = "oncrash" /\ frame[Primary] = "fault" => context'["signal"].recrash
    <3>1. MonitorOf("fault") = "signal"
      BY DEF MonitorOf
    <3> QED
      BY <1>1, <1>5, <3>1, Names2 DEF Crowd, PrimaryPlaces, IsNoted
  <2> QED
    BY <1>1, <2>1, Names2 DEF Crowd, PrimaryPlaces, Between, Beyond
<1>11. NoneNoted'
  <2>1. Nesting' => Nesting
    BY <1>1, Names2 DEF Crowd, PrimaryPlaces, Nesting, Between, Beyond
  <2>2. ASSUME NEW s \in App, pc'[s] = "oncrash", ~IsNoted(s) PROVE ~IsNoted(s)'
    BY <1>1, <1>2, <1>4, <2>2, Names2 DEF IsNoted
  <2> QED
    BY <1>1, <2>1, <2>2, Names2 DEF Crowd, NoneNoted
<1>12. Writers' \subseteq Writers
  BY <1>1, <1>5 DEF Writers
<1> QED
  BY <1>1, <1>6, <1>7, <1>8, <1>9, <1>10, <1>11, <1>12, WritersLess DEF Crowd

LEMMA CrowdHandle == ASSUME Crowd, Kept', NEW t \in Threads, Handle(t) PROVE Crowd'
<1> USE DEF At
<1>1. /\ UNCHANGED <<frame, subject, todo, stopped, monitors, port, handling, recrash, lastPath>>
      /\ pc[t] = "handle" /\ pc'[t] = "oncrash" /\ \A s \in Threads : s # t => pc'[s] = pc[s]
      /\ Alive(t) /\ handling
  BY OneGoes DEF Handle, disk, Crowd, BeforeMark, ToTheMark
<1>2. /\ frame[t] \in Frames /\ \A s \in Threads : pc[s] = "oncrash" => frame[s] \in Frames
      /\ \A k \in Monitors : context'[k].recrash => context[k].recrash \/ recrash
      /\ context'[MonitorOf(frame[t])].recrash = (context[MonitorOf(frame[t])].recrash \/ recrash)
  BY <1>1, CrowdTypes, Noted DEF Inside, Crowd
<1>3. \A k \in Monitors : k # MonitorOf(frame[t]) => context'[k].recrash = context[k].recrash
  BY CrowdTypes DEF Handle, Contexts
<1>4. \A f \in Frames : MonitorOf(f) \in Monitors /\ (MonitorOf(f) = "mach" <=> f = "mach")
  BY DEF Frames, MonitorOf, Monitors
<1>5. \A k \in Monitors : context[k].recrash => context'[k].recrash
  BY <1>2, <1>3
<1>6. Holding'
  <2>1. Lists'
    BY <1>1 DEF Crowd, Holding, Lists
  <2>2. \A s \in Threads : \A u \in App : Holds(s, u)' => Holds(s, u)
    BY <1>1 DEF Holds, Between
  <2> QED
    BY <1>1, <2>1, <2>2, HoldsLess DEF Crowd
<1>7. NotedSo' /\ BeforeMark'
  BY <1>1, <1>2 DEF Crowd, NotedSo, BeforeMark, ToTheMark
<1>8. AppPlaces'
  BY <1>1, Names2 DEF Crowd, AppPlaces
<1>9. SecondaryPlaces'
  <2>1. CASE t = Secondary
    <3>1. recrash /\ frame[t] = "mach"
      BY <1>1, <1>2, <2>1 DEF Crowd, SecondaryPlaces, Between, Frames
    <3>2. context'["mach"].recrash
      BY <1>2, <3>1 DEF MonitorOf
    <3> QED
      BY <1>1, <2>1, <3>1, <3>2, Names2 DEF Crowd, SecondaryPlaces, Between, Beyond
  <2>2. CASE t # Secondary
    <3>1. context["mach"].recrash => context'["mach"].recrash
      BY <1>5 DEF Monitors
    <3> QED
      BY <1>1, <2>2, <3>1, Names2 DEF Crowd, SecondaryPlaces
  <2> QED
    BY <2>1, <2>2
<1>10. PrimaryPlaces'
  <2>1. pc'[Primary] = "oncrash" /\ frame[Primary] = "fault" => context'["signal"].recrash
    <3>1. MonitorOf("fault") = "signal" /\ "signal" \in Monitors
      BY DEF MonitorOf, Monitors
    <3>2. CASE t = Primary
      BY <1>1, <1>2, <3>1, <3>2 DEF Crowd, PrimaryPlaces, Between
    <3>3. CASE t # Primary
      BY <1>1, <1>5, <3>1, <3>3, Names2 DEF Crowd, PrimaryPlaces
    <3> QED
      BY <3>2, <3>3
  <2> QED
    BY <1>1, <2>1, Names2 DEF Crowd, PrimaryPlaces, Between, Beyond
<1>11. NoneNoted'
  <2> SUFFICES ASSUME Nesting' PROVE NoneNoted'
    BY DEF NoneNoted
  <2>1. Nesting
    BY <1>1, Names2 DEF Crowd, PrimaryPlaces, Nesting, Between, Beyond
  <2>2. t \notin App
    BY <1>1, <2>1, NestingHolds
  <2>3. frame[t] = "mach"
    BY <1>1, <1>2, <2>2, Names2 DEF Crowd, SecondaryPlaces, Threads, Reserved, Nesting, Frames
  <2>4. ASSUME NEW s \in App, pc'[s] = "oncrash" PROVE ~IsNoted(s)'
    <3>1. pc[s] = "oncrash" /\ frame[s] \in Frames /\ frame[s] # "mach"
      BY <1>1, <1>2, <2>2, <2>4, Names2 DEF Crowd, AppPlaces
    <3>2. ~IsNoted(s)
      BY <2>1, <3>1 DEF Crowd, NoneNoted
    <3> QED
      BY <1>1, <1>3, <1>4, <2>3, <3>1, <3>2 DEF IsNoted, Frames
  <2> QED
    BY <2>4 DEF NoneNoted
<1>12. Writers' \subseteq Writers
  <2>1. ASSUME NEW s \in Threads, s # t, pc[s] = "oncrash", ~IsNoted(s)' PROVE ~IsNoted(s)
    BY <1>1, <1>2, <1>4, <1>5, <2>1 DEF IsNoted
  <2>2. ~IsNoted(t)' => ~recrash
    BY <1>1, <1>2 DEF IsNoted
  <2>3. ASSUME NEW s \in Threads, s \in Writers' PROVE s \in Writers
    <3>1. CASE s = t
      BY <1>1, <2>2, <2>3, <3>1 DEF Writers
    <3>2. CASE s # t
      BY <1>1, <2>1, <2>3, <3>2 DEF Writers
    <3> QED
      BY <3>1, <3>2
  <2> QED
    BY <2>3 DEF Writers
<1> QED
  BY <1>1, <1>6, <1>7, <1>8, <1>9, <1>10, <1>11, <1>12, WritersLess DEF Crowd

\* A thread that is past the mark goes on in its handler, or leaves it.
LEMMA CrowdOn ==
  ASSUME Crowd, Kept', NEW t \in Threads, NEW l, Goto(t, l), pc[t] \in {"oncrash", "path", "reply"},
         l = (IF pc[t] = "path" THEN "open" ELSE IF pc[t] = "reply" THEN "done"
              ELSE IF IsNoted(t) THEN "rename" ELSE "path"),
         UNCHANGED <<frame, subject, todo, shared>>
  PROVE  Holding' /\ NotedSo' /\ BeforeMark' /\ AppPlaces' /\ SecondaryPlaces' /\ PrimaryPlaces' /\ NoneNoted'
<1> USE DEF shared
<1>1. /\ pc'[t] = l /\ \A s \in Threads : s # t => pc'[s] = pc[s]
      /\ l \in {"open", "done", "rename", "path"} /\ handling
  BY OneGoes DEF Crowd, BeforeMark, ToTheMark
<1>2. Holding'
  <2>1. Lists'
    BY DEF Crowd, Holding, Lists
  <2>2. \A s \in Threads : \A u \in App : Holds(s, u)' => Holds(s, u)
    BY <1>1 DEF Holds, Between
  <2> QED
    BY <1>1, <2>1, <2>2, HoldsLess DEF Crowd
<1>3. NotedSo' /\ BeforeMark'
  BY <1>1 DEF Crowd, NotedSo, BeforeMark, ToTheMark
<1>4. AppPlaces'
  BY <1>1, Names2 DEF Crowd, AppPlaces
<1>5. SecondaryPlaces'
  <2>1. t = Secondary /\ pc[t] = "oncrash" => IsNoted(t)
    BY CrowdTypes, Names2 DEF Crowd, SecondaryPlaces, IsNoted, MonitorOf, Frames, Inside
  <2> QED
    BY <1>1, <2>1, Names2 DEF Crowd, SecondaryPlaces, Between, Beyond
<1>6. PrimaryPlaces'
  <2>1. t = Primary /\ pc[t] = "oncrash" /\ frame[t] = "fault" => IsNoted(t)
    BY DEF Crowd, PrimaryPlaces, IsNoted, MonitorOf
  <2> QED
    BY <1>1, <2>1, Names2 DEF Crowd, PrimaryPlaces, Between, Beyond
<1>7. NoneNoted'
  <2>1. Nesting' => Nesting
    BY <1>1, Names2 DEF Nesting, Between, Beyond
  <2>2. \A s \in App : pc'[s] = "oncrash" => pc[s] = "oncrash"
    BY <1>1, Names2
  <2> QED
    BY <2>1, <2>2 DEF Crowd, NoneNoted, IsNoted
<1> QED
  BY <1>2, <1>3, <1>4, <1>5, <1>6, <1>7

LEMMA CrowdOnCrash ==
  ASSUME Crowd, Kept', NEW t \in Threads, OnCrash(t) \/ Reply(t) PROVE Crowd'
<1> USE DEF At
<1> PICK l : l = (IF pc[t] = "path" THEN "open" ELSE IF pc[t] = "reply" THEN "done"
                  ELSE IF IsNoted(t) THEN "rename" ELSE "path")
  OBVIOUS
<1>1. pc[t] \in {"oncrash", "reply"} /\ Goto(t, l) /\ UNCHANGED <<frame, subject, todo, shared, lastPath>>
  BY DEF OnCrash, Reply, IsNoted, disk
<1>2. pc'[t] = l /\ \A s \in Threads : s # t => pc'[s] = pc[s]
  BY <1>1, OneGoes
<1>3. Writers' \subseteq Writers
  BY <1>1, <1>2 DEF Writers, IsNoted, shared
<1> QED
  BY <1>1, <1>3, CrowdOn, WritersLess DEF Crowd

LEMMA CrowdNextPath == ASSUME Crowd, Kept', NEW t \in Threads, NextPath(t) PROVE Crowd'
<1>1. /\ pc[t] = "path" /\ Goto(t, "open") /\ lastPath' = lastPath + 1
      /\ UNCHANGED <<frame, subject, todo, shared>>
  BY DEF NextPath, At
<1>2. pc'[t] = "open" /\ \A s \in Threads : s # t => pc'[s] = pc[s]
  BY <1>1, OneGoes
<1>3. t \in Writers /\ Writers' \subseteq Writers \ {t}
  BY <1>1, <1>2 DEF Writers, IsNoted, shared
<1>4. /\ Cardinality(Writers \ {t}) = Cardinality(Writers) - 1
      /\ IsFiniteSet(Writers \ {t})
  BY <1>3, FiniteParts, FS_RemoveElement
<1>5. Cardinality(Writers') <= Cardinality(Writers \ {t})
  BY <1>3, <1>4, FS_Subset
<1>6. Enough'
  BY <1>1, <1>4, <1>5, FiniteParts, FiniteNext, FiniteThreads DEF Crowd, Enough
<1> QED
  BY <1>1, <1>6, CrowdOn DEF Crowd

LEMMA CrowdFinish == ASSUME Crowd, Kept', NEW t \in Threads, Finish(t) PROVE Crowd'
<1> USE DEF At
<1>1. /\ UNCHANGED <<frame, subject, stopped, port, handling, recrash, context, lastPath>> /\ handling
      /\ pc[t] = "finish" /\ pc'[t] = (IF frame[t] = "objc" THEN "abort" ELSE "resume")
      /\ \A s \in Threads : s # t => pc'[s] = pc[s]
      /\ monitors' \subseteq monitors
  BY OneGoes DEF Finish, disk, Crowd, BeforeMark, ToTheMark
<1>2. /\ \A s \in Threads : s # t => todo'[s] = todo[s]
      /\ todo' \in [Threads -> SUBSET App] /\ t \notin todo'[t]
  BY CrowdTypes DEF Finish
<1>3. Holding'
  <2>1. Lists'
    BY <1>1, <1>2 DEF Crowd, Holding, Lists
  <2>2. \A s \in Threads : \A u \in App : Holds(s, u)' => Holds(s, u)
    BY <1>1, <1>2 DEF Holds, Between
  <2> QED
    BY <1>1, <2>1, <2>2, HoldsLess DEF Crowd
<1>4. NotedSo' /\ BeforeMark'
  BY <1>1 DEF Crowd, NotedSo, BeforeMark, ToTheMark
<1>5. AppPlaces'
  BY <1>1, Names2 DEF Crowd, AppPlaces
<1>6. SecondaryPlaces' /\ PrimaryPlaces'
  BY <1>1, Names2 DEF Crowd, SecondaryPlaces, PrimaryPlaces, Between, Beyond
<1>7. NoneNoted'
  <2>1. Nesting' => Nesting
    BY <1>1, Names2 DEF Nesting, Between, Beyond
  <2> QED
    BY <1>1, <2>1, Names2 DEF Crowd, NoneNoted, IsNoted
<1>8. Writers' \subseteq Writers
  BY <1>1 DEF Writers, IsNoted
<1> QED
  BY <1>1, <1>3, <1>4, <1>5, <1>6, <1>7, <1>8, WritersLess DEF Crowd

LEMMA CrowdResume == ASSUME Crowd, Kept', NEW t \in Threads, Resume(t) PROVE Crowd'
<1> USE DEF At
<1>1. /\ UNCHANGED <<frame, subject, monitors, port, handling, recrash, context, lastPath>>
      /\ pc[t] = "resume" /\ \A s \in Threads : s # t => pc'[s] = pc[s]
  BY CrowdTypes DEF Resume, Goto, disk
<1>2. CASE \E u \in todo[t] : /\ stopped' = [stopped EXCEPT ![u] = IF @ = 0 THEN 0 ELSE @ - 1]
                              /\ todo' = [todo EXCEPT ![t] = @ \ {u}] /\ UNCHANGED pc
  <2> PICK u \in todo[t] : /\ stopped' = [stopped EXCEPT ![u] = IF @ = 0 THEN 0 ELSE @ - 1]
                           /\ todo' = [todo EXCEPT ![t] = @ \ {u}] /\ UNCHANGED pc
    BY <1>2
  <2>1. /\ u \in App /\ u # t /\ stopped' \in [App -> Nat]
        /\ stopped[u] # 0 => stopped'[u] = stopped[u] - 1
        /\ \A v \in App : v # u => stopped'[v] = stopped[v]
    BY CrowdTypes DEF Crowd, Holding, Lists
  <2>2. todo'[t] = todo[t] \ {u} /\ \A s \in Threads : s # t => todo'[s] = todo[s]
    BY CrowdTypes
  <2>3. Lists'
    BY <2>1, <2>2, CrowdTypes DEF Crowd, Holding, Lists
  <2>4. Holds(t, u) /\ ~Holds(t, u)' /\ \A s \in Threads : \A v \in App : Holds(s, v)' => Holds(s, v)
    BY <1>1, <2>1, <2>2 DEF Holds, Between
  <2>5. ASSUME NEW v \in App PROVE stopped'[v] >= Cardinality(Holders(v)')
    <3>1. stopped[v] >= Cardinality(Holders(v)) /\ stopped[v] \in Nat /\ stopped'[v] \in Nat
      BY <2>1, CrowdTypes DEF Crowd, Holding, Counted
    <3>2. CASE v = u
      <4>1. t \in Holders(v) /\ Holders(v)' \subseteq Holders(v) \ {t}
        BY <2>4, <3>2 DEF Holders
      <4>2. /\ IsFiniteSet(Holders(v) \ {t})
            /\ Cardinality(Holders(v) \ {t}) = Cardinality(Holders(v)) - 1
        BY <4>1, FiniteParts, FS_RemoveElement
      <4>3. Cardinality(Holders(v)') <= Cardinality(Holders(v) \ {t})
        BY <4>1, <4>2, FS_Subset
      <4> QED
        BY <2>1, <3>1, <3>2, <4>2, <4>3, FiniteParts, FiniteNext
    <3>3. CASE v # u
      <4>1. Holders(v)' \subseteq Holders(v)
        BY <2>4 DEF Holders
      <4>2. Cardinality(Holders(v)') <= Cardinality(Holders(v))
        BY <4>1, FiniteParts, FS_Subset
      <4> QED
        BY <2>1, <3>1, <3>3, <4>2, FiniteParts, FiniteNext
    <3> QED
      BY <3>2, <3>3
  <2>6. NotBoth'
    BY <2>4, Names2 DEF Crowd, Holding, NotBoth
  <2>7. Counted'
    BY <2>5 DEF Counted
  <2>8. Holding'
    BY <2>3, <2>6, <2>7 DEF Holding
  <2>9. NotedSo' /\ BeforeMark' /\ AppPlaces' /\ SecondaryPlaces' /\ PrimaryPlaces' /\ NoneNoted'
    BY <1>1 DEF Crowd, NotedSo, BeforeMark, ToTheMark, AppPlaces, SecondaryPlaces, PrimaryPlaces,
       NoneNoted, Nesting, IsNoted
  <2>10. Writers' \subseteq Writers
    BY <1>1 DEF Writers, IsNoted
  <2> QED
    BY <1>1, <2>8, <2>9, <2>10, WritersLess DEF Crowd
<1>3. CASE Goto(t, Leave(t)) /\ UNCHANGED <<stopped, todo>>
  <2>1. /\ pc'[t] = Leave(t) /\ Leave(t) \in {"reply", "raise", "abort", "uncaught"}
        /\ frame[t] = "mach" => Leave(t) = "reply"
        /\ frame[t] = "fault" => Leave(t) = "raise"
        /\ frame[t] = "skip" => Leave(t) = "uncaught"
    BY <1>3, OneGoes DEF Leave
  <2>2. Holding'
    <3>1. Lists'
      BY <1>3 DEF Crowd, Holding, Lists
    <3>2. \A s \in Threads : \A v \in App : Holds(s, v)' => Holds(s, v)
      BY <1>1, <1>3, <2>1 DEF Holds, Between
    <3> QED
      BY <1>3, <3>1, <3>2, HoldsLess DEF Crowd
  <2>3. NotedSo'
    BY <1>1 DEF Crowd, NotedSo
  <2>4. BeforeMark'
    <3> SUFFICES ASSUME ~handling PROVE BeforeMark'
      BY <1>1 DEF BeforeMark, ToTheMark
    <3>1. \A s \in Threads : /\ pc'[s] \in ToTheMark
                             /\ pc'[s] = "resume" => frame'[s] = "skip"
      BY <1>1, <2>1 DEF Crowd, BeforeMark, ToTheMark
    <3>2. \A i \in DOMAIN port : pc'[port[i]] = "kernel"
      BY <1>1, CrowdTypes, Names2 DEF Crowd, BeforeMark, ToTheMark
    <3> QED
      BY <1>1, <3>1, <3>2, Names2 DEF Crowd, BeforeMark, ToTheMark
  <2>5. AppPlaces'
    BY <1>1, <2>1, Names2 DEF Crowd, AppPlaces
  <2>6. frame[t] \in Frames
    BY <1>1, CrowdTypes DEF Inside
  <2>7. SecondaryPlaces'
    BY <1>1, <2>1, <2>6, Names2 DEF Crowd, SecondaryPlaces, Between, Beyond, Frames
  <2>8. PrimaryPlaces'
    BY <1>1, <2>1, <2>6, Names2 DEF Crowd, PrimaryPlaces, Between, Beyond, Frames
  <2>9. NoneNoted'
    BY <1>1, <2>1, Names2 DEF Crowd, NoneNoted, Nesting, IsNoted, Between, Beyond
  <2>10. Writers' \subseteq Writers
    BY <1>1, <2>1 DEF Writers, IsNoted
  <2> QED
    BY <1>1, <2>2, <2>3, <2>4, <2>5, <2>7, <2>8, <2>9, <2>10, WritersLess DEF Crowd
<1> QED
  BY <1>2, <1>3 DEF Resume

LEMMA CrowdReporting == ASSUME Crowd, Kept', NEW t \in Threads, Reporting(t) PROVE Crowd'
<1> USE DEF At
<1>1. CASE OpenReport(t) \/ Reopen(t) \/ WriteSection(t)
  <2>1. /\ pc[t] \in Late /\ UNCHANGED <<frame, todo, subject, shared, lastPath>>
        /\ UNCHANGED pc \/ \E l \in Late : Goto(t, l)
    BY <1>1 DEF OpenReport, Reopen, WriteSection, Create, Late
  <2> QED
    BY <2>1, CrowdLate, CrowdIdle DEF shared
<1>2. CASE Rename(t) \/ Embed(t) \/ Unlink(t) \/ WriteRest(t) \/ SaveTransaction(t)
  <2>1. /\ pc[t] \in Late /\ UNCHANGED <<frame, todo, subject, shared, lastPath>>
        /\ \E l \in Late : Goto(t, l)
    BY <1>2 DEF Rename, Embed, Unlink, WriteRest, SaveTransaction, Late, disk
  <2> QED
    BY <2>1, CrowdLate
<1> QED
  BY <1>1, <1>2, CrowdOnCrash, CrowdNextPath DEF Reporting

\* A signal starts a handler, or ends the process.
LEMMA CrowdSignal ==
  ASSUME Crowd, Kept', NEW t \in Threads, NEW f \in Frames, Signal(t, f), UNCHANGED <<shared, lastPath>>,
         "signal" \in monitors /\ frame[t] # f =>
           \/ t \in App /\ f # "mach" /\ (handling \/ pc[t] # "kernel")
           \/ t = Primary /\ f = "fault" /\ pc[t] \in Beyond /\ frame[t] = "mach" /\ monitors # {}
  PROVE  Crowd'
<1>1. CASE "signal" \in monitors /\ frame[t] # f
  BY <1>1, CrowdEnter DEF Signal
<1>2. CASE ~("signal" \in monitors /\ frame[t] # f)
  BY <1>2, CrowdIdle DEF Signal, Die, thread, shared
<1> QED
  BY <1>1, <1>2

LEMMA CrowdLast ==
  ASSUME Crowd, Kept', NEW t \in Threads, Uncaught(t) \/ Raise(t) \/ SignalAfterReply(t) PROVE Crowd'
<1> USE DEF At
<1>1. UNCHANGED <<shared, lastPath>>
  BY DEF Uncaught, Raise, SignalAfterReply, disk
<1>2. CASE Uncaught(t)
  <2>1. t \in App /\ pc[t] # "kernel"
    BY <1>2 DEF Uncaught, Crowd, SecondaryPlaces, PrimaryPlaces, Between, Threads, Reserved
  <2> QED
    BY <1>1, <1>2, <2>1, CrowdSignal, CrowdEnter DEF Uncaught, Frames
<1>3. CASE Raise(t)
  <2>1. CASE pc[t] = "raise" /\ Signal(t, frame[t])
    BY <1>1, <2>1, CrowdIdle DEF Signal, Die, thread, shared
  <2>2. CASE pc[t] = "abort" /\ Signal(t, "abort")
    <3>1. t \in App
      BY <2>2 DEF Crowd, SecondaryPlaces, PrimaryPlaces, Between, Threads, Reserved
    <3> QED
      BY <1>1, <2>2, <3>1, CrowdSignal DEF Frames
  <2> QED
    BY <1>3, <2>1, <2>2 DEF Raise
<1>4. CASE SignalAfterReply(t)
  <2>1. pc[t] = "kernel" /\ Signal(t, "fault") /\ \E s \in Reserved : pc[s] = "done"
    BY <1>4 DEF SignalAfterReply
  <2>2. t \in App
    BY <2>1 DEF Crowd, SecondaryPlaces, PrimaryPlaces, Between, Threads, Reserved
  <2>3. handling
    BY <2>1 DEF Crowd, BeforeMark, ToTheMark, Threads
  <2> QED
    BY <1>1, <2>1, <2>2, <2>3, CrowdSignal DEF Frames
<1> QED
  BY <1>2, <1>3, <1>4

LEMMA CrowdCrash ==
  ASSUME Crowd, Kept', NEW t \in App, NEW kind \in {"fault", "abort", "objc", "cpp"}, Crash(t, kind)
  PROVE  Crowd'
<1>1. /\ pc[t] = "run" /\ t \in Threads
      /\ UNCHANGED <<stopped, monitors, ports, handling, recrash, context, lastPath>>
  BY Names2 DEF Crash, At, disk
<1>2. CASE kind = "fault" /\ Fault(t)
  <2>1. CASE ports
    BY <1>1, <1>2, <2>1, CrowdKernel DEF Fault
  <2>2. CASE ~ports
    BY <1>1, <1>2, <2>2, CrowdSignal DEF Fault, Frames, shared
  <2> QED
    BY <2>1, <2>2
<1>3. CASE UNCHANGED port /\ Signal(t, "abort")
  BY <1>1, <1>3, CrowdSignal DEF Frames, shared
<1>4. CASE UNCHANGED port /\ \E f \in {"cpp", "skip"} : Enter(t, f)
  BY <1>1, <1>4, CrowdEnter DEF Frames, shared
<1> QED
  BY <1>2, <1>3, <1>4 DEF Crash

LEMMA CrowdCrashAgain == ASSUME Crowd, Kept', NEW t \in Threads, CrashInHandler(t) PROVE Crowd'
<1>1. /\ pc[t] \in Fragile /\ Fault(t)
      /\ UNCHANGED <<stopped, monitors, ports, handling, recrash, context, lastPath>>
  BY DEF CrashInHandler, disk
<1>2. pc[t] \in Beyond /\ pc[t] # "kernel" /\ handling /\ frame[t] \in Frames
  BY <1>1, CrowdTypes DEF Fragile, Beyond, Between, Inside, Crowd, BeforeMark, ToTheMark
<1>3. CASE ports
  <2>1. t \in App
    BY <1>1, <1>3, LateIsApp DEF Fragile, Early, Crowd, Kept
  <2> QED
    BY <1>1, <1>2, <1>3, <2>1, CrowdKernel DEF Fault
<1>4. CASE ~ports
  <2>1. Signal(t, "fault") /\ UNCHANGED port
    BY <1>1, <1>4 DEF Fault
  <2>2. t = Secondary => monitors = {}
    BY <1>2 DEF Crowd, SecondaryPlaces
  <2>3. t = Primary => frame[t] \in {"mach", "fault"}
    BY <1>2 DEF Crowd, PrimaryPlaces, Frames
  <2> QED
    BY <1>1, <1>2, <2>1, <2>2, <2>3, CrowdSignal DEF Frames, shared, Threads, Reserved
<1> QED
  BY <1>3, <1>4

LEMMA NextCrowd == Crowd /\ [Next]_vars => Crowd'
<1> SUFFICES ASSUME Crowd, [Next]_vars PROVE Crowd'
  OBVIOUS
<1>1. Kept'
  BY NextKept DEF Crowd
<1>2. ASSUME NEW t \in Threads, Step(t) PROVE Crowd'
  BY <1>1, <1>2, CrowdReceive, CrowdSuspend, CrowdTest, CrowdMark, CrowdSwitch, CrowdMalloc, CrowdContext,
     CrowdHandle, CrowdReporting, CrowdFinish, CrowdResume, CrowdLast, CrowdOnCrash
     DEF Step, Monitoring, Leaving
<1>3. ASSUME NEW t \in App, TakeHeap(t) \/ ReleaseHeap(t) PROVE Crowd'
  BY <1>1, <1>3, CrowdIdle DEF TakeHeap, ReleaseHeap, thread, shared, disk
<1>4. CASE UNCHANGED vars
  BY <1>1, <1>4, CrowdIdle DEF vars, thread, shared, disk
<1> QED
  BY <1>1, <1>2, <1>3, <1>4, CrowdCrash, CrowdCrashAgain DEF Next

-----------------------------------------------------------------------------
\* The files, of any number of crashes: inodes is a sequence, of whatever the parts are.
Stored == /\ path \in [Threads -> Reports] /\ lastPath \in Reports
          /\ \E S : inodes \in Seq(S)
          /\ dir \in [Names -> 0..Len(inodes)] /\ fd \in [Threads -> 0..Len(inodes)]
Counts == heap \in App \cup {Nobody} /\ ports \in BOOLEAN /\ faults \in 0..MaxFaults

\* No more reports than threads.
LEMMA FewReports == ASSUME Crowd' PROVE lastPath' \in Reports
<1>1. /\ lastPath' \in Nat /\ Cardinality(Writers') \in Nat /\ Cardinality(App) \in Nat
      /\ lastPath' + Cardinality(Writers') <= Cardinality(App)
  BY FiniteNext, FiniteThreads DEF Crowd, Enough
<1> QED
  BY <1>1 DEF Reports

LEMMA StillASequence ==
  ASSUME \E S : inodes \in Seq(S), NEW i, NEW new, inodes' = [inodes EXCEPT ![i] = new]
  PROVE  (\E S : inodes' \in Seq(S)) /\ Len(inodes') = Len(inodes)
<1> PICK S : inodes \in Seq(S)
  OBVIOUS
<1> PICK T : T = S \cup {new}
  OBVIOUS
<1>1. inodes \in Seq(T) /\ new \in T
  OBVIOUS
<1>2. CASE i \in DOMAIN inodes
  BY <1>1, <1>2
<1>3. CASE i \notin DOMAIN inodes
  <2>1. inodes' = inodes
    BY <1>3
  <2> QED
    BY <1>1, <2>1
<1> QED
  BY <1>2, <1>3

LEMMA StoredCreate ==
  ASSUME Stored, NEW t \in Threads, NEW name \in Names, NEW kind, NEW next, Create(t, name, kind, next),
         UNCHANGED <<path, lastPath>>
  PROVE  Stored'
<1>1. CASE UNCHANGED <<inodes, dir, fd>>
  BY <1>1 DEF Stored
<1>2. CASE ~UNCHANGED <<inodes, dir, fd>>
  <2>1. /\ inodes' = Append(inodes, Blank(kind))
        /\ dir' = [dir EXCEPT ![name] = Len(inodes) + 1] /\ fd' = [fd EXCEPT ![t] = Len(inodes) + 1]
    BY <1>2 DEF Create
  <2> PICK S : inodes \in Seq(S)
    BY DEF Stored
  <2> PICK new : new = Blank(kind)
    OBVIOUS
  <2>2. inodes \in Seq(S \cup {new})
    OBVIOUS
  <2>3. inodes' \in Seq(S \cup {new}) /\ Len(inodes') = Len(inodes) + 1 /\ Len(inodes) \in Nat
    BY <2>1, <2>2
  <2>4. 0..Len(inodes) \subseteq 0..(Len(inodes) + 1) /\ Len(inodes) + 1 \in 0..(Len(inodes) + 1)
    BY <2>3
  <2>5. dir' \in [Names -> 0..Len(inodes')] /\ fd' \in [Threads -> 0..Len(inodes')]
    BY <2>1, <2>3, <2>4 DEF Stored
  <2> QED
    BY <2>3, <2>5 DEF Stored
<1> QED
  BY <1>1, <1>2

LEMMA StoredReporting ==
  ASSUME Crowd, Crowd', Stored, NEW t \in Threads, Reporting(t) PROVE Stored'
<1>n. /\ \A e \in {"json", "old"} : Current(e) \in Names
      /\ <<path[t], "json">> \in Names /\ lastPath' \in Reports
  <2>1. path[t] \in Reports /\ lastPath \in Reports
    BY DEF Stored
  <2>2. lastPath' \in Reports
    BY FewReports
  <2> QED
    BY <2>1, <2>2 DEF Current, Names
<1>1. CASE NextPath(t)
  BY <1>1, <1>n DEF NextPath, Stored
<1>2. CASE OpenReport(t)
  BY <1>2, <1>n, StoredCreate DEF OpenReport
<1>3. CASE Reopen(t)
  BY <1>3, <1>n, StoredCreate DEF Reopen
<1>4. CASE WriteSection(t) \/ Embed(t) \/ WriteRest(t)
  <2>1. /\ UNCHANGED <<path, fd, lastPath, dir>>
        /\ inodes' = inodes \/ \E i, new : inodes' = [inodes EXCEPT ![i] = new]
    <3>1. UNCHANGED <<path, fd, lastPath, dir>>
      BY <1>4 DEF WriteSection, Embed, WriteRest
    <3>2. ASSUME NEW i, NEW X, inodes' = [inodes EXCEPT ![i].parts = @ \cup X]
          PROVE  \E new : inodes' = [inodes EXCEPT ![i] = new]
      <4> WITNESS [inodes[i] EXCEPT !.parts = @ \cup X]
      <4> QED
        BY <3>2
    <3>3. ASSUME NEW i, inodes' = [inodes EXCEPT ![i].complete = TRUE]
          PROVE  \E new : inodes' = [inodes EXCEPT ![i] = new]
      <4> WITNESS [inodes[i] EXCEPT !.complete = TRUE]
      <4> QED
        BY <3>3
    <3>4. ASSUME NEW i, NEW X, inodes' = [inodes EXCEPT ![i].parts = @ \cup X, ![i].complete = TRUE]
          PROVE  inodes' = inodes \/ \E new : inodes' = [inodes EXCEPT ![i] = new]
      <4>1. CASE i \in DOMAIN inodes
        <5> PICK new : new = [[inodes[i] EXCEPT !.parts = inodes[i].parts \cup X] EXCEPT !.complete = TRUE]
          OBVIOUS
        <5>1. inodes' = [inodes EXCEPT ![i] = new]
          BY <3>4, <4>1
        <5> QED
          BY <5>1
      <4>2. CASE i \notin DOMAIN inodes
        BY <3>4, <4>2
      <4> QED
        BY <4>1, <4>2
    <3>5. CASE WriteSection(t)
      BY <3>1, <3>2, <3>3, <3>5 DEF WriteSection
    <3>6. CASE Embed(t)
      BY <3>1, <3>2, <3>6 DEF Embed
    <3>7. CASE WriteRest(t)
      BY <3>1, <3>4, <3>7 DEF WriteRest
    <3> QED
      BY <1>4, <3>5, <3>6, <3>7
  <2>2. (\E S : inodes' \in Seq(S)) /\ Len(inodes') = Len(inodes)
    BY <2>1, StillASequence DEF Stored
  <2> QED
    BY <2>1, <2>2 DEF Stored
<1>5. CASE Rename(t) \/ Unlink(t)
  <2>1. UNCHANGED <<path, fd, lastPath, inodes>>
    BY <1>5 DEF Rename, Unlink
  <2>2. Len(inodes) \in Nat
    BY DEF Stored
  <2>3. dir' \in [Names -> 0..Len(inodes)]
    <3>1. dir \in [Names -> 0..Len(inodes)] /\ 0 \in 0..Len(inodes)
      BY <2>2 DEF Stored
    <3>2. CASE Unlink(t)
      BY <3>1, <3>2 DEF Unlink
    <3>3. CASE Rename(t)
      <4> PICK v : v = dir[Current("json")]
        OBVIOUS
      <4>1. v \in 0..Len(inodes)
        BY <1>n, <3>1
      <4>2. \/ dir' = dir
            \/ dir' = [[dir EXCEPT ![Current("old")] = v] EXCEPT ![Current("json")] = 0]
        BY <3>3 DEF Rename
      <4> QED
        BY <3>1, <4>1, <4>2
    <3> QED
      BY <1>5, <3>2, <3>3
  <2> QED
    BY <2>1, <2>3 DEF Stored
<1>6. CASE OnCrash(t) \/ SaveTransaction(t)
  BY <1>6 DEF OnCrash, SaveTransaction, Stored, disk
<1> QED
  BY <1>1, <1>2, <1>3, <1>4, <1>5, <1>6 DEF Reporting

LEMMA StoredStep == ASSUME Crowd, Crowd', Stored, [Next]_vars PROVE Stored'
<1>1. ASSUME UNCHANGED <<path, fd, disk>> PROVE Stored'
  BY <1>1 DEF Stored, disk
<1>2. ASSUME NEW t, Signal(t, "fault") \/ Signal(t, "abort") \/ Signal(t, frame[t]) \/ (\E f : Enter(t, f))
      PROVE UNCHANGED <<path, fd>>
  BY <1>2 DEF Signal, Enter, Die, thread
<1>3. ASSUME NEW t \in Threads, Monitoring(t) PROVE UNCHANGED <<path, fd, disk>>
  BY <1>3 DEF Monitoring, Receive, Suspend, Test, Mark, Switch, Malloc, FillContext, Handle
<1>4. ASSUME NEW t \in Threads, Leaving(t) PROVE UNCHANGED <<path, fd, disk>>
  BY <1>4, <1>2 DEF Leaving, Finish, Resume, Uncaught, Raise, Reply, SignalAfterReply
<1>5. ASSUME NEW t \in Threads, CrashInHandler(t) PROVE UNCHANGED <<path, fd, disk>>
  BY <1>5, <1>2 DEF CrashInHandler, Fault
<1>6. ASSUME NEW t \in App, NEW kind \in {"fault", "abort", "objc", "cpp"}, Crash(t, kind)
      PROVE  UNCHANGED <<path, fd, disk>>
  BY <1>6, <1>2 DEF Crash, Fault
<1>7. ASSUME NEW t \in App, TakeHeap(t) \/ ReleaseHeap(t) PROVE UNCHANGED <<path, fd, disk>>
  BY <1>7 DEF TakeHeap, ReleaseHeap, thread
<1>8. CASE UNCHANGED vars
  BY <1>1, <1>8 DEF vars, thread
<1> QED
  BY <1>1, <1>3, <1>4, <1>5, <1>6, <1>7, <1>8, StoredReporting DEF Next, Step

LEMMA CountsStep == ASSUME Crowd, Counts, [Next]_vars PROVE Counts'
<1>n. MaxFaults \in Nat
  BY CrashAssumption DEF CrashAssumption
<1>1. ASSUME UNCHANGED <<heap, ports, faults>> PROVE Counts'
  BY <1>1 DEF Counts
<1>2. ASSUME NEW t \in Threads, Monitoring(t) PROVE Counts'
  BY <1>2 DEF Monitoring, Receive, Suspend, Test, Mark, Switch, Malloc, FillContext, Handle, Counts, shared
<1>3. ASSUME NEW t \in Threads, Reporting(t) PROVE UNCHANGED <<heap, ports, faults>>
  BY <1>3 DEF Reporting, OnCrash, NextPath, OpenReport, WriteSection, Rename, Reopen, Embed, Unlink,
     WriteRest, SaveTransaction, shared
<1>4. ASSUME NEW t \in Threads, Leaving(t) PROVE UNCHANGED <<heap, ports, faults>>
  BY <1>4 DEF Leaving, Finish, Resume, Uncaught, Raise, Reply, SignalAfterReply, shared
<1>5. ASSUME NEW t \in Threads, CrashInHandler(t) PROVE Counts'
  BY <1>5, <1>n DEF CrashInHandler, Counts
<1>6. ASSUME NEW t \in App, NEW kind \in {"fault", "abort", "objc", "cpp"}, Crash(t, kind)
      PROVE  UNCHANGED <<heap, ports, faults>>
  BY <1>6 DEF Crash
<1>7. ASSUME NEW t \in App, TakeHeap(t) \/ ReleaseHeap(t) PROVE Counts'
  BY <1>7 DEF TakeHeap, ReleaseHeap, Counts, shared
<1>8. CASE UNCHANGED vars
  BY <1>1, <1>8 DEF vars, shared
<1> QED
  BY <1>1, <1>2, <1>3, <1>4, <1>5, <1>6, <1>7, <1>8 DEF Next, Step

\* Whatever has crashed, and in whatever order, at most two reports are begun.
AtMostTwoReports == lastPath <= 2

LEMMA InitStored == Init => Crowd /\ Stored /\ Counts
<1> SUFFICES ASSUME Init PROVE Stored /\ Counts
  BY InitCrowd
<1>1. Cardinality(App) \in Nat /\ 0 \in Reports
  BY FiniteThreads DEF Reports
<1>2. inodes \in Seq({}) /\ Len(inodes) = 0
  BY DEF Init
<1>3. Stored
  BY <1>1, <1>2 DEF Init, Stored
<1>4. Counts
  BY CrashAssumption DEF Init, Counts, CrashAssumption
<1> QED
  BY <1>3, <1>4

\* However many threads crash, however often the handlers crash on top of it, and in
\* whatever order: no more reports are begun, nor numbers given out by NextPath, than there
\* are threads in the application, and every variable has the values it is meant to have.
THEOREM CrashTyped == Spec => []CrashTypeOK
<1> DEFINE Inv == Crowd /\ Stored /\ Counts
<1>1. Init => Inv
  BY InitStored
<1>2. Inv /\ [Next]_vars => Inv'
  BY NextCrowd, StoredStep, CountsStep
<1>3. Inv => CrashTypeOK
  <2> SUFFICES ASSUME Inv PROVE CrashTypeOK
    OBVIOUS
  <2>1. port \in Seq(Threads)
    BY CrowdTypes DEF Threads
  <2>2. crashed \subseteq App /\ dead \in BOOLEAN
    BY DEF Crowd, Kept, FlagsOK
  <2> QED
    BY <2>1, <2>2, CrowdTypes DEF CrashTypeOK, Stored, Counts
<1> QED
  BY <1>1, <1>2, <1>3, PTL DEF Spec

\* onCrash takes a new number only for a crash that it does not hold for one of the reporter
\* itself.  Two threads get past the test of g_handlingFatalException before it is set only if
\* one is the primary exception thread and the other one of the application's: two of those
\* would have stopped each other.  So a second report is possible, and a third is not.
THEOREM NeverThreeReports == Spec => []AtMostTwoReports
<1>1. Crowd => AtMostTwoReports
  BY FiniteParts DEF Crowd, Enough, AtMostTwoReports
<1> QED
  BY <1>1, InitCrowd, NextCrowd, PTL DEF Spec
=============================================================================
