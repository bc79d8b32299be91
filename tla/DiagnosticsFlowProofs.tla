------------------------- MODULE DiagnosticsFlowProofs -------------------------
(***************************************************************************)
(* Proofs about DiagnosticsFlow for every set of builds, every number of   *)
(* commands, output sizes and pipe capacity, and every kind of failure.    *)
(***************************************************************************)
EXTENDS DiagnosticsFlow, DiagnosticBundleBuilderProofs, SequenceTheorems, TLAPS

\* The part of the type invariant that the arguments below need.
Shape == /\ pc \in [Builds -> Inner \cup {"idle", "mkdir", "done"}]
         /\ calls \in [Builds -> Nat]
         /\ queue \in Seq(Builds)
         /\ stack \in Seq(Frames)

\* A warning is always alone on the stack, and the controls are then enabled.
WarningInv == \A i \in DOMAIN stack : stack[i].alert = "warning" => Len(stack) = 1 /\ enabled

\* Only finished builds wait on the main queue, and never two.
QueueInv == Len(queue) <= 1 /\ \A b \in Builds : Waiting(b) => pc[b] = "done"

FlowInv == Shape /\ WarningInv /\ QueueInv /\ OneAtATime /\ ControlsReflect

LEMMA EmptySequence ==
  ASSUME NEW S, NEW s, s = <<>>
  PROVE  s \in Seq(S) /\ Len(s) = 0 /\ DOMAIN s = {}
  OBVIOUS

LEMMA OneElement ==
  ASSUME NEW S, NEW s \in Seq(S), s # <<>>, Len(s) <= 1
  PROVE  Len(s) = 1 /\ Head(s) = s[1] /\ s[1] \in S /\ Tail(s) = <<>>
<1>1. Len(s) \in Nat \ {0}
  BY EmptySeq
<1>2. Len(s) = 1
  BY <1>1
<1>3. Head(s) = s[1] /\ s[1] \in S
  BY <1>2
<1>4. Tail(s) \in Seq(S) /\ Len(Tail(s)) = 0
  BY <1>2, HeadTailProperties
<1>5. Tail(s) = <<>>
  BY <1>4, EmptySeq
<1> QED
  BY <1>2, <1>3, <1>5

\* Closing the innermost alert leaves the others as they were.
LEMMA PopFrames ==
  ASSUME Shape, stack # <<>>, Pop
  PROVE  /\ stack' \in Seq(Frames)
         /\ Len(stack') = Len(stack) - 1
         /\ DOMAIN stack' = 1 .. Len(stack) - 1
         /\ \A i \in DOMAIN stack' : i \in DOMAIN stack /\ stack'[i] = stack[i]
<1>1. Len(stack) \in Nat \ {0} /\ DOMAIN stack = 1 .. Len(stack)
  BY DEF Shape
<1>2. stack' = SubSeq(stack, 1, Len(stack) - 1)
  BY DEF Pop
<1>3. /\ stack' \in Seq(Frames)
      /\ Len(stack') = Len(stack) - 1
      /\ \A i \in 1 .. Len(stack) - 1 : stack'[i] = stack[i]
  BY <1>1, <1>2 DEF Shape
<1> QED
  BY <1>1, <1>3

LEMMA PushFrame ==
  ASSUME Shape, NEW f \in Frames, stack' = Append(stack, f)
  PROVE  /\ stack' \in Seq(Frames)
         /\ Len(stack') = Len(stack) + 1
         /\ DOMAIN stack' = 1 .. Len(stack) + 1
         /\ stack'[Len(stack) + 1] = f
         /\ \A i \in 1 .. Len(stack) : i \in DOMAIN stack /\ stack'[i] = stack[i]
  BY DEF Shape

\* Pending depends only on positions and on the main queue.
LEMMA PendingFrame == ASSUME pc' = pc, queue' = queue PROVE Pending' = Pending
  BY DEF Pending, InFlight, Waiting
-----------------------------------------------------------------------------
LEMMA FlowInvInit == FlowInit => FlowInv
<1> SUFFICES ASSUME FlowInit PROVE FlowInv
  OBVIOUS
<1>1. queue = <<>> /\ stack = <<>> /\ DOMAIN queue = {} /\ DOMAIN stack = {} /\ Len(queue) = 0
  BY DEF FlowInit
<1>2. Pending = {}
  BY <1>1 DEF FlowInit, BuilderInit, Pending, InFlight, Waiting
<1>3. Shape
  BY <1>1, EmptySequence DEF FlowInit, BuilderInit, Shape
<1>4. WarningInv /\ QueueInv
  BY <1>1 DEF WarningInv, QueueInv, Waiting
<1>5. OneAtATime /\ ControlsReflect
  BY <1>2 DEF OneAtATime, ControlsReflect, FlowInit
<1> QED
  BY <1>3, <1>4, <1>5 DEF FlowInv

\* A click that starts a build: nothing was pending, and the build becomes the
\* only pending one.
LEMMA StartBuild ==
  ASSUME FlowInv, enabled, NEW b \in Builds, NEW s \in BOOLEAN, Request(b, s), queue' = queue,
         SetLoadingState(TRUE), stack' = <<>>
  PROVE  FlowInv'
<1>1. Pending = {}
  BY DEF FlowInv, ControlsReflect
<1>2. pc' = [pc EXCEPT ![b] = "mkdir"] /\ calls' = calls /\ pc[b] = "idle"
  BY DEF Request, Goto, ending
<1>3. \A c \in Builds : ~Waiting(c) /\ ~InFlight(c)
  BY <1>1 DEF Pending
<1>4. \A c \in Builds : ~Waiting(c)' /\ (InFlight(c)' <=> c = b)
  BY <1>2, <1>3 DEF Waiting, InFlight, FlowInv, Shape
<1>5. Pending' = {b}
  BY <1>4 DEF Pending
<1>6. Shape'
  <2>1. stack' \in Seq(Frames)
    BY EmptySequence
  <2> QED
    BY <2>1, <1>2 DEF FlowInv, Shape
<1>8. QueueInv'
  BY <1>4 DEF FlowInv, QueueInv
<1>9. WarningInv'
  <2>1. DOMAIN stack' = {}
    BY EmptySequence
  <2> QED
    BY <2>1 DEF WarningInv
<1>7. OneAtATime' /\ ControlsReflect'
  BY <1>5 DEF OneAtATime, ControlsReflect, SetLoadingState
<1> QED
  BY <1>6, <1>7, <1>8, <1>9 DEF FlowInv

\* A step that leaves positions, main queue and controls alone and leaves no
\* misplaced warning behind.
LEMMA AlertStep ==
  ASSUME FlowInv, pc' = pc, calls' = calls, queue' = queue,
         spinner' = spinner, enabled' = enabled,
         stack' \in Seq(Frames), WarningInv'
  PROVE  FlowInv'
<1>1. Pending' = Pending /\ \A b \in Builds : Waiting(b)' <=> Waiting(b)
  BY PendingFrame DEF Waiting
<1> QED
  BY <1>1 DEF FlowInv, Shape, QueueInv, OneAtATime, ControlsReflect

LEMMA FlowInvNext == FlowInv /\ [FlowNext]_fvars => FlowInv'
<1> SUFFICES ASSUME FlowInv, [FlowNext]_fvars PROVE FlowInv'
  OBVIOUS
<1>s. Shape
  BY DEF FlowInv
<1>l. Len(stack) \in Nat /\ DOMAIN stack = 1 .. Len(stack) /\ (stack # <<>> => Len(stack) > 0)
  BY <1>s DEF Shape
<1>1. ASSUME NEW b \in Builds, CollectLogs(b) PROVE FlowInv'
  BY <1>1, StartBuild DEF CollectLogs, Clickable
<1>2. ASSUME NEW b \in Builds, CollectLogsAndSys(b) PROVE FlowInv'
  <2>1. stack = <<>> /\ enabled /\ Len(stack) = 0
    BY <1>2 DEF CollectLogsAndSys, Clickable
  <2>2. Push("warning", b) /\ enabled' = enabled /\ spinner' = spinner
    BY <1>2 DEF CollectLogsAndSys, ui
  <2> DEFINE f == [alert |-> "warning", by |-> b]
  <2>f. f \in Frames /\ stack' = Append(stack, f)
    BY <2>2 DEF Frames, Push
  <2> HIDE DEF f
  <2>3. /\ stack' \in Seq(Frames) /\ Len(stack') = 0 + 1
    BY <2>1, <2>f, <1>s, PushFrame
  <2>4. WarningInv'
    BY <2>1, <2>2, <2>3 DEF WarningInv
  <2> QED
    BY <1>2, <2>2, <2>3, <2>4, AlertStep DEF CollectLogsAndSys, ui, ending
<1>3. ASSUME Top("warning") PROVE stack # <<>> /\ Len(stack) = 1 /\ enabled
  BY <1>3, <1>l DEF Top, FlowInv, WarningInv
<1>4. ASSUME Top("warning"), Pop PROVE stack' = <<>>
  BY <1>4, <1>3, <1>s, PopFrames
<1>5. ASSUME NEW b \in Builds, Continue(b) PROVE FlowInv'
  BY <1>5, <1>3, <1>4, StartBuild DEF Continue
<1>6. CASE Cancel
  <2>1. stack' = <<>>
    BY <1>6, <1>4 DEF Cancel
  <2>2. DOMAIN stack' = {} /\ stack' \in Seq(Frames)
    BY <2>1, EmptySequence
  <2>3. WarningInv'
    BY <2>2 DEF WarningInv
  <2> QED
    BY <1>6, <2>2, <2>3, AlertStep DEF Cancel, ending
<1>7. ASSUME NEW b \in Builds, Work(b) PROVE FlowInv'
  <2>1. InFlight(b) /\ b \in Pending
    BY <1>7, <1>s, BuildStepShape DEF Work, Pending, InFlight
  <2>2. Pending = {b} /\ ~enabled
    BY <2>1 DEF FlowInv, OneAtATime, ControlsReflect
  <2>3. \A c \in Builds : ~Waiting(c) /\ (InFlight(c) => c = b)
    BY <2>1, <2>2 DEF Pending, FlowInv, QueueInv, InFlight
  <2>4. queue = <<>>
    BY <2>3, <1>s DEF Waiting, Shape
  <2>5. stack' = stack /\ enabled' = enabled /\ spinner' = spinner
    BY <1>7 DEF Work, ui
  <2>6. ASSUME NEW l \in Inner, Moves(b, l) PROVE FlowInv'
    <3>1. queue' = queue
      BY <1>7, <2>6, <1>s DEF Work, Shape, Moves, Ends
    <3>2. \A c \in Builds : ~Waiting(c)' /\ (InFlight(c)' <=> c = b)
      BY <2>6, <3>1, <2>3, <2>1, <1>s DEF Waiting, InFlight, Shape, Moves, Ends, Inner
    <3>3. Pending' = {b}
      BY <3>2 DEF Pending
    <3>4. Shape'
      BY <2>6, <3>1, <2>5, <1>s DEF Shape, Moves
    <3>5. QueueInv'
      BY <3>1, <3>2 DEF QueueInv, FlowInv
    <3> QED
      BY <3>3, <3>4, <3>5, <2>2, <2>5 DEF FlowInv, WarningInv, OneAtATime, ControlsReflect
  <2>7. CASE Ends(b)
    <3>1. queue' = <<b>>
      BY <1>7, <2>7, <2>4, <1>s DEF Work, Shape, Moves, Ends
    <3>2. \A c \in Builds : (Waiting(c)' <=> c = b) /\ ~InFlight(c)'
      BY <2>7, <3>1, <2>3, <1>s DEF Waiting, InFlight, Shape, Moves, Ends, Inner
    <3>3. Pending' = {b}
      BY <3>2 DEF Pending
    <3>4. Shape'
      <4>1. queue' \in Seq(Builds) /\ Len(queue') = 1
        BY <3>1
      <4>2. pc' \in [Builds -> Inner \cup {"idle", "mkdir", "done"}] /\ calls' \in [Builds -> Nat]
        BY <2>7, <1>s DEF Shape, Ends
      <4> QED
        BY <4>1, <4>2, <2>5, <1>s DEF Shape
    <3>5. QueueInv'
      BY <2>7, <3>1, <3>2, <1>s DEF QueueInv, Ends, Shape
    <3> QED
      BY <3>3, <3>4, <3>5, <2>2, <2>5 DEF FlowInv, WarningInv, OneAtATime, ControlsReflect
  <2> QED
    BY <1>7, <1>s, <2>6, <2>7, BuildStepShape DEF Work
<1>8. CASE RunBlock
  <2>0. queue \in Seq(Builds) /\ queue # <<>> /\ Len(queue) \in Nat /\ Len(queue) <= 1
    BY <1>8, <1>s DEF RunBlock, Shape, FlowInv, QueueInv
  <2>l. Len(queue) = 1
    BY <2>0, OneElement
  <2>t. Head(queue) = queue[1] /\ Tail(queue) = <<>> /\ queue[1] \in Builds
    BY <2>0, OneElement
  <2> PICK b \in Builds : b = Head(queue)
    BY <2>t
  <2>a. b = queue[1] /\ 1 \in DOMAIN queue
    BY <2>0, <2>l, <2>t
  <2>1. b \in Builds /\ Waiting(b) /\ Len(queue) = 1
    BY <2>a, <2>l DEF Waiting
  <2>2. Pending = {b} /\ ~enabled
    BY <2>1 DEF Pending, FlowInv, OneAtATime, ControlsReflect
  <2>3. queue' = <<>> /\ pc' = pc /\ calls' = calls /\ enabled' = TRUE /\ spinner' = FALSE
    BY <1>8, <2>t DEF RunBlock, SetLoadingState, ending
  <2>4. \A c \in Builds : ~Waiting(c)' /\ ~InFlight(c)'
    BY <2>3, <2>2, <2>1 DEF Waiting, InFlight, Pending, FlowInv, QueueInv
  <2>5. Pending' = {}
    BY <2>4 DEF Pending
  <2>6. \A i \in DOMAIN stack : stack[i].alert # "warning"
    BY <2>2 DEF FlowInv, WarningInv
  <2>7. Push("result", b)
    BY <1>8 DEF RunBlock
  <2>8. /\ stack' \in Seq(Frames)
        /\ \A i \in DOMAIN stack' : stack'[i].alert # "warning"
    <3> DEFINE f == [alert |-> "result", by |-> b]
    <3>f. f \in Frames /\ stack' = Append(stack, f) /\ f.alert = "result"
      BY <2>7, <2>1 DEF Frames, Push
    <3> HIDE DEF f
    <3>1. /\ DOMAIN stack' = 1 .. Len(stack) + 1
          /\ stack'[Len(stack) + 1] = f
          /\ \A i \in 1 .. Len(stack) : i \in DOMAIN stack /\ stack'[i] = stack[i]
          /\ stack' \in Seq(Frames)
      BY <3>f, <1>s, PushFrame
    <3> QED
      BY <3>1, <3>f, <2>6, <1>l
  <2>9. WarningInv' /\ Shape'
    <3>1. queue' \in Seq(Builds)
      BY <2>3, EmptySequence
    <3> QED
      BY <3>1, <2>3, <2>8, <1>s DEF WarningInv, Shape
  <2>10. QueueInv'
    <3>1. Len(queue') = 0
      BY <2>3, EmptySequence
    <3> QED
      BY <3>1, <2>4 DEF QueueInv
  <2> QED
    BY <2>3, <2>5, <2>9, <2>10 DEF FlowInv, OneAtATime, ControlsReflect
<1>9. CASE DismissResult \/ CloseOther
  <2>1. stack # <<>> /\ Pop /\ ~Top("warning") /\ pc' = pc /\ calls' = calls
        /\ queue' = queue /\ enabled' = enabled /\ spinner' = spinner
    BY <1>9 DEF DismissResult, CloseOther, Top, bvars, ending, ui
  <2>2. \A i \in DOMAIN stack : stack[i].alert # "warning"
    BY <2>1, <1>l DEF FlowInv, WarningInv, Top
  <2>3. /\ stack' \in Seq(Frames)
        /\ \A i \in DOMAIN stack' : i \in DOMAIN stack /\ stack'[i] = stack[i]
    BY <2>1, <1>s, PopFrames
  <2>4. WarningInv'
    BY <2>2, <2>3 DEF WarningInv
  <2> QED
    BY <2>1, <2>3, <2>4, AlertStep
<1>10. CASE OpenOther
  <2>1. stack = <<>> /\ Push("other", Nobody) /\ Len(stack) = 0 /\ pc' = pc /\ calls' = calls
        /\ queue' = queue /\ enabled' = enabled /\ spinner' = spinner
    BY <1>10 DEF OpenOther, bvars, ending, ui
  <2> DEFINE f == [alert |-> "other", by |-> Nobody]
  <2>f. f \in Frames /\ stack' = Append(stack, f) /\ f.alert = "other"
    BY <2>1 DEF Frames, Push
  <2> HIDE DEF f
  <2>2. /\ stack' \in Seq(Frames) /\ DOMAIN stack' = 1 .. 0 + 1
        /\ stack'[0 + 1] = f
    BY <2>1, <2>f, <1>s, PushFrame
  <2>3. WarningInv'
    BY <2>2, <2>f DEF WarningInv
  <2> QED
    BY <2>1, <2>2, <2>3, AlertStep
<1>11. ASSUME \/ \E b \in Builds : CommandPrints(b)
              \/ Environment /\ UNCHANGED <<ui, queue, stack>>
              \/ OthersLog \/ UNCHANGED fvars
       PROVE FlowInv'
  <2>1. pc' = pc /\ calls' = calls /\ queue' = queue /\ stack' = stack
        /\ enabled' = enabled /\ spinner' = spinner
    BY <1>11 DEF CommandPrints, ChildWrite, Environment, Tick, MoveAway, OthersLog, fvars, bvars,
       ui, ending
  <2>2. stack' \in Seq(Frames) /\ WarningInv'
    BY <2>1, <1>s DEF Shape, FlowInv, WarningInv
  <2> QED
    BY <2>1, <2>2, AlertStep
<1> QED
  BY <1>1, <1>2, <1>5, <1>6, <1>7, <1>8, <1>9, <1>10, <1>11 DEF FlowNext

\* Never are two builds pending: the buttons keep the second request out until
\* the first one's result has been reported, whatever alerts are open.
THEOREM OneBuildAtATime == FlowSpec => []OneAtATime
<1>1. FlowInv => OneAtATime
  BY DEF FlowInv
<1> QED
  BY <1>1, FlowInvInit, FlowInvNext, PTL DEF FlowSpec

\* The buttons and the spinner tell the truth at every moment: disabled and
\* spinning exactly while a build is pending.
THEOREM ControlsTellTheTruth == FlowSpec => []ControlsReflect
<1>1. FlowInv => ControlsReflect
  BY DEF FlowInv
<1> QED
  BY <1>1, FlowInvInit, FlowInvNext, PTL DEF FlowSpec

-----------------------------------------------------------------------------
\* A warning belongs to a request.
Asked == \A i \in DOMAIN stack : stack[i].alert = "warning" => stack[i].by \in Builds

\* How b ended has been logged.
Logged(b) == \E j \in DOMAIN journal : journal[j].by = b /\ journal[j].what \in {"created", "failed"}

\* A build that has copied the log is still pending, or its end has been logged.
Reported == \A b \in Builds : shown[b].upTo > 0 => b \in Pending \/ Logged(b)

\* After a trim the newest entries are still there.
Trimmed == /\ dropped \in 0 .. Len(journal)
           /\ dropped > 0 => Len(journal) - dropped > MaxEntries - TrimCount

FlowStatus == status \in {"nothing", "working", "cancelled", "success", "failed"}

FullInv == /\ FlowInv /\ BuilderInv /\ Asked /\ FlowStatus
           /\ Trimmed /\ Reported /\ BundleLogComplete

LEMMA FullInvInit == FlowInit => FullInv
<1> SUFFICES ASSUME FlowInit PROVE FullInv
  OBVIOUS
<1>1. FlowInv /\ BuilderInv
  BY FlowInvInit, BuilderInvInit DEF FlowInit
<1>2. DOMAIN stack = {}
  BY EmptySequence DEF FlowInit
<1>3. \A b \in Builds : ~(shown[b].upTo > 0)
  BY DEF FlowInit, BuilderInit, Nothing
<1>4. Trimmed
  BY DEF FlowInit, BuilderInit, Trimmed
<1> QED
  BY <1>1, <1>2, <1>3, <1>4 DEF FullInv, Asked, FlowStatus, Reported, BundleLogComplete, FlowInit

\* The result block on the main queue.
LEMMA RunBlockFacts ==
  ASSUME FlowInv, RunBlock
  PROVE  \E b \in Builds :
           /\ Head(queue) = b /\ Waiting(b) /\ pc[b] = "done"
           /\ Pending = {b} /\ ~enabled /\ Pending' = {}
           /\ queue = <<b>> /\ queue' = <<>> /\ pc' = pc
<1>1. queue \in Seq(Builds) /\ queue # <<>> /\ Len(queue) <= 1
  BY DEF RunBlock, FlowInv, Shape, QueueInv
<1>2. Len(queue) = 1 /\ Head(queue) = queue[1] /\ queue[1] \in Builds /\ Tail(queue) = <<>>
  BY <1>1, OneElement
<1> PICK b \in Builds : b = queue[1]
  BY <1>2
<1>3. queue = <<b>> /\ Waiting(b)
  BY <1>1, <1>2 DEF Waiting
<1>4. pc[b] = "done" /\ Pending = {b} /\ ~enabled
  BY <1>3 DEF FlowInv, QueueInv, Pending, OneAtATime, ControlsReflect
<1>5. queue' = <<>> /\ pc' = pc
  BY <1>2 DEF RunBlock
<1>6. \A c \in Builds : ~Waiting(c)' /\ ~InFlight(c)'
  BY <1>3, <1>4, <1>5 DEF Waiting, InFlight, Pending
<1>7. Pending' = {}
  BY <1>6 DEF Pending
<1> QED
  BY <1>2, <1>3, <1>4, <1>5, <1>7

\* A working build is the only pending one, and remains it until its block has run.
LEMMA WorkFacts ==
  ASSUME FlowInv, NEW b \in Builds, Work(b)
  PROVE  /\ pc[b] \notin {"idle", "done"} /\ Pending = {b} /\ Pending' = {b}
         /\ pc'[b] = "done" => Waiting(b)'
         /\ \A c \in Builds : c # b => ~Waiting(c) /\ ~Waiting(c)'
<1>1. pc[b] \notin {"idle", "done"} /\ (Ends(b) \/ \E l \in Inner : Moves(b, l))
  BY BuildStepShape DEF Work
<1>2. InFlight(b) /\ b \in Pending
  BY <1>1 DEF Pending, InFlight
<1>3. Pending = {b}
  BY <1>2 DEF FlowInv, OneAtATime
<1>4. \A c \in Builds : ~Waiting(c) /\ (InFlight(c) => c = b)
  BY <1>1, <1>3 DEF Pending, FlowInv, QueueInv
<1>5. queue = <<>>
  BY <1>4 DEF Waiting, FlowInv, Shape
<1>6. /\ pc'[b] = "done" => queue' = <<b>>
      /\ queue' \in {<<>>, <<b>>}
      /\ \A c \in Builds : c # b => pc'[c] = pc[c]
      /\ pc'[b] # "idle"
  BY <1>1, <1>5 DEF Work, FlowInv, Shape, Moves, Ends, Inner
<1>7. \A c \in Builds : c # b => ~Waiting(c)' /\ ~InFlight(c)'
  BY <1>4, <1>6 DEF Waiting, InFlight
<1>8. pc'[b] = "done" => Waiting(b)'
  BY <1>6 DEF Waiting
<1>9. Pending' = {b}
  BY <1>6, <1>7, <1>8 DEF Pending, InFlight
<1> QED
  BY <1>1, <1>3, <1>4, <1>7, <1>8, <1>9

\* The steps that start a build.
LEMMA StartFacts ==
  ASSUME FlowInv, enabled, NEW b \in Builds, NEW s \in BOOLEAN, Request(b, s), queue' = queue
  PROVE  /\ Pending = {} /\ Pending' = {b} /\ pc[b] = "idle"
         /\ \A c \in Builds : c # b => pc'[c] = pc[c]
         /\ pc'[b] = "mkdir" /\ \A c \in Builds : ~Waiting(c) /\ ~Waiting(c)'
<1>1. Pending = {}
  BY DEF FlowInv, ControlsReflect
<1>2. pc' = [pc EXCEPT ![b] = "mkdir"] /\ pc[b] = "idle"
  BY DEF Request, Goto
<1>3. \A c \in Builds : ~Waiting(c) /\ ~InFlight(c)
  BY <1>1 DEF Pending
<1>4. \A c \in Builds : ~Waiting(c)' /\ (InFlight(c)' <=> c = b)
  BY <1>2, <1>3 DEF Waiting, InFlight, FlowInv, Shape
<1>5. Pending' = {b}
  BY <1>4 DEF Pending
<1> QED
  BY <1>1, <1>2, <1>3, <1>4, <1>5 DEF FlowInv, Shape

\* With a warning open it is the only alert, and the controls are enabled.
LEMMA WarningFacts ==
  ASSUME FlowInv, Asked, Top("warning")
  PROVE  /\ Len(stack) = 1 /\ enabled /\ Pending = {} /\ stack[1].alert = "warning"
         /\ stack[Len(stack)].by \in Builds /\ (Pop => stack' = <<>>)
<1>1. stack # <<>> /\ Len(stack) \in Nat \ {0} /\ Len(stack) \in DOMAIN stack
      /\ stack[Len(stack)].alert = "warning"
  BY DEF Top, FlowInv, Shape
<1>2. Len(stack) = 1 /\ enabled /\ stack[Len(stack)].by \in Builds
  BY <1>1 DEF FlowInv, WarningInv, Asked
<1>3. Pending = {}
  BY <1>2 DEF FlowInv, ControlsReflect
<1>4. Pop => stack' = <<>>
  BY <1>1, <1>2, PopFrames DEF FlowInv
<1> QED
  BY <1>1, <1>2, <1>3, <1>4

-----------------------------------------------------------------------------
\* The builder's part under the steps of the flow.
LEMMA BuilderInvFlow ==
  ASSUME FlowInv, Asked, BuilderInv, [FlowNext]_fvars PROVE BuilderInv'
<1>t. BuilderTypeOK
  BY DEF BuilderInv
<1>1. ASSUME NEW b \in Builds, CollectLogs(b) \/ CollectLogsAndSys(b) \/ Continue(b)
      PROVE  BuilderInv'
  <2>1. Log(b, "clicked") \/ Log(b, "continued")
    BY <1>1 DEF CollectLogs, CollectLogsAndSys, Continue
  <2>2. journal' \in Seq(Entries) /\ dropped' \in Nat
    BY <1>t, <2>1, LogKeeps DEF Events
  <2> QED
    BY <1>1, <2>2, RequestKeeps, QuietKeeps DEF CollectLogs, CollectLogsAndSys, Continue
<1>2. ASSUME NEW b \in Builds, Work(b) PROVE BuilderInv'
  BY <1>2, BuildStepKeeps DEF Work
<1>3. ASSUME NEW b \in Builds, CommandPrints(b) PROVE BuilderInv'
  BY <1>3, ChildWriteKeeps DEF CommandPrints
<1>4. CASE Cancel
  <2>1. journal' \in Seq(Entries) /\ dropped' \in Nat
    BY <1>4, <1>t, WarningFacts, LogKeeps DEF Cancel, Events
  <2> QED
    BY <1>4, <2>1, QuietKeeps DEF Cancel
<1>5. CASE RunBlock
  <2>1. PICK b \in Builds : Head(queue) = b
    BY <1>5, RunBlockFacts
  <2>2. Log(b, "created") \/ Log(b, "failed")
    BY <1>5, <2>1 DEF RunBlock
  <2>3. journal' \in Seq(Entries) /\ dropped' \in Nat
    BY <1>t, <2>2, LogKeeps DEF Events
  <2> QED
    BY <1>5, <2>3, QuietKeeps DEF RunBlock
<1>6. CASE DismissResult \/ CloseOther \/ UNCHANGED fvars \/ Environment
  BY <1>6, EnvironmentKeeps DEF DismissResult, CloseOther, fvars
<1>7. CASE OpenOther \/ OthersLog
  <2>1. journal' \in Seq(Entries) /\ dropped' \in Nat
    BY <1>7, <1>t, LogKeeps DEF OpenOther, OthersLog, Events
  <2> QED
    BY <1>7, <2>1, QuietKeeps DEF OpenOther, OthersLog
<1> QED
  BY <1>1, <1>2, <1>3, <1>4, <1>5, <1>6, <1>7 DEF FlowNext

-----------------------------------------------------------------------------
\* The application log a bundle holds.

\* Nothing is logged.
LEMMA SilentStep ==
  ASSUME Trimmed, Reported, BundleLogComplete, UNCHANGED log, shown' = shown,
         \A b \in Builds : b \in Pending => b \in Pending'
  PROVE  Trimmed' /\ Reported' /\ BundleLogComplete'
  BY DEF Trimmed, Reported, BundleLogComplete, InFile, Logged, log

\* A trim leaves the newest entries.
LEMMA TrimmingStep ==
  ASSUME Trimmed, BuilderTypeOK, NEW n \in 1 .. 2,
         Len(journal') = Len(journal) + n, dropped' = Trim(n)
  PROVE  Trimmed'
<1>1. Len(journal) \in Nat
  BY DEF BuilderTypeOK
<1> QED
  BY <1>1, BuilderAssumption DEF Trimmed, Trim

\* An entry by c is logged while no other request is pending, or c is no request; if c
\* stops being pending, the entry says how it ended.
LEMMA LoggingStep ==
  ASSUME Trimmed, Reported, BundleLogComplete, BuilderTypeOK, NEW c \in Builds \cup {Nobody},
         NEW what \in Events, Log(c, what) \/ LogTwice(c, what), shown' = shown,
         Pending \subseteq {c} \/ c = Nobody,
         \A b \in Builds : b \in Pending => b \in Pending' \/ (b = c /\ what \in {"created", "failed"})
  PROVE  Trimmed' /\ Reported' /\ BundleLogComplete'
<1>t. journal \in Seq(Entries)
  BY DEF BuilderTypeOK
<1>e. PICK e : e = Entry(c, what)
  OBVIOUS
<1>f. e \in Entries /\ e.by = c /\ e.what = what
  BY <1>e DEF Entry, Entries, BuilderTypeOK
<1>a. journal' = Append(journal, e) \/ journal' = Append(Append(journal, e), e)
  BY <1>e DEF Log, LogTwice
<1> PICK n : n = Len(journal)
  OBVIOUS
<1>1. /\ n \in Nat /\ DOMAIN journal = 1 .. n
      /\ \E k \in 1 .. 2 : DOMAIN journal' = 1 .. n + k
      /\ \A i \in 1 .. n : journal'[i] = journal[i]
      /\ \A i \in DOMAIN journal' : i > n => journal'[i] = e
      /\ n + 1 \in DOMAIN journal'
  <2> HIDE DEF Entries
  <2> QED
    BY <1>t, <1>f, <1>a
<1>0. Trimmed'
  <2>1. CASE Log(c, what)
    <3>1. Len(journal') = Len(journal) + 1
      BY <1>t, <2>1 DEF Log
    <3> QED
      BY <2>1, <3>1, TrimmingStep DEF Log
  <2>2. CASE LogTwice(c, what)
    <3>1. Len(journal') = Len(journal) + 2
      BY <1>t, <2>2 DEF LogTwice
    <3> QED
      BY <2>2, <3>1, TrimmingStep DEF LogTwice
  <2> QED
    BY <2>1, <2>2
<1>3. \A b \in Builds : Logged(b) => Logged(b)'
  BY <1>1 DEF Logged
<1>4. what \in {"created", "failed"} => Logged(c)'
  BY <1>1, <1>f DEF Logged
<1>5. Reported'
  BY <1>3, <1>4 DEF Reported
<1>6. ASSUME NEW b \in Builds, shown[b].upTo > 0, NEW i \in 1 .. n,
             journal'[i].by \in Builds \ {b}
      PROVE  \/ InFile(b, i)'
             \/ /\ i <= shown[b].upTo
                /\ \/ journal'[i].at <= shown[b].since
                   \/ shown[b].upTo - i > MaxEntries - TrimCount
             \/ \E j \in DOMAIN journal' : j < i /\ journal'[j].by = b
                                      /\ journal'[j].what \in {"created", "failed"}
  <2>1. /\ journal'[i] = journal[i] /\ i \in DOMAIN journal /\ shown' = shown
        /\ \A j \in DOMAIN journal : j \in DOMAIN journal' /\ journal'[j] = journal[j]
    BY <1>1
  <2>2. InFile(b, i)' <=> InFile(b, i)
    BY <2>1 DEF InFile
  <2> QED
    BY <1>6, <2>1, <2>2 DEF BundleLogComplete
<1>7. ASSUME NEW b \in Builds, shown[b].upTo > 0, NEW i \in DOMAIN journal', i > n,
             journal'[i].by \in Builds \ {b}
      PROVE  \E j \in DOMAIN journal' : j < i /\ journal'[j].by = b
                                   /\ journal'[j].what \in {"created", "failed"}
  <2>1. c # Nobody /\ b # c
    BY <1>1, <1>7, <1>f, BuilderAssumption
  <2>2. Logged(b)
    BY <1>7, <2>1 DEF Reported
  <2> QED
    BY <1>1, <1>7, <2>2 DEF Logged
<1>8. BundleLogComplete'
  <2> SUFFICES ASSUME NEW b \in Builds, shown[b].upTo > 0, NEW i \in DOMAIN journal',
                      journal'[i].by \in Builds \ {b}
               PROVE  \/ InFile(b, i)'
                      \/ /\ i <= shown[b].upTo
                         /\ \/ journal'[i].at <= shown[b].since
                            \/ shown[b].upTo - i > MaxEntries - TrimCount
                      \/ \E j \in DOMAIN journal' : j < i /\ journal'[j].by = b
                                               /\ journal'[j].what \in {"created", "failed"}
    BY DEF BundleLogComplete
  <2>1. i \in 1 .. n \/ i > n
    BY <1>1
  <2> QED
    BY <1>6, <1>7, <2>1
<1> QED
  BY <1>0, <1>5, <1>8

\* Build b copies what the log holds and is not too old.
LEMMA CopyingStep ==
  ASSUME Trimmed, Reported, BundleLogComplete, BuilderTypeOK, NEW b \in Builds, b \in Pending',
         shown' = [shown EXCEPT ![b] =
                    [from |-> dropped + 1, upTo |-> Len(journal), since |-> clock - Window]],
         UNCHANGED log, Pending' = Pending
  PROVE  Trimmed' /\ Reported' /\ BundleLogComplete'
<1>1. /\ shown'[b] = [from |-> dropped + 1, upTo |-> Len(journal), since |-> clock - Window]
      /\ DOMAIN journal = 1 .. Len(journal) /\ Len(journal) \in Nat
      /\ \A c \in Builds : c # b => shown'[c] = shown[c]
      /\ journal' = journal /\ dropped' = dropped
  BY DEF BuilderTypeOK, log
<1>2. Reported'
  BY <1>1 DEF Reported, Logged
<1>3. ASSUME NEW i \in DOMAIN journal
      PROVE  \/ InFile(b, i)'
             \/ /\ i <= shown'[b].upTo
                /\ \/ journal[i].at <= shown'[b].since
                   \/ shown'[b].upTo - i > MaxEntries - TrimCount
  <2>0. journal[i] \in Entries
    BY <1>3 DEF BuilderTypeOK
  <2>1. journal[i].at \in Int /\ clock - Window \in Int
    BY <2>0, BuilderAssumption DEF BuilderTypeOK, Entries, Names
  <2>2. /\ shown'[b].from = dropped + 1 /\ shown'[b].upTo = Len(journal)
        /\ shown'[b].since = clock - Window
    BY <1>1
  <2>3. CASE i <= dropped
    BY <1>1, <1>3, <2>2, <2>3, BuilderAssumption DEF Trimmed
  <2>4. CASE i > dropped
    BY <1>1, <1>3, <2>1, <2>2, <2>4 DEF InFile, Trimmed
  <2> QED
    BY <1>1, <2>3, <2>4 DEF Trimmed
<1>4. \A c \in Builds, i \in DOMAIN journal : c # b => (InFile(c, i)' <=> InFile(c, i))
  BY <1>1 DEF InFile
<1>5. BundleLogComplete'
  BY <1>1, <1>3, <1>4 DEF BundleLogComplete
<1>6. Trimmed'
  BY <1>1 DEF Trimmed
<1> QED
  BY <1>2, <1>5, <1>6

LEMMA LogStep ==
  ASSUME FullInv, [FlowNext]_fvars PROVE Trimmed' /\ Reported' /\ BundleLogComplete'
<1>t. FlowInv /\ Asked /\ BuilderTypeOK /\ Trimmed /\ Reported /\ BundleLogComplete
  BY DEF FullInv, BuilderInv
<1>1. ASSUME NEW b \in Builds, CollectLogs(b) \/ Continue(b)
      PROVE  Trimmed' /\ Reported' /\ BundleLogComplete'
  <2>1. Log(b, "clicked") \/ Log(b, "continued")
    BY <1>1 DEF CollectLogs, Continue
  <2>2. /\ enabled /\ queue' = queue /\ shown' = shown
        /\ Request(b, TRUE) \/ Request(b, FALSE)
    BY <1>1, <1>t, WarningFacts DEF CollectLogs, Continue, Clickable, Request
  <2>3. Pending = {}
    BY <1>t, <2>2, StartFacts
  <2> QED
    BY <1>t, <2>1, <2>2, <2>3, LoggingStep DEF Events
<1>2. ASSUME NEW b \in Builds, CollectLogsAndSys(b) PROVE Trimmed' /\ Reported' /\ BundleLogComplete'
  <2>1. Log(b, "clicked") /\ enabled /\ shown' = shown
    BY <1>2 DEF CollectLogsAndSys, Clickable
  <2>2. Pending = {}
    BY <1>t, <2>1 DEF FlowInv, ControlsReflect
  <2> QED
    BY <1>t, <2>1, <2>2, LoggingStep DEF Events
<1>3. CASE Cancel
  <2>1. /\ Top("warning") /\ Log(stack[Len(stack)].by, "cancelled") /\ shown' = shown
    BY <1>3 DEF Cancel
  <2>2. PICK b \in Builds : b = stack[Len(stack)].by
    BY <1>t, <2>1, WarningFacts
  <2>3. Pending = {}
    BY <1>t, <2>1, WarningFacts
  <2> QED
    BY <1>t, <2>1, <2>2, <2>3, LoggingStep DEF Events
<1>4. ASSUME NEW b \in Builds, Work(b) PROVE Trimmed' /\ Reported' /\ BundleLogComplete'
  <2>1. Pending = {b} /\ Pending' = {b}
    BY <1>4, <1>t, WorkFacts
  <2>2. CASE WriteAppLogs(b)
    BY <1>t, <2>1, <2>2, CopyingStep DEF WriteAppLogs
  <2>3. CASE ~WriteAppLogs(b)
    <3>1. shown' = shown
      BY <1>4, <2>3 DEF Work, BuildStep, MakeDir, WriteInfo, Launch, WaitAndRead, WriteExtended,
         WriteReadme, NameArchive, ZipFolder, Verify, CleanUp, applog, log
    <3>2. \/ UNCHANGED log
          \/ Log(b, "starting") \/ Log(b, "extended") \/ Log(b, "extendedDone")
      BY <1>4, <2>3 DEF Work, BuildStep, MakeDir, WriteInfo, Launch, WaitAndRead, WriteExtended,
         WriteReadme, NameArchive, ZipFolder, Verify, CleanUp, applog, log
    <3> QED
      BY <1>t, <2>1, <3>1, <3>2, SilentStep, LoggingStep DEF Events
  <2> QED
    BY <2>2, <2>3
<1>5. CASE RunBlock
  <2>1. PICK b \in Builds : Head(queue) = b /\ Pending = {b}
    BY <1>5, <1>t, RunBlockFacts
  <2>2. (Log(b, "created") \/ Log(b, "failed")) /\ shown' = shown
    BY <1>5, <2>1 DEF RunBlock
  <2> QED
    BY <1>t, <2>1, <2>2, LoggingStep DEF Events
<1>6. ASSUME \/ \E b \in Builds : CommandPrints(b)
             \/ DismissResult \/ CloseOther \/ UNCHANGED fvars
             \/ Environment /\ UNCHANGED <<ui, queue, stack>>
      PROVE  Trimmed' /\ Reported' /\ BundleLogComplete'
  <2>1. UNCHANGED log /\ shown' = shown /\ pc' = pc /\ queue' = queue
    BY <1>6 DEF CommandPrints, ChildWrite, DismissResult, CloseOther, fvars, bvars,
       applog, Environment, Tick, MoveAway
  <2>2. Pending' = Pending
    BY <2>1, PendingFrame
  <2> QED
    BY <1>t, <2>1, <2>2, SilentStep
<1>7. CASE OpenOther \/ OthersLog
  <2>1. /\ Log(Nobody, "other") \/ LogTwice(Nobody, "other")
        /\ shown' = shown /\ pc' = pc /\ queue' = queue
    BY <1>7 DEF OpenOther, OthersLog
  <2>2. Pending' = Pending
    BY <2>1, PendingFrame
  <2> QED
    BY <1>t, <2>1, <2>2, LoggingStep DEF Events
<1> QED
  BY <1>1, <1>2, <1>3, <1>4, <1>5, <1>6, <1>7 DEF FlowNext

-----------------------------------------------------------------------------
LEMMA StatusStep == FlowStatus /\ [FlowNext]_fvars => FlowStatus'
  BY DEF FlowStatus, FlowNext, CollectLogs, CollectLogsAndSys, Continue, Work, CommandPrints,
     Cancel, RunBlock, DismissResult, OpenOther, CloseOther, OthersLog, Environment, ui, fvars

LEMMA AskedStep ==
  ASSUME FlowInv, Asked, [FlowNext]_fvars PROVE Asked'
<1>s. Shape /\ Len(stack) \in Nat /\ DOMAIN stack = 1 .. Len(stack)
  BY DEF FlowInv, Shape
<1>1. ASSUME NEW f \in Frames, f.alert = "warning" => f.by \in Builds, stack' = Append(stack, f)
      PROVE  Asked'
  BY <1>1, <1>s, PushFrame DEF Asked
<1>2. ASSUME stack # <<>>, Pop PROVE Asked'
  BY <1>2, <1>s, PopFrames DEF Asked
<1>3. ASSUME UNCHANGED stack PROVE Asked'
  BY <1>3 DEF Asked
<1>4. ASSUME NEW b \in Builds, CollectLogsAndSys(b) PROVE Asked'
  <2>1. PICK f : f = [alert |-> "warning", by |-> b]
    OBVIOUS
  <2>2. f \in Frames /\ f.by \in Builds
    BY <2>1 DEF Frames
  <2> QED
    BY <1>1, <1>4, <2>1, <2>2 DEF CollectLogsAndSys, Push
<1>5. CASE RunBlock
  <2>1. PICK b \in Builds : Head(queue) = b
    BY <1>5, RunBlockFacts
  <2>2. PICK f : f = [alert |-> "result", by |-> b]
    OBVIOUS
  <2>3. f \in Frames /\ f.by \in Builds
    BY <2>2 DEF Frames
  <2> QED
    BY <1>1, <1>5, <2>1, <2>2, <2>3 DEF RunBlock, Push
<1>6. CASE OpenOther
  <2>1. PICK f : f = [alert |-> "other", by |-> Nobody]
    OBVIOUS
  <2>2. f \in Frames /\ f.alert # "warning"
    BY <2>1 DEF Frames
  <2> QED
    BY <1>1, <1>6, <2>1, <2>2 DEF OpenOther, Push
<1>7. ASSUME \/ \E b \in Builds : Continue(b)
             \/ Cancel \/ DismissResult \/ CloseOther
      PROVE  Asked'
  BY <1>2, <1>7 DEF Continue, Cancel, DismissResult, CloseOther, Top
<1>8. ASSUME \/ \E b \in Builds : CollectLogs(b) \/ Work(b) \/ CommandPrints(b)
             \/ Environment /\ UNCHANGED <<ui, queue, stack>>
             \/ OthersLog \/ UNCHANGED fvars
      PROVE  Asked'
  BY <1>3, <1>8 DEF CollectLogs, Work, CommandPrints, OthersLog, fvars
<1> QED
  BY <1>4, <1>5, <1>6, <1>7, <1>8 DEF FlowNext

LEMMA FullInvNext == FullInv /\ [FlowNext]_fvars => FullInv'
  BY FlowInvNext, BuilderInvFlow, LogStep, StatusStep, AskedStep DEF FullInv

\* Every variable of the tab and of the builder behind it keeps to its values.
THEOREM FlowTyped == FlowSpec => []FlowTypeOK
<1>1. FullInv => FlowTypeOK
  BY DEF FullInv, FlowInv, BuilderInv, Shape, FlowStatus, FlowTypeOK, ControlsReflect
<1> QED
  BY <1>1, FullInvInit, FullInvNext, PTL DEF FlowSpec

\* The application log in a bundle misses no entry of another request that is not too old
\* and survives a trim, and no other request is reported in the middle of a build:
\* whatever the rest of the application logs, for every limit and trim.
THEOREM BundleLogsAreComplete == FlowSpec => []BundleLogComplete
<1>1. FullInv => BundleLogComplete
  BY DEF FullInv
<1> QED
  BY <1>1, FullInvInit, FullInvNext, PTL DEF FlowSpec

\* The archive of a bundle reported as created through the tab holds what its build has
\* written, with the exceptions SuccessPacked names.
THEOREM CreatedIsPacked == FlowSpec => []SuccessPacked
<1>1. FullInv => SuccessPacked
  BY InvPacks DEF FullInv
<1> QED
  BY <1>1, FullInvInit, FullInvNext, PTL DEF FlowSpec

-----------------------------------------------------------------------------
\* The tab implements RequestFlow.  What the user is told of each request, and which phase
\* the tab is in, under each kind of step:

Warned == \E i \in DOMAIN stack : stack[i].alert = "warning"

LEMMA FlowStutter ==
  ASSUME PhaseOf' = PhaseOf, CurrentOf' = CurrentOf, status' = status, OutcomeOf' = OutcomeOf
  PROVE  UNCHANGED Promise!flowVars
  BY DEF Promise!flowVars

\* ... a build's outcome is told by its position, the main queue and its result.
LEMMA OutcomeFrame ==
  ASSUME \A c \in Builds : \/ /\ pc'[c] = pc[c] /\ (Waiting(c)' <=> Waiting(c))
                              /\ result'[c] = result[c]
                           \/ /\ pc[c] # "done" \/ Waiting(c)
                              /\ pc'[c] # "done" \/ Waiting(c)'
  PROVE  OutcomeOf' = OutcomeOf
<1>1. \A c \in Builds :
        (IF pc'[c] # "done" \/ Waiting(c)' THEN "none"
         ELSE IF result'[c] = "ok" THEN "success" ELSE "failed")
        = (IF pc[c] # "done" \/ Waiting(c) THEN "none"
           ELSE IF result[c] = "ok" THEN "success" ELSE "failed")
  OBVIOUS
<1> QED
  BY <1>1 DEF OutcomeOf

\* The phase and the request in hand.
LEMMA WorkingPhase ==
  ASSUME NEW b \in Builds, Pending = {b} PROVE PhaseOf = "working" /\ CurrentOf = b
  BY DEF PhaseOf, CurrentOf

LEMMA WorkingPhaseNext ==
  ASSUME NEW b \in Builds, Pending' = {b} PROVE PhaseOf' = "working" /\ CurrentOf' = b
  BY DEF PhaseOf, CurrentOf

LEMMA RestingPhase ==
  ASSUME Pending = {}
  PROVE  PhaseOf = (IF Warned THEN "asking" ELSE "ready") /\ CurrentOf = Nobody
  BY DEF PhaseOf, CurrentOf, Warned

LEMMA RestingPhaseNext ==
  ASSUME Pending' = {}
  PROVE  PhaseOf' = (IF Warned' THEN "asking" ELSE "ready") /\ CurrentOf' = Nobody
  BY DEF PhaseOf, CurrentOf, Warned

LEMMA FlowInitPromise == FlowInit => Promise!Begin0
<1> SUFFICES ASSUME FlowInit PROVE Promise!Begin0
  OBVIOUS
<1>1. DOMAIN stack = {} /\ DOMAIN queue = {}
  BY EmptySequence DEF FlowInit
<1>2. \A b \in Builds : pc[b] = "idle" /\ ~Waiting(b)
  BY <1>1 DEF FlowInit, BuilderInit, Waiting
<1>3. Pending = {}
  BY <1>2 DEF Pending, InFlight
<1>4. ~Warned
  BY <1>1 DEF Warned
<1>5. OutcomeOf = [b \in Builds |-> "none"]
  BY <1>2 DEF OutcomeOf
<1> QED
  BY <1>3, <1>4, <1>5, RestingPhase DEF FlowInit, Promise!Begin0

\* A click that starts a build: the request is accepted.
LEMMA AcceptStep ==
  ASSUME FlowInv, enabled, NEW b \in Builds, NEW s \in BOOLEAN, Request(b, s), queue' = queue,
         status' = "working"
  PROVE  Promise!Accept(b)
<1>1. /\ Pending = {} /\ Pending' = {b} /\ pc[b] = "idle"
      /\ \A c \in Builds : c # b => pc'[c] = pc[c]
      /\ pc'[b] = "mkdir" /\ \A c \in Builds : ~Waiting(c) /\ ~Waiting(c)'
  BY StartFacts
<1>2. result' = result
  BY DEF Request, ending
<1>3. OutcomeOf' = OutcomeOf
  BY <1>1, <1>2, OutcomeFrame
<1>4. OutcomeOf[b] = "none"
  BY <1>1 DEF OutcomeOf
<1>5. PhaseOf \in {"ready", "asking"}
  BY <1>1, RestingPhase
<1>6. PhaseOf' = "working" /\ CurrentOf' = b
  BY <1>1, WorkingPhaseNext
<1> QED
  BY <1>3, <1>4, <1>5, <1>6 DEF Promise!Accept

LEMMA FlowNextPromise ==
  ASSUME FlowInv, BuilderTypeOK, Asked, [FlowNext]_fvars
  PROVE  [Promise!Advance]_(Promise!flowVars)
<1>s. Shape /\ Len(stack) \in Nat /\ DOMAIN stack = 1 .. Len(stack)
      /\ (stack # <<>> => Len(stack) > 0)
  BY DEF FlowInv, Shape
<1>e. \A s : s = <<>> => DOMAIN s = {}
  OBVIOUS
<1>1. ASSUME NEW b \in Builds, CollectLogs(b) \/ Continue(b) PROVE Promise!Accept(b)
  <2>1. /\ enabled /\ queue' = queue /\ status' = "working"
        /\ Request(b, TRUE) \/ Request(b, FALSE)
    BY <1>1, WarningFacts DEF CollectLogs, Continue, Clickable
  <2> QED
    BY <2>1, AcceptStep
<1>2. ASSUME NEW b \in Builds, CollectLogsAndSys(b) PROVE Promise!Consider
  <2>1. stack = <<>> /\ enabled /\ pc' = pc /\ queue' = queue /\ result' = result
        /\ status' = status /\ Push("warning", b)
    BY <1>2 DEF CollectLogsAndSys, Clickable, ui, ending
  <2>2. Pending = {} /\ Pending' = {}
    BY <2>1, PendingFrame DEF FlowInv, ControlsReflect
  <2>3. ~Warned
    BY <2>1, <1>e DEF Warned
  <2>4. Warned'
    <3> PICK f : f = [alert |-> "warning", by |-> b]
      OBVIOUS
    <3>1. f \in Frames /\ stack' = Append(stack, f) /\ f.alert = "warning"
      BY <2>1 DEF Frames, Push
    <3> QED
      BY <3>1, <1>s, PushFrame DEF Warned
  <2>5. OutcomeOf' = OutcomeOf
    BY <2>1, OutcomeFrame DEF Waiting
  <2> QED
    BY <2>1, <2>2, <2>3, <2>4, <2>5, RestingPhase, RestingPhaseNext DEF Promise!Consider
<1>3. CASE Cancel
  <2>1. Top("warning") /\ Pop /\ pc' = pc /\ queue' = queue /\ result' = result
        /\ status' = "cancelled"
    BY <1>3 DEF Cancel, ending
  <2>2. Len(stack) = 1 /\ Pending = {} /\ stack[1].alert = "warning" /\ stack' = <<>>
    BY <2>1, WarningFacts
  <2>3. Pending' = {}
    BY <2>1, <2>2, PendingFrame
  <2>4. Warned /\ ~Warned'
    BY <2>2, <1>s, <1>e DEF Warned
  <2>5. OutcomeOf' = OutcomeOf
    BY <2>1, OutcomeFrame DEF Waiting
  <2>6. Promise!Decline
    BY <2>1, <2>2, <2>3, <2>4, <2>5, RestingPhase, RestingPhaseNext DEF Promise!Decline
  <2> QED
    BY <2>6 DEF Promise!Advance
<1>4. ASSUME NEW b \in Builds, Work(b) PROVE UNCHANGED Promise!flowVars
  <2>1. /\ pc[b] # "done" /\ Pending = {b} /\ Pending' = {b}
        /\ pc'[b] = "done" => Waiting(b)'
        /\ \A c \in Builds : c # b => ~Waiting(c) /\ ~Waiting(c)'
    BY <1>4, WorkFacts
  <2>2. \A c \in Builds : c # b => pc'[c] = pc[c] /\ result'[c] = result[c]
    BY <1>4, OthersStay DEF Work, Kept
  <2>3. OutcomeOf' = OutcomeOf
    BY <2>1, <2>2, OutcomeFrame
  <2>4. status' = status
    BY <1>4 DEF Work, ui
  <2> QED
    BY <2>1, <2>3, <2>4, WorkingPhase, WorkingPhaseNext, FlowStutter
<1>5. CASE RunBlock
  <2>1. PICK b \in Builds : /\ Head(queue) = b /\ Waiting(b) /\ pc[b] = "done"
                            /\ Pending = {b} /\ ~enabled /\ Pending' = {}
                            /\ queue = <<b>> /\ queue' = <<>> /\ pc' = pc
    BY <1>5, RunBlockFacts
  <2>2. PICK how : how = IF result[b] = "ok" THEN "success" ELSE "failed"
    OBVIOUS
  <2>3. status' = how /\ result' = result /\ Push("result", b) /\ how \in {"success", "failed"}
    BY <1>5, <2>1, <2>2 DEF RunBlock, ending
  <2>4. \A c \in Builds : (Waiting(c) <=> c = b) /\ ~Waiting(c)'
    BY <2>1, <1>e DEF Waiting
  <2>5. OutcomeOf' = [OutcomeOf EXCEPT ![b] = how]
    <3>1. \A c \in Builds : c # b => OutcomeOf'[c] = OutcomeOf[c]
      BY <2>1, <2>3, <2>4 DEF OutcomeOf
    <3>2. OutcomeOf'[b] = how
      BY <2>1, <2>2, <2>3, <2>4 DEF OutcomeOf
    <3>3. OutcomeOf = [c \in Builds |-> OutcomeOf[c]] /\ OutcomeOf' = [c \in Builds |-> OutcomeOf'[c]]
      BY DEF OutcomeOf
    <3> QED
      BY <3>1, <3>2, <3>3
  <2>6. ~Warned'
    <3>1. \A i \in DOMAIN stack : stack[i].alert # "warning"
      BY <2>1 DEF FlowInv, WarningInv
    <3> PICK f : f = [alert |-> "result", by |-> b]
      OBVIOUS
    <3>2. f \in Frames /\ stack' = Append(stack, f) /\ f.alert = "result"
      BY <2>3 DEF Frames, Push
    <3>3. /\ DOMAIN stack' = 1 .. Len(stack) + 1
          /\ stack'[Len(stack) + 1] = f
          /\ \A i \in 1 .. Len(stack) : i \in DOMAIN stack /\ stack'[i] = stack[i]
      BY <3>2, <1>s, PushFrame
    <3> QED
      BY <3>1, <3>2, <3>3, <1>s DEF Warned
  <2>7. PhaseOf = "working" /\ CurrentOf = b /\ PhaseOf' = "ready" /\ CurrentOf' = Nobody
    BY <2>1, <2>6, WorkingPhase, RestingPhaseNext
  <2>8. Promise!Resolve
    BY <2>3, <2>5, <2>7 DEF Promise!Resolve
  <2> QED
    BY <2>8 DEF Promise!Advance
<1>6. ASSUME pc' = pc, queue' = queue, result' = result, status' = status, Warned' <=> Warned
      PROVE  UNCHANGED Promise!flowVars
  <2>1. Pending' = Pending
    BY <1>6, PendingFrame
  <2>2. OutcomeOf' = OutcomeOf
    BY <1>6, OutcomeFrame DEF Waiting
  <2>3. PhaseOf' = PhaseOf /\ CurrentOf' = CurrentOf
    BY <1>6, <2>1 DEF PhaseOf, CurrentOf, Warned
  <2> QED
    BY <1>6, <2>2, <2>3, FlowStutter
<1>7. CASE DismissResult \/ CloseOther
  <2>1. stack # <<>> /\ Pop /\ ~Top("warning") /\ pc' = pc /\ queue' = queue
        /\ result' = result /\ status' = status
    BY <1>7 DEF DismissResult, CloseOther, Top, bvars, ending, ui
  <2>2. ~Warned
    BY <2>1, <1>s DEF FlowInv, WarningInv, Top, Warned
  <2>3. ~Warned'
    BY <2>1, <2>2, <1>s, PopFrames DEF Warned
  <2> QED
    BY <1>6, <2>1, <2>2, <2>3
<1>8. CASE OpenOther
  <2>1. stack = <<>> /\ Push("other", Nobody) /\ pc' = pc /\ queue' = queue
        /\ result' = result /\ status' = status
    BY <1>8 DEF OpenOther, bvars, ending, ui
  <2> PICK f : f = [alert |-> "other", by |-> Nobody]
    OBVIOUS
  <2>2. f \in Frames /\ stack' = Append(stack, f) /\ f.alert # "warning"
    BY <2>1 DEF Frames, Push
  <2>3. Len(stack) = 0 /\ DOMAIN stack = {}
    BY <2>1, <1>s, <1>e
  <2>4. ~Warned /\ ~Warned'
    BY <2>2, <2>3, <1>s, PushFrame DEF Warned
  <2> QED
    BY <1>6, <2>1, <2>4
<1>9. ASSUME \/ \E b \in Builds : CommandPrints(b)
             \/ Environment /\ UNCHANGED <<ui, queue, stack>>
             \/ OthersLog \/ UNCHANGED fvars
      PROVE  UNCHANGED Promise!flowVars
  <2>1. pc' = pc /\ queue' = queue /\ result' = result /\ status' = status /\ stack' = stack
    BY <1>9 DEF CommandPrints, ChildWrite, Environment, Tick, MoveAway, OthersLog, fvars, bvars,
       ui, ending
  <2> QED
    BY <1>6, <2>1 DEF Warned
<1> QED
  BY <1>1, <1>2, <1>3, <1>4, <1>5, <1>7, <1>8, <1>9 DEF FlowNext, Promise!Advance

\* What the tab does is what RequestFlow promises: each request accepted is worked on alone
\* and reported once, as what it was.  (That it is reported at all stays with TLC.)
THEOREM OneRequestFlow == FlowSpec => Promise!FlowPromise
<1>1. FullInv => FlowInv /\ BuilderTypeOK /\ Asked
  BY DEF FullInv, BuilderInv
<1>2. FullInv /\ [FlowNext]_fvars => [Promise!Advance]_(Promise!flowVars)
  BY <1>1, FlowNextPromise
<1> QED
  BY <1>2, FlowInitPromise, FullInvInit, FullInvNext, PTL DEF FlowSpec, Promise!FlowPromise
=============================================================================
