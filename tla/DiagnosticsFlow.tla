---------------------------- MODULE DiagnosticsFlow ----------------------------
(***************************************************************************)
(* UI/DiagnosticsViewController.m with the builder it drives: collectLogs, *)
(* collectLogsAndSys, setLoadingState: and the completion blocks, which    *)
(* hop from the builder's queue to the main queue.                         *)
(*                                                                         *)
(* The main thread is its call stack of modal alerts.  A modal alert keeps *)
(* clicks from the window.  The main queue's blocks run from the run loop, *)
(* and from the run loop of an alert that an event handler opened, but not *)
(* while a block of the queue is itself on the stack: the result alert is  *)
(* opened from such a block.                                               *)
(***************************************************************************)
EXTENDS DiagnosticBundleBuilder

CONSTANT MaxJournal     \* bound: nothing new is begun once this much has been logged

ASSUME FlowAssumption == MaxJournal \in Nat

VARIABLES spinner,      \* _progressIndicator is shown and animates
          enabled,      \* _btnLogOnly.enabled and _btnLogSys.enabled
          status,       \* _status
          queue,        \* the completion blocks waiting on the main queue
          stack         \* the alerts open on the main thread, outermost first
ui    == <<spinner, enabled, status>>
fvars == <<bvars, ui, queue, stack>>

Frames == [alert : {"warning", "result", "other"}, by : Builds \cup {Nobody}]
Push(alert, b) == stack' = Append(stack, [alert |-> alert, by |-> b])
Pop == stack' = SubSeq(stack, 1, Len(stack) - 1)
Top(alert) == stack # <<>> /\ stack[Len(stack)].alert = alert

FlowInit == /\ BuilderInit
            /\ spinner = FALSE /\ enabled = TRUE /\ status = "nothing"
            /\ queue = <<>> /\ stack = <<>>

AlwaysClickable(b) ==  \* fault: the buttons are not really disabled
  stack = <<>> /\ pc[b] = "idle" /\ Len(journal) < MaxJournal

\* The window receives a click on a button of this tab.
Clickable(b) == stack = <<>> /\ enabled /\ pc[b] = "idle" /\ Len(journal) < MaxJournal

NeverEnables(isLoading) == spinner' = isLoading /\ enabled' = FALSE   \* fault

SetLoadingState(isLoading) == spinner' = isLoading /\ enabled' = ~isLoading

CollectLogs(b) ==
  /\ Clickable(b)
  /\ Log(b, "clicked")
  /\ SetLoadingState(TRUE)
  /\ status' = "working"
  /\ Request(b, FALSE)
  /\ UNCHANGED <<queue, stack>>

LoadsBeforeAsking(b) ==  \* fault: the loading state is set before the warning
  /\ Clickable(b)
  /\ Log(b, "clicked")
  /\ SetLoadingState(TRUE)
  /\ Push("warning", b)
  /\ UNCHANGED <<pc, sys, temp, command, name, zipped, ending, shown, clock, status, queue>>

\* collectLogsAndSys up to [warning runModal] ...
CollectLogsAndSys(b) ==
  /\ Clickable(b)
  /\ Log(b, "clicked")
  /\ Push("warning", b)
  /\ UNCHANGED <<pc, sys, temp, command, name, zipped, ending, shown, clock, ui, queue>>

\* ... and from there on: cancelled, or continued.
Cancel ==
  /\ Top("warning")
  /\ Log(stack[Len(stack)].by, "cancelled")
  /\ status' = "cancelled"
  /\ Pop
  /\ UNCHANGED <<pc, sys, temp, command, name, zipped, ending, shown, clock, spinner, enabled,
                 queue>>

Continue(b) ==
  /\ Top("warning") /\ stack[Len(stack)].by = b
  /\ Log(b, "continued")
  /\ SetLoadingState(TRUE)
  /\ status' = "working"
  /\ Request(b, TRUE)
  /\ Pop
  /\ UNCHANGED queue

WorkSuccessOnly(b) ==  \* fault: only the success branch hops to the main queue
  /\ BuildStep(b)
  /\ queue' = IF result'[b] = "ok" /\ calls'[b] > calls[b] THEN Append(queue, b) ELSE queue
  /\ UNCHANGED <<ui, stack>>

\* The builder's step; when it calls the completion block, that block puts
\* another one on the main queue.
Work(b) ==
  /\ BuildStep(b)
  /\ queue' = IF calls'[b] > calls[b] THEN Append(queue, b) ELSE queue
  /\ UNCHANGED <<ui, stack>>

CommandPrints(b) == ChildWrite(b) /\ UNCHANGED <<ui, queue, stack>>

RunBlockRaw ==  \* fault: the error itself becomes the status
  /\ queue # <<>>
  /\ \A i \in DOMAIN stack : stack[i].alert # "result"
  /\ LET b == Head(queue) IN
       /\ SetLoadingState(FALSE)
       /\ status' = result[b]
       /\ Log(b, IF result[b] = "ok" THEN "created" ELSE "failed")
       /\ Push("result", b)
  /\ queue' = Tail(queue)
  /\ UNCHANGED <<pc, sys, temp, command, name, zipped, ending, shown, clock>>

\* The block on the main queue, up to the alert it ends with.
RunBlock ==
  /\ queue # <<>>
  /\ \A i \in DOMAIN stack : stack[i].alert # "result"
  /\ LET b == Head(queue) IN
       /\ SetLoadingState(FALSE)
       /\ status' = IF result[b] = "ok" THEN "success" ELSE "failed"
       /\ Log(b, IF result[b] = "ok" THEN "created" ELSE "failed")
       /\ Push("result", b)
  /\ queue' = Tail(queue)
  /\ UNCHANGED <<pc, sys, temp, command, name, zipped, ending, shown, clock>>

\* The user dismisses the result alert (Show in Finder, or OK).
DismissResult == Top("result") /\ Pop /\ UNCHANGED <<bvars, ui, queue>>

\* testSentry, in another tab, while a build may be running: two entries, and an alert.
OpenOther ==
  /\ stack = <<>> /\ Len(journal) < MaxJournal
  /\ LogTwice(Nobody, "other")
  /\ Push("other", Nobody)
  /\ UNCHANGED <<pc, sys, temp, command, name, zipped, ending, shown, clock, ui, queue>>

CloseOther == Top("other") /\ Pop /\ UNCHANGED <<bvars, ui, queue>>

\* The rest of the application logs, on any thread: the path monitor's handler, ...
OthersLog ==
  /\ Len(journal) < MaxJournal
  /\ Log(Nobody, "other")
  /\ UNCHANGED <<pc, sys, temp, command, name, zipped, ending, shown, clock, ui, queue, stack>>

FlowNext == \/ \E b \in Builds : \/ CollectLogs(b) \/ CollectLogsAndSys(b) \/ Continue(b)
                                 \/ Work(b) \/ CommandPrints(b)
            \/ Cancel \/ RunBlock \/ DismissResult \/ OpenOther \/ CloseOther \/ OthersLog
            \/ Environment /\ UNCHANGED <<ui, queue, stack>>

FlowSpec == FlowInit /\ [][FlowNext]_fvars

\* Work goes on and the main thread serves its queue.  The user owes nothing:
\* no alert need ever be dismissed.
FlowFairness == /\ \A b \in Builds : WF_fvars(Work(b)) /\ WF_fvars(CommandPrints(b))
                /\ WF_fvars(RunBlock)
FairFlowSpec == FlowSpec /\ FlowFairness
-----------------------------------------------------------------------------
FlowTypeOK == /\ BuilderTypeOK
              /\ spinner \in BOOLEAN /\ enabled \in BOOLEAN
              /\ status \in {"nothing", "working", "cancelled", "success", "failed"}
              /\ queue \in Seq(Builds) /\ stack \in Seq(Frames)

InFlight(b) == pc[b] \notin {"idle", "done"}
Waiting(b)  == \E i \in DOMAIN queue : queue[i] = b
Pending     == {b \in Builds : InFlight(b) \/ Waiting(b)}

\* One request at a time: no second build is started before the first one's
\* result has reached the main thread, whatever alerts are open meanwhile.
OneAtATime == \A b, c \in Pending : b = c

\* The two buttons are disabled and the spinner turns exactly from the click
\* that starts a build to the block that reports it.
ControlsReflect == enabled = (Pending = {}) /\ spinner = ~enabled

InFile(b, i) == i \in shown[b].from .. shown[b].upTo /\ journal[i].at > shown[b].since

\* The application log in a bundle is complete as to the other requests, whoever logs
\* meanwhile: it shows every click made before the bundle was requested and how every
\* earlier request ended, unless the entry was older than ten days, or not among the
\* newest entries that survive a trim, when it was written; and no other request is
\* reported between that moment and the bundle's own outcome.
BundleLogComplete ==
  \A b \in Builds : shown[b].upTo > 0 =>
    \A i \in DOMAIN journal : journal[i].by \in Builds \ {b} =>
      \/ InFile(b, i)
      \/ /\ i <= shown[b].upTo
         /\ journal[i].at <= shown[b].since \/ shown[b].upTo - i > MaxEntries - TrimCount
      \/ \E j \in DOMAIN journal : j < i /\ journal[j].by = b
                                   /\ journal[j].what \in {"created", "failed"}

\* The controls come back after every build, even if the user leaves every alert
\* open - as long as no command fills its pipe.
ControlsReturn == ~enabled ~> enabled
-----------------------------------------------------------------------------
PhaseOf   == IF Pending # {} THEN "working"
             ELSE IF \E i \in DOMAIN stack : stack[i].alert = "warning" THEN "asking"
             ELSE "ready"
CurrentOf == IF Pending = {} THEN Nobody ELSE CHOOSE b \in Pending : TRUE
OutcomeOf == [b \in Builds |->
                IF pc[b] # "done" \/ Waiting(b) THEN "none"
                ELSE IF result[b] = "ok" THEN "success" ELSE "failed"]

Promise == INSTANCE RequestFlow WITH Requests <- Builds, phase <- PhaseOf,
             current <- CurrentOf, told <- status, outcome <- OutcomeOf

\* The tab keeps its promise to the user, liveness included: the status line says
\* "collecting" only while a build is pending, and each accepted request is reported
\* once, as what it was.
FairOneRequestFlow == Promise!FairFlowPromise
=============================================================================
