---------------------------- MODULE NetworkWatch ----------------------------
(***************************************************************************)
(* UI/LogsViewController.m: the Logging tab.  startNetworkWatch makes one  *)
(* path monitor whose update handler runs on a global, that is concurrent, *)
(* queue: it logs the change, leaves a breadcrumb for the crash reporter   *)
(* and puts a block on the main queue that appends a line to the text.     *)
(*                                                                         *)
(* The main thread is in its event loop ("loop"), between                  *)
(* nw_path_monitor_start and the end of startNetworkWatch ("starting"),    *)
(* inside an alert that a button opened ("modal": blocks still run) or     *)
(* inside the result alert that a block of the Diagnostics tab opened      *)
(* ("block": the main queue stands still).  A path is its status and the   *)
(* number of the change that led to it; whether it is expensive or         *)
(* constrained is left out.                                                *)
(***************************************************************************)
EXTENDS Integers, Sequences, FiniteSets

CONSTANTS Statuses,    \* satisfied, unsatisfied, satisfiable, invalid
          MaxChanges,  \* bound: changes of the path
          MaxJournal   \* bound: no click once this much has been logged

ASSUME WatchAssumption == MaxChanges \in Nat /\ MaxJournal \in Nat

VARIABLES path,     \* the system's network path
          seen,     \* seen[m]: the last change that monitor m has delivered
          sent,     \* the handler's invocations, in the order of delivery
          main,     \* what the main thread is doing
          queue,    \* the main queue: invocations to show, and Result
          text,     \* the lines of _logText
          journal,  \* entries of the LogCollector
          crumbs    \* breadcrumbs given to the crash reporter
system  == <<path, seen>>
reports == <<journal, crumbs>>
wvars   == <<system, sent, main, queue, text, reports>>

\* An event in one of the logs: invocation `of' of the handler, or of = 0.
Event(what, of) == [what |-> what, of |-> of]
Click(what)     == Event(what, 0)
Result          == 0   \* on the main queue: the block of the Diagnostics tab
Paths           == [no : Nat \ {0}, status : Statuses]
Words           == {"start", "started", "running", "emit", "emitted", "breadcrumb", "added", "path"}
Stages          == {"queued", "logged", "reported", "posted"}

WatchInit ==
  /\ path \in [no : {1}, status : Statuses]
  /\ seen = <<>> /\ sent = <<>> /\ main = "loop"
  /\ queue = <<>> /\ text = <<>> /\ journal = <<>> /\ crumbs = <<>>

Clickable == main = "loop" /\ Len(journal) < MaxJournal

StartUnguarded ==  \* fault: a second click makes a second monitor
  /\ Clickable
  /\ journal' = Append(journal, Click("start"))
  /\ seen' = Append(seen, 0)
  /\ main' = "starting"
  /\ UNCHANGED <<path, sent, queue, text, crumbs>>

\* startNetworkWatch: the handler is called from nw_path_monitor_start on.
StartNetworkWatch ==
  /\ Clickable
  /\ seen = <<>>
  /\ journal' = Append(journal, Click("start"))
  /\ seen' = Append(seen, 0)
  /\ main' = "starting"
  /\ UNCHANGED <<path, sent, queue, text, crumbs>>

AlreadyRunning ==
  /\ Clickable
  /\ seen # <<>>
  /\ journal' = Append(journal, Click("running"))
  /\ UNCHANGED <<system, sent, main, queue, text, crumbs>>

\* The end of startNetworkWatch.
Started ==
  /\ main = "starting"
  /\ journal' = Append(journal, Click("started"))
  /\ text' = Append(text, Click("started"))
  /\ main' = "loop"
  /\ UNCHANGED <<system, sent, queue, crumbs>>

EmitLogs ==
  /\ Clickable
  /\ journal' = journal \o <<Click("emit"), Click("emitted")>>
  /\ text' = Append(text, Click("emitted"))
  /\ UNCHANGED <<system, sent, main, queue, crumbs>>

AddBreadcrumb ==
  /\ Clickable
  /\ journal' = journal \o <<Click("breadcrumb"), Click("added")>>
  /\ crumbs' = Append(crumbs, Click("breadcrumb"))
  /\ text' = Append(text, Click("added"))
  /\ UNCHANGED <<system, sent, main, queue>>

-----------------------------------------------------------------------------
\* The system's path changes, and each monitor calls the handler with the path
\* that it has not delivered yet (a path already replaced is skipped).
Change == /\ path.no <= MaxChanges
          /\ \E s \in Statuses : path' = [no |-> path.no + 1, status |-> s]
          /\ UNCHANGED <<seen, sent, main, queue, text, reports>>

Deliver(m) == /\ seen[m] # path.no
              /\ seen' = [seen EXCEPT ![m] = path.no]
              /\ sent' = Append(sent, [path |-> path, stage |-> "queued"])
              /\ UNCHANGED <<path, main, queue, text, reports>>

\* The handler.  The global queue runs its blocks concurrently, so that one
\* invocation may overtake another at every step.
Stage(i, from, to) == sent[i].stage = from /\ sent' = [sent EXCEPT ![i].stage = to]

LogPosts(i) ==  \* fault: the line is posted before the change is logged
  /\ Stage(i, "queued", "posted")
  /\ queue' = Append(queue, i)
  /\ UNCHANGED <<system, main, text, reports>>

LogChange(i) == /\ Stage(i, "queued", "logged")
                /\ journal' = Append(journal, Event("path", i))
                /\ UNCHANGED <<system, main, queue, text, crumbs>>

LeaveCrumb(i) == /\ Stage(i, "logged", "reported")
                 /\ crumbs' = Append(crumbs, Event("path", i))
                 /\ UNCHANGED <<system, main, queue, text, journal>>

PostUnreached(i) ==  \* fault: the handler ends in a state of its own
  /\ Stage(i, "reported", "dropped")
  /\ UNCHANGED <<system, main, queue, text, reports>>

Post(i) == /\ Stage(i, "reported", "posted")
           /\ queue' = Append(queue, i)
           /\ UNCHANGED <<system, main, text, reports>>

Handler(i) == LogChange(i) \/ LeaveCrumb(i) \/ Post(i)

\* The next block of the main queue: append: of a line, or the Diagnostics
\* tab's result, whose alert keeps the queue from going on.
Draining == main \in {"loop", "modal"} /\ queue # <<>>

RunOffMain ==  \* fault: the line is appended without the hop to the main thread
  /\ queue # <<>>
  /\ queue' = Tail(queue)
  /\ IF Head(queue) = Result
       THEN main' = "block" /\ UNCHANGED text
       ELSE text' = Append(text, Event("path", Head(queue))) /\ UNCHANGED main
  /\ UNCHANGED <<system, sent, reports>>

RunInLoopOnly ==  \* fault: blocks wait for the outermost event loop
  /\ main = "loop" /\ queue # <<>>
  /\ queue' = Tail(queue)
  /\ IF Head(queue) = Result
       THEN main' = "block" /\ UNCHANGED text
       ELSE text' = Append(text, Event("path", Head(queue))) /\ UNCHANGED main
  /\ UNCHANGED <<system, sent, reports>>

RunBlock ==
  /\ Draining
  /\ queue' = Tail(queue)
  /\ IF Head(queue) = Result
       THEN main' = "block" /\ UNCHANGED text
       ELSE text' = Append(text, Event("path", Head(queue))) /\ UNCHANGED main
  /\ UNCHANGED <<system, sent, reports>>

-----------------------------------------------------------------------------
\* The other tabs: a bundle is finished, a button opens an alert, the user
\* dismisses an alert.
PostResult == /\ \A i \in DOMAIN queue : queue[i] # Result
              /\ main # "block"
              /\ queue' = Append(queue, Result)
              /\ UNCHANGED <<system, sent, main, text, reports>>

OpenAlert == /\ main = "loop"
             /\ main' = "modal"
             /\ UNCHANGED <<system, sent, queue, text, reports>>

Dismiss == /\ main \in {"modal", "block"}
           /\ main' = "loop"
           /\ UNCHANGED <<system, sent, queue, text, reports>>

WatchNext == \/ StartNetworkWatch \/ AlreadyRunning \/ Started
             \/ EmitLogs \/ AddBreadcrumb
             \/ Change \/ \E m \in DOMAIN seen : Deliver(m)
             \/ \E i \in DOMAIN sent : Handler(i)
             \/ RunBlock \/ PostResult \/ OpenAlert \/ Dismiss

WatchSpec == WatchInit /\ [][WatchNext]_wvars

\* The handlers run, the main thread finishes what it is in and serves its
\* queue; whether an alert is ever dismissed is up to the user.
Invocations == 1 .. MaxChanges + 1
WatchFairness ==
  /\ WF_wvars(Started) /\ WF_wvars(RunBlock)
  /\ \A i \in Invocations : WF_wvars(i \in DOMAIN sent /\ Handler(i))
FairWatchSpec == WatchSpec /\ WatchFairness
-----------------------------------------------------------------------------
WatchTypeOK ==
  /\ path \in Paths /\ seen \in Seq(Nat)
  /\ sent \in Seq([path : Paths, stage : Stages])
  /\ main \in {"loop", "starting", "modal", "block"}
  /\ queue \in Seq(Nat)
  /\ \A log \in {text, journal, crumbs} : log \in Seq([what : Words, of : Nat])

Lines(log)   == {n \in DOMAIN log : log[n].what = "path"}
Shown(i)     == \E n \in Lines(text) : text[n].of = i

\* A change of the path is shown once, however often the button is clicked.
EachOnce == \A a, b \in Lines(text) :
              sent[text[a].of].path.no = sent[text[b].of].path.no => a = b

\* What the user can see is already in the application log and in the crash
\* reporter: a bundle made, or a crash, right after a line appears has it.
ReportedBeforeShown == \A i \in DOMAIN sent : Shown(i) =>
  \A log \in {journal, crumbs} : \E n \in Lines(log) : log[n].of = i

\* The text says that the monitor has started before it shows a path, although
\* the handler may run before startNetworkWatch ends.
StartedFirst == \A a \in Lines(text) : \E b \in 1 .. a - 1 : text[b].what = "started"

\* Every delivered change reaches the text, unless the user leaves a result
\* alert open.
ShownEventually == \A i \in Invocations :
                     i \in DOMAIN sent ~> (Shown(i) \/ [](main = "block"))

=============================================================================
