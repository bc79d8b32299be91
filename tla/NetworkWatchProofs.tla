-------------------------- MODULE NetworkWatchProofs --------------------------
(***************************************************************************)
(* Proofs about NetworkWatch for any number of path changes, overlapping   *)
(* handlers, clicks and alerts.                                            *)
(***************************************************************************)
EXTENDS NetworkWatch, SequenceTheorems, TLAPS

Events == [what : Words, of : Nat]

Recorded(log, i) == \E n \in Lines(log) : log[n].of = i

\* What waits on the main queue, and what is shown, has been posted.
QueuePosted == \A n \in DOMAIN queue : queue[n] # Result =>
                 queue[n] \in DOMAIN sent /\ sent[queue[n]].stage = "posted"
TextPosted  == \A n \in Lines(text) :
                 text[n].of \in DOMAIN sent /\ sent[text[n].of].stage = "posted"

\* An invocation that has passed a stage has left its trace in that log.
Traced == \A i \in DOMAIN sent :
            /\ sent[i].stage # "queued" => Recorded(journal, i)
            /\ sent[i].stage \in {"reported", "posted"} => Recorded(crumbs, i)

\* The handler runs only after the click; by the time the main thread runs
\* blocks again, the text says that the monitor has started.
Opening == /\ sent # <<>> => seen # <<>>
           /\ main = "starting" => Lines(text) = {}
           /\ seen # <<>> /\ main # "starting" =>
                \E n \in DOMAIN text : text[n].what = "started"

WatchInv == WatchTypeOK /\ QueuePosted /\ TextPosted /\ Traced /\ Opening /\ StartedFirst

\* A log only grows ...
LEMMA LogGrows ==
  ASSUME NEW log \in Seq(Events), NEW e \in Events
  PROVE  /\ Append(log, e) \in Seq(Events)
         /\ DOMAIN Append(log, e) = 1 .. Len(log) + 1 /\ DOMAIN log = 1 .. Len(log)
         /\ Append(log, e)[Len(log) + 1] = e /\ Len(log) \in Nat
         /\ \A n \in DOMAIN log : n \in DOMAIN Append(log, e) /\ Append(log, e)[n] = log[n]
OBVIOUS

\* ... by a line, if the new entry is about a path ...
LEMMA LinesGrow ==
  ASSUME NEW log \in Seq(Events), NEW e \in Events
  PROVE  Lines(Append(log, e)) =
           IF e.what = "path" THEN Lines(log) \cup {Len(log) + 1} ELSE Lines(log)
<1> DEFINE longer == Append(log, e)
<1>1. /\ DOMAIN longer = 1 .. Len(log) + 1 /\ DOMAIN log = 1 .. Len(log)
      /\ longer[Len(log) + 1] = e /\ Len(log) \in Nat
      /\ \A n \in DOMAIN log : longer[n] = log[n]
  BY LogGrows
<1> HIDE DEF longer
<1>2. \A n : n \in Lines(longer) <=>
        n \in Lines(log) \/ (n = Len(log) + 1 /\ e.what = "path")
  BY <1>1 DEF Lines
<1>3. Lines(longer) = IF e.what = "path" THEN Lines(log) \cup {Len(log) + 1} ELSE Lines(log)
  BY <1>2
<1> QED
  BY <1>3 DEF longer

\* ... and what is recorded stays recorded.
LEMMA RecordsGrow ==
  ASSUME NEW log \in Seq(Events), NEW e \in Events
  PROVE  /\ \A i : Recorded(log, i) => Recorded(Append(log, e), i)
         /\ e.what = "path" => Recorded(Append(log, e), e.of)
<1>1. /\ Append(log, e)[Len(log) + 1] = e
      /\ \A n \in DOMAIN log : Append(log, e)[n] = log[n]
  BY LogGrows
<1>2. \A n \in Lines(log) : n \in Lines(Append(log, e)) /\ n \in DOMAIN log
  BY LinesGrow DEF Lines
<1>3. e.what = "path" => Len(log) + 1 \in Lines(Append(log, e))
  BY LinesGrow
<1> QED
  BY <1>1, <1>2, <1>3 DEF Recorded

\* Events that clicks log.
LEMMA ClickEvent ==
  ASSUME NEW w \in Words
  PROVE  Click(w) \in Events /\ Click(w).what = w
BY DEF Click, Event, Events

LEMMA ClickWords == /\ "start" \in Words /\ "running" \in Words /\ "started" \in Words
                    /\ "emit" \in Words /\ "emitted" \in Words /\ "breadcrumb" \in Words
                    /\ "added" \in Words
BY DEF Words

\* A handler that moves to its next stage keeps the others where they are.
LEMMA StageStep ==
  ASSUME WatchTypeOK, NEW i \in DOMAIN sent, NEW from \in Stages, NEW to \in Stages,
         Stage(i, from, to)
  PROVE  /\ sent' \in Seq([path : Paths, stage : Stages])
         /\ DOMAIN sent' = DOMAIN sent /\ sent # <<>> /\ sent' # <<>>
         /\ sent[i].stage = from /\ sent'[i].stage = to
         /\ \A j \in DOMAIN sent : j # i => sent'[j] = sent[j]
<1>1. sent' = [sent EXCEPT ![i].stage = to] /\ sent[i].stage = from
  BY DEF Stage
<1>2. sent \in Seq([path : Paths, stage : Stages])
  BY DEF WatchTypeOK
<1>3. sent[i] \in [path : Paths, stage : Stages]
  <2>1. i \in 1 .. Len(sent)
    BY <1>2
  <2> QED
    BY <1>2, <2>1, ElementOfSeq
<1>4. [sent[i] EXCEPT !.stage = to] \in [path : Paths, stage : Stages]
  BY <1>3
<1>5. sent' = [sent EXCEPT ![i] = [sent[i] EXCEPT !.stage = to]]
  BY <1>1
<1>6. sent' \in Seq([path : Paths, stage : Stages]) /\ DOMAIN sent' = DOMAIN sent
  BY <1>2, <1>4, <1>5
<1>7. sent # <<>> /\ sent' # <<>>
  BY <1>2, <1>6
<1> QED
  BY <1>1, <1>3, <1>5, <1>6, <1>7

LEMMA WatchInvInit == WatchInit => WatchInv
<1> SUFFICES ASSUME WatchInit PROVE WatchInv
  OBVIOUS
<1> USE DEF WatchInit
<1>1. path \in Paths
  BY DEF Paths
<1>2. WatchTypeOK
  BY <1>1 DEF WatchTypeOK
<1> QED
  BY <1>2 DEF WatchInv, QueuePosted, TextPosted, Traced, Opening, StartedFirst, Lines

LEMMA TwoMore ==
  ASSUME NEW log \in Seq(Events), NEW a \in Events, NEW b \in Events
  PROVE  log \o <<a, b>> = Append(Append(log, a), b)
OBVIOUS

\* A line that is not about a path leaves what is said of the paths alone.
LEMMA ClickLine ==
  ASSUME WatchInv, NEW w \in Words, w # "path", text' = Append(text, Click(w)), sent' = sent
  PROVE  /\ text' \in Seq(Events) /\ Lines(text') = Lines(text)
         /\ TextPosted' /\ StartedFirst'
         /\ \A n \in DOMAIN text : n \in DOMAIN text' /\ text'[n] = text[n]
         /\ \E n \in DOMAIN text' : text'[n].what = w
<1>1. text \in Seq(Events)
  BY DEF WatchInv, WatchTypeOK, Events
<1>2. Click(w) \in Events /\ Click(w).what = w
  BY ClickEvent
<1>3. /\ text' \in Seq(Events) /\ Lines(text') = Lines(text)
      /\ \A n \in DOMAIN text : n \in DOMAIN text' /\ text'[n] = text[n]
      /\ text'[Len(text) + 1] = Click(w) /\ DOMAIN text' = 1 .. Len(text) + 1
      /\ DOMAIN text = 1 .. Len(text)
  BY <1>1, <1>2, LogGrows, LinesGrow
<1>4. Lines(text') = Lines(text) /\ \A n \in Lines(text) : n \in DOMAIN text
  BY <1>3 DEF Lines
<1>5. TextPosted'
  BY <1>3, <1>4 DEF WatchInv, TextPosted
<1>6. StartedFirst'
  <2> SUFFICES ASSUME NEW a \in Lines(text')
               PROVE  \E b \in 1 .. a - 1 : text'[b].what = "started"
    BY DEF StartedFirst
  <2>1. a \in 1 .. Len(text)
    BY <1>3, <1>4
  <2>2. PICK b \in 1 .. a - 1 : text[b].what = "started"
    BY <1>4 DEF WatchInv, StartedFirst
  <2>3. b \in DOMAIN text
    BY <1>1, <1>3, <2>1, <2>2
  <2> QED
    BY <1>3, <2>2, <2>3
<1>7. Len(text) + 1 \in DOMAIN text'
  BY <1>1, <1>3
<1> QED
  BY <1>2, <1>3, <1>4, <1>5, <1>6, <1>7

LEMMA WatchInvNext == WatchInv /\ [WatchNext]_wvars => WatchInv'
<1> SUFFICES ASSUME WatchInv, [WatchNext]_wvars PROVE WatchInv'
  OBVIOUS
<1>0. /\ WatchTypeOK /\ QueuePosted /\ TextPosted /\ Traced /\ Opening /\ StartedFirst
      /\ text \in Seq(Events) /\ journal \in Seq(Events) /\ crumbs \in Seq(Events)
      /\ sent \in Seq([path : Paths, stage : Stages]) /\ queue \in Seq(Nat)
      /\ seen \in Seq(Nat) /\ path \in Paths
  BY DEF WatchInv, WatchTypeOK, Events
<1>1. CASE StartNetworkWatch
  <2>1. sent = <<>>
    BY <1>0, <1>1 DEF StartNetworkWatch, Opening
  <2>2. journal' \in Seq(Events) /\ seen' \in Seq(Nat) /\ seen' # <<>>
    BY <1>0, <1>1, ClickEvent, ClickWords, LogGrows, RecordsGrow DEF StartNetworkWatch
  <2>3. Lines(text) = {}
    BY <1>0, <2>1 DEF TextPosted
  <2>4. WatchTypeOK'
    BY <1>0, <1>1, <2>2 DEF StartNetworkWatch, WatchTypeOK, Events
  <2> QED
    BY <1>0, <1>1, <2>1, <2>2, <2>3, <2>4
    DEF StartNetworkWatch, WatchInv, QueuePosted, TextPosted, Traced, Opening, StartedFirst,
        Lines
<1>2. CASE AlreadyRunning
  <2>1. journal' \in Seq(Events) /\ \A i : Recorded(journal, i) => Recorded(journal', i)
    BY <1>0, <1>2, ClickEvent, ClickWords, LogGrows, RecordsGrow DEF AlreadyRunning
  <2>2. WatchTypeOK'
    BY <1>0, <1>2, <2>1 DEF AlreadyRunning, WatchTypeOK, Events, system
  <2>3. Traced'
    BY <1>0, <1>2, <2>1 DEF AlreadyRunning, Traced
  <2> QED
    BY <1>0, <1>2, <2>2, <2>3
    DEF AlreadyRunning, WatchInv, QueuePosted, TextPosted, Opening, StartedFirst, Lines, system
<1>3. CASE Started
  <2>1. journal' \in Seq(Events) /\ \A i : Recorded(journal, i) => Recorded(journal', i)
    BY <1>0, <1>3, ClickEvent, ClickWords, LogGrows, RecordsGrow DEF Started
  <2>2. /\ text' \in Seq(Events) /\ TextPosted' /\ StartedFirst'
        /\ \E n \in DOMAIN text' : text'[n].what = "started"
    BY <1>3, ClickLine, ClickWords DEF Started
  <2>3. WatchTypeOK'
    BY <1>0, <1>3, <2>1, <2>2 DEF Started, WatchTypeOK, Events, system
  <2>4. Traced' /\ QueuePosted' /\ Opening'
    BY <1>0, <1>3, <2>1, <2>2 DEF Started, Traced, QueuePosted, Opening, system
  <2> QED
    BY <2>2, <2>3, <2>4 DEF WatchInv
<1>4. CASE EmitLogs \/ AddBreadcrumb
  <2>1. PICK a \in Words, b \in Words : journal' = journal \o <<Click(a), Click(b)>>
    BY <1>4, ClickWords DEF EmitLogs, AddBreadcrumb
  <2>2. /\ Append(journal, Click(a)) \in Seq(Events)
        /\ \A i : Recorded(journal, i) => Recorded(Append(journal, Click(a)), i)
    BY <1>0, ClickEvent, ClickWords, LogGrows, RecordsGrow
  <2>3. /\ journal' = Append(Append(journal, Click(a)), Click(b))
    BY <1>0, <2>1, ClickEvent, TwoMore
  <2>4. /\ journal' \in Seq(Events)
        /\ \A i : Recorded(Append(journal, Click(a)), i) => Recorded(journal', i)
    BY <2>2, <2>3, ClickEvent, ClickWords, LogGrows, RecordsGrow
  <2>5. crumbs' \in Seq(Events) /\ \A i : Recorded(crumbs, i) => Recorded(crumbs', i)
    <3>1. CASE crumbs' = crumbs
      BY <1>0, <3>1
    <3>2. CASE crumbs' = Append(crumbs, Click("breadcrumb"))
      BY <1>0, <3>2, ClickEvent, ClickWords, LogGrows, RecordsGrow
    <3> QED
      BY <1>4, <3>1, <3>2 DEF EmitLogs, AddBreadcrumb
  <2>6. /\ sent' = sent /\ queue' = queue /\ main' = main /\ seen' = seen /\ path' = path
        /\ main = "loop"
    BY <1>4 DEF EmitLogs, AddBreadcrumb, Clickable, system
  <2>7. /\ text' \in Seq(Events) /\ Lines(text') = Lines(text) /\ TextPosted' /\ StartedFirst'
        /\ \A n \in DOMAIN text : n \in DOMAIN text' /\ text'[n] = text[n]
    BY <1>4, <2>6, ClickLine, ClickWords DEF EmitLogs, AddBreadcrumb
  <2>8. WatchTypeOK'
    BY <1>0, <2>4, <2>5, <2>6, <2>7 DEF WatchTypeOK, Events
  <2>9. Traced' /\ QueuePosted' /\ Opening'
    BY <1>0, <2>2, <2>4, <2>5, <2>6, <2>7 DEF Traced, QueuePosted, Opening
  <2> QED
    BY <2>7, <2>8, <2>9 DEF WatchInv
<1>5. CASE Change \/ PostResult \/ OpenAlert \/ Dismiss
  <2>1. /\ sent' = sent /\ text' = text /\ journal' = journal /\ crumbs' = crumbs
        /\ seen' = seen /\ (main' = "starting" <=> main = "starting")
        /\ main' \in {"loop", "starting", "modal", "block"}
    BY <1>0, <1>5 DEF Change, PostResult, OpenAlert, Dismiss, system, reports, WatchTypeOK
  <2>2. path' \in Paths
    BY <1>0, <1>5 DEF Change, PostResult, OpenAlert, Dismiss, system, Paths
  <2>3. queue' \in Seq(Nat) /\ QueuePosted'
    <3>1. CASE queue' = queue
      BY <1>0, <2>1, <3>1 DEF QueuePosted
    <3>2. CASE queue' = Append(queue, Result)
      <4>1. /\ queue' \in Seq(Nat) /\ DOMAIN queue' = 1 .. Len(queue) + 1
            /\ DOMAIN queue = 1 .. Len(queue) /\ queue'[Len(queue) + 1] = Result
            /\ \A n \in DOMAIN queue : queue'[n] = queue[n]
        BY <1>0, <3>2 DEF Result
      <4>2. ASSUME NEW n \in DOMAIN queue', queue'[n] # Result
            PROVE  queue'[n] \in DOMAIN sent /\ sent[queue'[n]].stage = "posted"
        <5>1. n \in DOMAIN queue /\ queue'[n] = queue[n]
          BY <4>1, <4>2
        <5> QED
          BY <1>0, <4>2, <5>1 DEF QueuePosted
      <4> QED
        BY <2>1, <4>1, <4>2 DEF QueuePosted, Result
    <3> QED
      BY <1>5, <3>1, <3>2 DEF Change, PostResult, OpenAlert, Dismiss
  <2>4. WatchTypeOK'
    BY <1>0, <2>1, <2>2, <2>3 DEF WatchTypeOK, Events
  <2> QED
    BY <1>0, <2>1, <2>3, <2>4
    DEF WatchInv, TextPosted, Traced, Opening, StartedFirst, Lines, Recorded
<1>6. ASSUME NEW m \in DOMAIN seen, Deliver(m)
      PROVE  WatchInv'
  <2> DEFINE fresh == [path |-> path, stage |-> "queued"]
  <2>1. /\ sent' = Append(sent, fresh) /\ seen' = [seen EXCEPT ![m] = path.no]
        /\ UNCHANGED <<path, main, queue, text, journal, crumbs>>
    BY <1>6 DEF Deliver, reports
  <2>2. fresh \in [path : Paths, stage : Stages] /\ path.no \in Nat
    BY <1>0 DEF Stages, Paths
  <2>3. /\ sent' \in Seq([path : Paths, stage : Stages])
        /\ DOMAIN sent' = 1 .. Len(sent) + 1 /\ DOMAIN sent = 1 .. Len(sent)
        /\ sent'[Len(sent) + 1] = fresh /\ \A i \in DOMAIN sent : sent'[i] = sent[i]
    BY <1>0, <2>1, <2>2
  <2>4. seen' \in Seq(Nat) /\ seen' # <<>> /\ seen # <<>>
    BY <1>0, <1>6, <2>1, <2>2
  <2>5. WatchTypeOK'
    BY <1>0, <2>1, <2>3, <2>4 DEF WatchTypeOK, Events
  <2>6. QueuePosted' /\ TextPosted'
    BY <1>0, <2>1, <2>3 DEF QueuePosted, TextPosted, Lines
  <2>7. Traced'
    BY <1>0, <2>1, <2>3 DEF Traced, Recorded, Lines
  <2> QED
    BY <1>0, <2>1, <2>4, <2>5, <2>6, <2>7 DEF WatchInv, Opening, StartedFirst, Lines
<1>7. ASSUME NEW i \in DOMAIN sent, Handler(i)
      PROVE  WatchInv'
  <2>0. /\ UNCHANGED <<path, seen, main, text>> /\ seen # <<>>
        /\ Event("path", i) \in Events /\ Event("path", i).what = "path"
        /\ Event("path", i).of = i /\ i \in Nat
    <3>1. i \in 1 .. Len(sent) /\ sent # <<>>
      BY <1>0
    <3>2. UNCHANGED <<path, seen, main, text>>
      BY <1>7 DEF Handler, LogChange, LeaveCrumb, Post, system
    <3>3. seen # <<>>
      BY <1>0, <3>1 DEF Opening
    <3>4. "path" \in Words /\ i \in Nat
      BY <1>0, <3>1 DEF Words
    <3> QED
      BY <3>2, <3>3, <3>4 DEF Event, Events
  <2>1. PICK from \in Stages, to \in Stages \ {"queued"} :
             /\ Stage(i, from, to) /\ from # "posted"
             /\ to = "logged" => journal' = Append(journal, Event("path", i))
             /\ to # "logged" => journal' = journal /\ from # "queued"
             /\ to = "reported" => crumbs' = Append(crumbs, Event("path", i))
             /\ to # "reported" => crumbs' = crumbs
             /\ to = "posted" => queue' = Append(queue, i) /\ from = "reported"
             /\ to # "posted" => queue' = queue
    BY <1>7 DEF Handler, LogChange, LeaveCrumb, Post, reports, Stages
  <2>2. /\ sent' \in Seq([path : Paths, stage : Stages])
        /\ DOMAIN sent' = DOMAIN sent /\ sent # <<>> /\ sent' # <<>>
        /\ sent[i].stage = from /\ sent'[i].stage = to
        /\ \A j \in DOMAIN sent : j # i => sent'[j] = sent[j]
    BY <1>0, <2>1, StageStep
  <2> DEFINE e == Event("path", i)
  <2> HIDE DEF e
  <2>3. /\ journal' \in Seq(Events) /\ \A j : Recorded(journal, j) => Recorded(journal', j)
        /\ to = "logged" => Recorded(journal', i)
    <3>1. CASE to = "logged"
      <4>1. journal' = Append(journal, e) /\ e \in Events /\ e.what = "path" /\ e.of = i
        BY <2>0, <2>1, <3>1 DEF e
      <4> QED
        BY <1>0, <4>1, LogGrows, RecordsGrow
    <3>2. CASE to # "logged"
      BY <1>0, <2>1, <3>2
    <3> QED
      BY <3>1, <3>2
  <2>4. /\ crumbs' \in Seq(Events) /\ \A j : Recorded(crumbs, j) => Recorded(crumbs', j)
        /\ to = "reported" => Recorded(crumbs', i)
    <3>1. CASE to = "reported"
      <4>1. crumbs' = Append(crumbs, e) /\ e \in Events /\ e.what = "path" /\ e.of = i
        BY <2>0, <2>1, <3>1 DEF e
      <4> QED
        BY <1>0, <4>1, LogGrows, RecordsGrow
    <3>2. CASE to # "reported"
      BY <1>0, <2>1, <3>2
    <3> QED
      BY <3>1, <3>2
  <2>6. Traced'
    <3> SUFFICES ASSUME NEW j \in DOMAIN sent
                 PROVE  /\ sent'[j].stage # "queued" => Recorded(journal', j)
                        /\ sent'[j].stage \in {"reported", "posted"} => Recorded(crumbs', j)
      BY <2>2 DEF Traced
    <3>1. CASE j # i
      BY <1>0, <2>2, <2>3, <2>4, <3>1 DEF Traced
    <3>2. CASE j = i
      BY <1>0, <2>1, <2>2, <2>3, <2>4, <3>2 DEF Traced, Stages
    <3> QED
      BY <3>1, <3>2
  <2>7. queue' \in Seq(Nat) /\ QueuePosted'
    <3>1. CASE to # "posted"
      BY <1>0, <2>1, <2>2, <3>1 DEF QueuePosted
    <3>2. CASE to = "posted"
      <4>1. queue' = Append(queue, i)
        BY <2>1, <3>2
      <4>2. /\ queue' \in Seq(Nat) /\ DOMAIN queue' = 1 .. Len(queue) + 1
            /\ DOMAIN queue = 1 .. Len(queue) /\ queue'[Len(queue) + 1] = i
            /\ \A n \in DOMAIN queue : queue'[n] = queue[n]
        BY <1>0, <2>0, <4>1
      <4>3. ASSUME NEW n \in DOMAIN queue', queue'[n] # Result
            PROVE  queue'[n] \in DOMAIN sent' /\ sent'[queue'[n]].stage = "posted"
        <5>1. CASE n \in DOMAIN queue
          <6>1. queue'[n] = queue[n] /\ queue[n] # Result
            BY <4>2, <4>3, <5>1
          <6>2. queue[n] \in DOMAIN sent /\ sent[queue[n]].stage = "posted"
            BY <1>0, <5>1, <6>1 DEF QueuePosted
          <6>3. queue[n] # i
            BY <2>1, <2>2, <3>2, <6>2
          <6> QED
            BY <2>2, <6>1, <6>2, <6>3
        <5>2. CASE n = Len(queue) + 1
          BY <2>2, <3>2, <4>2, <5>2
        <5> QED
          BY <4>2, <5>1, <5>2
      <4> QED
        BY <4>2, <4>3 DEF QueuePosted, Result
    <3> QED
      BY <3>1, <3>2
  <2>8. TextPosted'
    BY <1>0, <2>0, <2>1, <2>2 DEF TextPosted, Lines
  <2>9. WatchTypeOK'
    BY <1>0, <2>0, <2>2, <2>3, <2>4, <2>7 DEF WatchTypeOK, Events
  <2> QED
    BY <1>0, <2>0, <2>2, <2>6, <2>7, <2>8, <2>9 DEF WatchInv, Opening, StartedFirst, Lines
<1>8. CASE RunBlock
  <2>1. /\ queue # <<>> /\ queue' = Tail(queue) /\ main # "starting"
        /\ UNCHANGED <<path, seen, sent, journal, crumbs>>
        /\ main' \in {"loop", "modal", "block"}
    BY <1>0, <1>8 DEF RunBlock, Draining, system, reports
  <2>2. /\ queue' \in Seq(Nat) /\ 1 \in DOMAIN queue /\ Head(queue) = queue[1]
        /\ \A n \in DOMAIN queue' : n + 1 \in DOMAIN queue /\ queue'[n] = queue[n + 1]
        /\ Head(queue) \in Nat
    BY <1>0, <2>1
  <2>3. QueuePosted'
    BY <1>0, <2>1, <2>2 DEF QueuePosted
  <2>4. Traced'
    BY <1>0, <2>1 DEF Traced, Recorded, Lines
  <2>5. CASE Head(queue) = Result
    <3>1. text' = text
      BY <1>8, <2>5 DEF RunBlock
    <3>2. WatchTypeOK'
      BY <1>0, <2>1, <2>2, <3>1 DEF WatchTypeOK, Events
    <3> QED
      BY <1>0, <2>1, <2>3, <2>4, <3>1, <3>2
      DEF WatchInv, TextPosted, Opening, StartedFirst, Lines
  <2>6. CASE Head(queue) # Result
    <3> DEFINE line == Event("path", Head(queue))
    <3>1. text' = Append(text, line) /\ line \in Events /\ line.what = "path"
          /\ line.of = Head(queue)
      <4>1. text' = Append(text, line)
        BY <1>8, <2>6 DEF RunBlock
      <4>2. "path" \in Words
        BY DEF Words
      <4> QED
        BY <2>2, <4>1, <4>2 DEF Event, Events
    <3>2. Head(queue) \in DOMAIN sent /\ sent[Head(queue)].stage = "posted"
      BY <1>0, <2>2, <2>6 DEF QueuePosted
    <3>3. seen # <<>>
      BY <1>0, <3>2 DEF Opening
    <3>4. PICK n \in DOMAIN text : text[n].what = "started"
      BY <1>0, <2>1, <3>3 DEF Opening
    <3> HIDE DEF line
    <3>5. /\ text' \in Seq(Events) /\ Lines(text') = Lines(text) \cup {Len(text) + 1}
          /\ \A k \in DOMAIN text : k \in DOMAIN text' /\ text'[k] = text[k]
          /\ text'[Len(text) + 1] = line /\ DOMAIN text = 1 .. Len(text)
          /\ Len(text) \in Nat
      BY <1>0, <3>1, LogGrows, LinesGrow
    <3>6. TextPosted'
      BY <1>0, <2>1, <3>1, <3>2, <3>5 DEF TextPosted, Lines
    <3>7. StartedFirst'
      <4> SUFFICES ASSUME NEW a \in Lines(text')
                   PROVE  \E b \in 1 .. a - 1 : text'[b].what = "started"
        BY DEF StartedFirst
      <4>1. CASE a \in Lines(text)
        <5>1. PICK b \in 1 .. a - 1 : text[b].what = "started"
          BY <1>0, <4>1 DEF StartedFirst
        <5>2. b \in DOMAIN text
          BY <3>5, <4>1, <5>1 DEF Lines
        <5> QED
          BY <3>5, <5>1, <5>2
      <4>2. CASE a = Len(text) + 1
        BY <3>4, <3>5, <4>2
      <4> QED
        BY <3>5, <4>1, <4>2
    <3>8. WatchTypeOK'
      BY <1>0, <2>1, <2>2, <3>5 DEF WatchTypeOK, Events
    <3>9. Opening'
      BY <1>0, <2>1, <3>4, <3>5 DEF Opening
    <3> QED
      BY <2>3, <2>4, <3>6, <3>7, <3>8, <3>9 DEF WatchInv
  <2> QED
    BY <2>5, <2>6
<1>9. CASE UNCHANGED wvars
  BY <1>0, <1>9
  DEF wvars, system, reports, WatchInv, WatchTypeOK, QueuePosted, TextPosted, Traced, Opening,
      StartedFirst, Lines, Recorded
<1> QED
  BY <1>1, <1>2, <1>3, <1>4, <1>5, <1>6, <1>7, <1>8, <1>9 DEF WatchNext

LEMMA WatchInvAlways == WatchSpec => []WatchInv
BY WatchInvInit, WatchInvNext, PTL DEF WatchSpec

\* Type correctness of startNetworkWatch, its handler and its blocks.
THEOREM WatchTypes == WatchSpec => []WatchTypeOK
<1>1. WatchInv => WatchTypeOK
  BY DEF WatchInv
<1> QED
  BY <1>1, WatchInvAlways, PTL

\* The text shows that the monitor has started before it shows a path.
THEOREM StartShownFirst == WatchSpec => []StartedFirst
<1>1. WatchInv => StartedFirst
  BY DEF WatchInv
<1> QED
  BY <1>1, WatchInvAlways, PTL

\* A line that the user sees is in the application log and in the crash
\* reporter already.
THEOREM ReportedFirst == WatchSpec => []ReportedBeforeShown
<1>1. WatchInv => ReportedBeforeShown
  BY DEF WatchInv, ReportedBeforeShown, TextPosted, Traced, Shown, Recorded
<1> QED
  BY <1>1, WatchInvAlways, PTL
-----------------------------------------------------------------------------
\* There is one monitor, and it delivers each change of the path once, in order.
DeliveredOnce ==
  /\ DOMAIN seen \subseteq {1}
  /\ \A m \in DOMAIN seen : seen[m] <= path.no
  /\ \A i \in DOMAIN sent : \A m \in DOMAIN seen : sent[i].path.no <= seen[m]
  /\ \A i, j \in DOMAIN sent : sent[i].path.no = sent[j].path.no => i = j

\* An invocation is at one place of the main queue, or on one line of the text.
PostedOnce ==
  /\ \A a, b \in DOMAIN queue : queue[a] = queue[b] /\ queue[a] # Result => a = b
  /\ \A a \in DOMAIN queue : queue[a] # Result => \A b \in Lines(text) : text[b].of # queue[a]
  /\ \A a, b \in Lines(text) : text[a].of = text[b].of => a = b

LEMMA StageKeepsPaths ==
  ASSUME WatchInv, NEW i \in DOMAIN sent, NEW from \in Stages, NEW to \in Stages,
         Stage(i, from, to)
  PROVE  DOMAIN sent' = DOMAIN sent /\ \A j \in DOMAIN sent : sent'[j].path = sent[j].path
<1>1. sent \in Seq([path : Paths, stage : Stages])
  BY DEF WatchInv, WatchTypeOK
<1>2. i \in 1 .. Len(sent)
  BY <1>1
<1>3. sent[i] \in [path : Paths, stage : Stages]
  BY <1>1, <1>2, ElementOfSeq
<1>4. sent' = [sent EXCEPT ![i] = [sent[i] EXCEPT !.stage = to]]
  BY DEF Stage
<1>5. [sent[i] EXCEPT !.stage = to].path = sent[i].path
  BY <1>3
<1> QED
  BY <1>1, <1>4, <1>5

LEMMA DeliveredOnceNext ==
  ASSUME WatchInv, DeliveredOnce, [WatchNext]_wvars PROVE DeliveredOnce'
<1>1. /\ sent \in Seq([path : Paths, stage : Stages]) /\ seen \in Seq(Nat) /\ path.no \in Nat \ {0}
      /\ sent # <<>> => seen # <<>>
  BY DEF WatchInv, WatchTypeOK, Opening, Paths
<1>2. CASE StartNetworkWatch
  <2>1. seen' = <<0>> /\ sent' = <<>> /\ path' = path
    BY <1>1, <1>2 DEF StartNetworkWatch
  <2> QED
    BY <1>1, <2>1 DEF DeliveredOnce
<1>3. CASE Change
  <2>1. path'.no = path.no + 1 /\ UNCHANGED <<seen, sent>>
    BY <1>3 DEF Change
  <2>2. \A m \in DOMAIN seen : seen[m] \in Nat
    BY <1>1
  <2> QED
    BY <1>1, <2>1, <2>2 DEF DeliveredOnce
<1>4. ASSUME NEW m \in DOMAIN seen, Deliver(m) PROVE DeliveredOnce'
  <2> PICK new : new = [path |-> path, stage |-> "queued"]
    OBVIOUS
  <2>1. /\ seen[m] # path.no /\ seen' = [seen EXCEPT ![m] = path.no]
        /\ sent' = Append(sent, new) /\ path' = path
    BY <1>4 DEF Deliver
  <2>2. m = 1 /\ DOMAIN seen = {1} /\ seen[m] \in Nat /\ seen[m] < path.no
    <3>1. m = 1 /\ DOMAIN seen = {1} /\ seen[m] <= path.no
      BY DEF DeliveredOnce
    <3>2. \A k \in DOMAIN seen : seen[k] \in Nat
      BY <1>1
    <3> QED
      BY <1>1, <2>1, <3>1, <3>2
  <2>3. seen'[1] = path.no /\ DOMAIN seen' = {1}
    BY <1>1, <2>1, <2>2
  <2>4. /\ \A j \in DOMAIN sent : sent'[j] = sent[j]
        /\ sent'[Len(sent) + 1] = new /\ DOMAIN sent' = DOMAIN sent \cup {Len(sent) + 1}
    BY <1>1, <2>1
  <2>5. \A j \in DOMAIN sent : sent[j].path.no \in Nat /\ sent[j].path.no < path.no
    <3>1. \A j \in DOMAIN sent : sent[j] \in [path : Paths, stage : Stages]
      <4>1. \A S : \A s \in Seq(S) : \A j \in DOMAIN s : s[j] \in S
        OBVIOUS
      <4>2. sent \in Seq([path : Paths, stage : Stages])
        BY <1>1
      <4> QED
        BY <4>1, <4>2
    <3>2. \A j \in DOMAIN sent : sent[j].path.no \in Nat
      <4>1. \A p \in Paths : p.no \in Nat
        BY DEF Paths
      <4>2. \A j \in DOMAIN sent : sent[j].path \in Paths
        BY <3>1
      <4> QED
        BY <4>1, <4>2
    <3>3. \A j \in DOMAIN sent : sent[j].path.no <= seen[m]
      BY DEF DeliveredOnce
    <3> QED
      BY <1>1, <2>2, <3>2, <3>3
  <2>6. new.path.no = path.no
    OBVIOUS
  <2>7. \A j \in DOMAIN sent' : sent'[j].path.no <= path.no
    BY <1>1, <2>4, <2>5, <2>6
  <2>8. \A i, j \in DOMAIN sent' : sent'[i].path.no = sent'[j].path.no => i = j
    BY <1>1, <2>4, <2>5, <2>6 DEF DeliveredOnce
  <2> QED
    BY <1>1, <2>1, <2>3, <2>7, <2>8 DEF DeliveredOnce
<1>5. ASSUME NEW i \in DOMAIN sent, Handler(i) PROVE DeliveredOnce'
  <2>1. PICK from \in Stages, to \in Stages : Stage(i, from, to)
    BY <1>5 DEF Handler, LogChange, LeaveCrumb, Post, Stages
  <2>2. UNCHANGED <<path, seen>>
    BY <1>5 DEF Handler, LogChange, LeaveCrumb, Post, system
  <2> QED
    BY <2>1, <2>2, StageKeepsPaths DEF DeliveredOnce
<1>6. CASE UNCHANGED <<path, seen, sent>>
  BY <1>6 DEF DeliveredOnce
<1>7. CASE AlreadyRunning \/ Started \/ EmitLogs \/ AddBreadcrumb
  BY <1>6, <1>7 DEF AlreadyRunning, Started, EmitLogs, AddBreadcrumb, system
<1>8. CASE RunBlock \/ PostResult \/ OpenAlert \/ Dismiss \/ UNCHANGED wvars
  BY <1>6, <1>8 DEF RunBlock, PostResult, OpenAlert, Dismiss, wvars, system
<1> QED
  BY <1>2, <1>3, <1>4, <1>5, <1>7, <1>8 DEF WatchNext

LEMMA PostedOnceNext ==
  ASSUME WatchInv, PostedOnce, [WatchNext]_wvars PROVE PostedOnce'
<1>1. /\ text \in Seq(Events) /\ queue \in Seq(Nat) /\ QueuePosted /\ TextPosted
      /\ sent \in Seq([path : Paths, stage : Stages])
  BY DEF WatchInv, WatchTypeOK, Events
<1>2. CASE UNCHANGED <<queue, text>>
  BY <1>2 DEF PostedOnce, Lines
<1>3. CASE /\ UNCHANGED <<queue, sent>>
           /\ \E w \in Words \ {"path"} : text' = Append(text, Click(w))
  <2>1. Lines(text') = Lines(text) /\ \A n \in DOMAIN text : text'[n] = text[n]
    BY <1>3, ClickLine
  <2>2. \A n \in Lines(text) : text'[n] = text[n]
    BY <2>1 DEF Lines
  <2> QED
    BY <1>3, <2>1, <2>2 DEF PostedOnce
<1>4. CASE Started \/ EmitLogs \/ AddBreadcrumb
  BY <1>3, <1>4, ClickWords DEF Started, EmitLogs, AddBreadcrumb, system
<1>5. CASE StartNetworkWatch \/ AlreadyRunning \/ Change \/ OpenAlert \/ Dismiss \/ UNCHANGED wvars
  BY <1>2, <1>5 DEF StartNetworkWatch, AlreadyRunning, Change, OpenAlert, Dismiss, wvars, system
<1>6. ASSUME NEW m \in DOMAIN seen, Deliver(m) PROVE PostedOnce'
  BY <1>2, <1>6 DEF Deliver
\* Something new is put on the queue.
<1>7. ASSUME NEW i \in Nat, queue' = Append(queue, i), text' = text,
             i # Result => /\ \A n \in DOMAIN queue : queue[n] # i
                           /\ \A n \in Lines(text) : text[n].of # i
      PROVE  PostedOnce'
  <2>1. /\ DOMAIN queue' = DOMAIN queue \cup {Len(queue) + 1} /\ queue'[Len(queue) + 1] = i
        /\ \A n \in DOMAIN queue : queue'[n] = queue[n]
    BY <1>1, <1>7
  <2>2. Lines(text') = Lines(text)
    BY <1>7
  <2> QED
    BY <1>7, <2>1, <2>2 DEF PostedOnce
<1>8. CASE PostResult
  BY <1>7, <1>8 DEF PostResult, Result
<1>9. ASSUME NEW i \in DOMAIN sent, Handler(i) PROVE PostedOnce'
  <2>1. CASE LogChange(i) \/ LeaveCrumb(i)
    BY <1>2, <2>1 DEF LogChange, LeaveCrumb
  <2>2. CASE Post(i)
    <3>1. sent[i].stage # "posted" /\ queue' = Append(queue, i) /\ text' = text /\ i \in Nat
      BY <1>1, <2>2 DEF Post, Stage
    <3>2. /\ \A n \in DOMAIN queue : queue[n] # Result => queue[n] # i
          /\ \A n \in Lines(text) : text[n].of # i
      BY <1>1, <3>1 DEF QueuePosted, TextPosted
    <3> QED
      BY <1>7, <3>1, <3>2
  <2> QED
    BY <1>9, <2>1, <2>2 DEF Handler
<1>10. CASE RunBlock
  <2>1. queue # <<>> /\ queue' = Tail(queue)
    BY <1>10 DEF RunBlock, Draining
  <2>2. /\ 1 \in DOMAIN queue /\ Head(queue) = queue[1] /\ Head(queue) \in Nat
        /\ \A n \in DOMAIN queue' : n \in Nat /\ n + 1 # 1 /\ n + 1 \in DOMAIN queue /\ queue'[n] = queue[n + 1]
    BY <1>1, <2>1
  <2>3. \A a, b \in DOMAIN queue' : queue'[a] = queue'[b] /\ queue'[a] # Result => a = b
    <3> SUFFICES ASSUME NEW a \in DOMAIN queue', NEW b \in DOMAIN queue', queue'[a] = queue'[b], queue'[a] # Result
                 PROVE  a = b
      OBVIOUS
    <3>1. a + 1 = b + 1
      BY <2>2 DEF PostedOnce
    <3> QED
      BY <2>2, <3>1
  <2>4. CASE Head(queue) = Result
    <3>1. text' = text
      BY <1>10, <2>4 DEF RunBlock
    <3> QED
      BY <2>2, <2>3, <3>1 DEF PostedOnce
  <2>5. CASE Head(queue) # Result
    <3> PICK line : line = Event("path", Head(queue))
      OBVIOUS
    <3>1. line \in Events /\ line.what = "path" /\ line.of = Head(queue)
      BY <2>2 DEF Event, Events, Words
    <3>2. text' = Append(text, line)
      BY <1>10, <2>5 DEF RunBlock
    <3>3. /\ Lines(text') = Lines(text) \cup {Len(text) + 1} /\ text'[Len(text) + 1] = line
          /\ \A n \in DOMAIN text : text'[n] = text[n]
      BY <1>1, <3>1, <3>2, LogGrows, LinesGrow
    <3>4. \A n \in Lines(text) : text'[n] = text[n] /\ text[n].of # Head(queue)
      BY <2>2, <2>5, <3>3 DEF PostedOnce, Lines
    <3>5. \A a \in DOMAIN queue' : queue'[a] # Result => queue'[a] # Head(queue)
      BY <2>2, <2>5 DEF PostedOnce
    <3>6. \A a \in DOMAIN queue' : queue'[a] # Result => \A b \in Lines(text') : text'[b].of # queue'[a]
      BY <2>2, <3>1, <3>3, <3>4, <3>5 DEF PostedOnce
    <3>7. \A a, b \in Lines(text') : text'[a].of = text'[b].of => a = b
      BY <3>1, <3>3, <3>4 DEF PostedOnce
    <3> QED
      BY <2>3, <3>6, <3>7 DEF PostedOnce
  <2> QED
    BY <2>4, <2>5
<1> QED
  BY <1>4, <1>5, <1>6, <1>8, <1>9, <1>10 DEF WatchNext

\* A change of the path is shown at most once: clicking the button again makes no
\* second monitor, no handler runs twice for a change, and no line is appended twice,
\* in whatever order the concurrent handlers end.
THEOREM ChangesShownOnce == WatchSpec => []EachOnce
<1>1. WatchInit => DeliveredOnce /\ PostedOnce
  BY DEF WatchInit, DeliveredOnce, PostedOnce, Lines
<1>2. WatchInv /\ DeliveredOnce /\ PostedOnce => EachOnce
  BY DEF WatchInv, TextPosted, DeliveredOnce, PostedOnce, EachOnce
<1> QED
  BY <1>1, <1>2, DeliveredOnceNext, PostedOnceNext, WatchInvAlways, PTL DEF WatchSpec
=============================================================================
