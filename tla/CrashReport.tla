----------------------------- MODULE CrashReport -----------------------------
(* The crash report: what SentryCrashReport.c writes of a process, section by  *)
(* section, through the JSON encoder and a buffered file; what is left of it   *)
(* when the writer dies; the second report that embeds such a file; and what   *)
(* the next launch makes of either.                                            *)
(*                                                                             *)
(* Plain fields of one kind that follow one another are represented by one.    *)
EXTENDS JSONCodec, CrashMemory, CrashSymbols, FiniteSets

CONSTANTS Processes,      \* the crashed processes to report on
          Depth,          \* kDefaultMemorySearchDepth
          Garbage,        \* what a pointer that was never set may hold
          Window,         \* the tokens that fit the buffer of addJSONFromFile
          MaxRead         \* as much of a report as readReport reads, from its end

\* A process: images are those loaded, dyld is the linker's own, zombie whether the
\* last NSException deallocated is known and whether its reason mentions an address,
\* error the kind of crash, reason a string or Null, threads the threads of the
\* crashed task, heap its memory, scope the values of the scope that are set, crumbs
\* the breadcrumbs from the current one on, user the user information or <<>>, log
\* whether there is a console log.  No class is restricted: the application names none.
Kinds == {"mach", "signal", "cpp", "objc"}
ThreadStates == [crashed : BOOLEAN, named : BOOLEAN, state : BOOLEAN, notable : Seq(Addresses),
                 pc : Addresses, lr : Addresses, fp : Addresses, trace : Seq(Addresses)]

ASSUME ReportAssumption ==
  /\ Depth \in Nat \ {0} /\ MaxIvars \in Nat \ {0} /\ Garbage \subseteq Addresses \ {Infinity}
  /\ \A p \in Processes : /\ IsMemory(p.heap) /\ p.threads \in Seq(ThreadStates)
                          /\ p.scope \in Seq([name : STRING, text : Seq(STRING)])
                          /\ p.crumbs \in Seq(Seq(STRING))

\* In a text of the encoder's own no name has a character that it would have refused.
Speakable(text) == \A i \in 1..Len(text) - 1 : text[i + 1] = ":" => text[i] # Control

\* Names, reasons and kinds are strings, the user information is a dictionary, and there
\* is a thread.  All texts and names come from the encoder.
ASSUME TextAssumption ==
  /\ MaxFrames \in Nat /\ Window \in Nat /\ MaxDepth \in Nat /\ MaxRead \in Nat
  /\ \A p \in Processes :
       /\ Len(p.images) \in Nat /\ p.threads # <<>>
       /\ p.error \in Kinds /\ p.reason \notin NotStrings \ {Null}
       /\ \A i \in DOMAIN p.scope : p.scope[i].name \notin NotStrings \cup {Control} /\ Speakable(p.scope[i].text)
       /\ \A i \in DOMAIN p.crumbs : Speakable(p.crumbs[i])
       /\ p.user \in Seq(STRING) /\ (p.user # <<>> => p.user[1] = "{") /\ Speakable(p.user)

VARIABLES
  process,     \* what is reported on
  phase,       \* the section to write, or what became of the report
  enc,         \* the encoder
  flushed,     \* how many tokens of the first report are certainly in the file
  work,        \* what is left to write of the section
  limit,       \* the limit of writeMemoryContents
  contents,    \* how many objects were written for one notable address
  refused,     \* a value of the scope, or the user information, could not be embedded
  file         \* what is on disk when the process is gone

vars == <<process, phase, enc, flushed, work, limit, contents, refused, file>>

-----------------------------------------------------------------------------
\* The parts of a report, as operators from encoder to encoder.

Text(c, name)      == AddElement(c, name, "text")
Numeric(c, name)   == AddElement(c, name, Number)
Object(c, name)    == BeginContainer(c, name, "{")
Array(c, name)     == BeginContainer(c, name, "[")
Wrapped(c, name, Fill(_)) == EndContainer(Fill(Object(c, name)))

ReportInfo(c, type) ==
  Wrapped(c, "report", LAMBDA d : AddElement(AddElement(Text(d, "id"), "timestamp", Now), "type", type))

BinaryImage(c, image) ==
  LET named  == Text(Numeric(Object(c, Null), "image_addr"), "name")
      first  == IF Told(image.info, 1) THEN Text(named, "crash_info_message") ELSE named
      second == IF Told(image.info, 2) THEN Text(first, "crash_info_message2") ELSE first IN
  EndContainer(second)
BinaryImages(c) ==
  LET written[i \in 0..Len(process.images)] ==
        IF i = 0 THEN Array(c, "binary_images") ELSE BinaryImage(written[i - 1], process.images[i]) IN
  EndContainer(written[Len(process.images)])

\* Memory, application statistics and the rest of what the monitors knew before.
SystemInfo(c) ==
  Wrapped(c, "system", LAMBDA d :
    Wrapped(Wrapped(Numeric(Text(d, "system_name"), "cpu_type"),
                    "memory", LAMBDA e : Numeric(e, "size")),
            "application_stats", LAMBDA e : Numeric(AddElement(e, "application_active", Literal),
                                                    "sessions_since_launch")))

Reason(c) == IF process.reason = Null THEN c ELSE AddElement(c, "reason", process.reason)

Error(c) ==
  Wrapped(c, "error", LAMBDA d :
    LET common == Reason(Numeric(Wrapped(Wrapped(d, "mach", LAMBDA e : Numeric(e, "code")),
                                         "signal", LAMBDA e : Text(e, "name")), "address"))
        typed == AddElement(common, "type", process.error) IN
    IF process.error = "cpp" THEN Wrapped(typed, "cpp_exception", LAMBDA e : Text(e, "name"))
    ELSE IF process.error = "objc" THEN Wrapped(typed, "nsexception", LAMBDA e : Reason(Text(e, "name")))
    ELSE typed)

\* An entry of a stack, with its symbol if there is one.
StackEntry(c, return) ==
  LET found  == Symbolicate(process.images, process.dyld, return)
      Name1(d) == Numeric(Text(d, "object_name"), "object_addr")
      Name2(d) == Numeric(IF found.symbol.named THEN Text(d, "symbol_name") ELSE d, "symbol_addr") IN
  Wrapped(c, Null, LAMBDA d : Numeric(IF found.ok THEN Name2(Name1(d)) ELSE d, "instruction_addr"))

Stack(c, frames) ==
  LET written[i \in 0..Len(frames)] ==
        IF i = 0 THEN Array(c, "contents") ELSE StackEntry(written[i - 1], frames[i]) IN
  EndContainer(written[Len(frames)])

\* A thread up to the addresses of note, which only the crashed one has.
ThreadBegin(c, name, thread) ==
  LET frames == Stack(Object(Object(c, name), "backtrace"), Frames(process.heap, thread))
      trace  == EndContainer(Numeric(frames, "skipped"))
      state  == IF ~thread.state THEN trace
                ELSE Wrapped(trace, "registers", LAMBDA d :
                       LET basic == Wrapped(d, "basic", LAMBDA e : Numeric(e, "pc")) IN
                       IF thread.crashed THEN Wrapped(basic, "exception", LAMBDA e : Numeric(e, "far"))
                       ELSE basic)
      named  == IF thread.named THEN Text(Numeric(state, "index"), "name") ELSE Numeric(state, "index")
      flags  == AddElement(named, "crashed", Literal) IN
  IF thread.crashed THEN Wrapped(flags, "stack", LAMBDA d : Text(Numeric(d, "stack_pointer"), "contents"))
  ELSE flags

DebugInfo(c) ==
  Wrapped(c, "debug", LAMBDA d :
    IF process.log THEN EndContainer(Text(Array(d, "console_log"), Null)) ELSE d)

\* addJSONElement: a text that is refused is quoted after what was taken of it.  The
\* quotation is as long as the text's longest string.
Quoted(text) == IF \E i \in DOMAIN text : text[i] = Huge THEN Huge ELSE "text"
AddText(c, name, text) ==
  LET r == AddJSON(c, name, text, FALSE) IN
  IF r.result = "ok" THEN r.enc
  ELSE Wrapped(r.enc, name, LAMBDA d : AddElement(Text(d, "error"), "json_data", Quoted(text)))
Refused(c, name, text) == AddJSON(c, name, text, FALSE).result # "ok"

-----------------------------------------------------------------------------
\* Work is a sequence of what is still to do: an address that may be of note, one to
\* describe, a variable of an object, a thread, a value of the scope, or a container to close.
Close              == [do |-> "close"]
Place(a)           == [do |-> "place", address |-> a]
Memory(name, a)    == [do |-> "memory", name |-> name, address |-> a]
Variable(a, i)     == [do |-> "ivar", object |-> a, index |-> i]
Thread(t)          == [do |-> "thread", thread |-> t]
Value(name, text)  == [do |-> "value", name |-> name, text |-> text]

\* An address is of note if the report could say what is there.
Notable(a, kind) == a # Nil /\ (Tagged(a) => IsValidTaggedPointer(a)) /\ kind # "nothing"

\* A variable that could not be read has whatever was in the handler's own.
Values(a) == IF a = Unread THEN Garbage ELSE {a}

\* JSON has no infinity: what is printed for it can begin nothing.
Figure(c, name, infinite) == AddElement(c, name, IF infinite THEN Junk ELSE Number)

\* The value of an object of a class the report knows, if its characters can be copied.
Valued(c, a, kind) ==
  CASE kind \in {"string", "url"} ->
         IF ~StringFaults(process.heap, a) /\ HasCharacters(process.heap, a) THEN Text(c, "value") ELSE c
    [] kind = "date" \/ (kind = "number" /\ ~NumberFaults(process.heap, a)) ->
         Figure(c, "value", IsInfinite(process.heap, a))
    [] OTHER -> c

\* What writeMemoryContents writes of an address at once.
Described(c, a, kind) ==
  LET address == Numeric(c, "address")
      typed   == Text(address, "type")
      classed == IF Tagged(a) /\ ~IsValidTaggedPointer(a) THEN AddElement(typed, "class", Literal)
                 ELSE Text(typed, "class") IN
  CASE kind = "fault"              -> address
    [] kind \in {"null", "nothing"} -> typed
    [] kind = "cstring"            -> Text(typed, "value")
    [] OTHER                       -> Valued(classed, a, kind)

\* It reads something it should not have when the limit, already decremented, is left.
Faults(a, kind, left) ==
  \/ kind = "fault"
  \/ kind \in {"string", "url"} /\ StringFaults(process.heap, a)
  \/ kind = "number" /\ NumberFaults(process.heap, a)
  \/ kind \in Arrays /\ left > 0 /\ ArrayFaults(process.heap, a, kind)

\* What follows: the fields it begins, by how much the limit falls, and what is in them.
Ivars(a) == IF Tagged(a) THEN <<>> ELSE [i \in 1..IvarCount(process.heap, a) |-> Variable(a, i)]
Begun(c, a) == IF Tagged(a) THEN Numeric(Object(c, "ivars"), "tagged_payload") ELSE Object(c, "ivars")
Written(e, next, cost) == [enc |-> e, next |-> next, cost |-> cost]

\* fault: the variables are not paid for in advance
ContentsUnpaid(c, a, kind, left) ==
  CASE left > 0 /\ kind \in Arrays ->
         Written(c, [i \in DOMAIN FirstObject(process.heap, a, kind) |->
                      Memory("first_object", FirstObject(process.heap, a, kind)[i])], 0)
    [] left > 0 /\ kind = "unknown" -> Written(Begun(c, a), Append(Ivars(a), Close), 1)
    [] OTHER                        -> Written(c, <<>>, 0)

Contents(c, a, kind, left) ==
  CASE left > 0 /\ kind \in Arrays ->
         Written(c, [i \in DOMAIN FirstObject(process.heap, a, kind) |->
                      Memory("first_object", FirstObject(process.heap, a, kind)[i])], 0)
    [] left > 0 /\ kind = "unknown" -> Written(Begun(c, a), Append(Ivars(a), Close), 1 + Len(Ivars(a)))
    [] OTHER                        -> Written(c, <<>>, 0)

-----------------------------------------------------------------------------
Init ==
  /\ process \in Processes
  /\ phase = "report" /\ enc = Object(BeginEncode, "report")
  /\ flushed = 0 /\ work = <<>> /\ limit = 0 /\ contents = 0 /\ refused = FALSE /\ file = <<>>

\* The buffer is flushed of what was written before; then comes a section, or its beginning.
Section(now, next, e) ==
  /\ phase = now /\ work = <<>>
  /\ phase' = next /\ enc' = e /\ flushed' = Len(enc.out)

WriteReportInfo ==
  /\ phase = "report" /\ work = <<>> /\ phase' = "images"
  /\ enc' = ReportInfo(enc, "standard")
  /\ UNCHANGED <<process, flushed, work, limit, contents, refused, file>>

WriteBinaryImages ==
  /\ Section("images", "process", BinaryImages(enc))
  /\ UNCHANGED <<process, work, limit, contents, refused, file>>

\* The address in the last exception's reason is followed, of note or not.
WriteProcessState ==
  /\ LET state  == Object(enc, "process_state")
         zombie == Text(Object(state, "last_dealloced_nsexception"), "reason") IN
     Section("process", "system", IF process.zombie = "none" THEN state ELSE zombie)
  /\ work' = CASE process.zombie = "none"  -> <<Close>>
               [] process.zombie = "plain" -> <<Close, Close>>
               [] OTHER -> <<Memory("referenced_object", 1), Close, Close>>
  /\ UNCHANGED <<process, limit, contents, refused, file>>

WriteSystemInfo ==
  /\ Section("system", "error", SystemInfo(enc))
  /\ UNCHANGED <<process, work, limit, contents, refused, file>>

WriteError ==
  /\ Section("error", "threads", Error(Object(enc, "crash")))
  /\ UNCHANGED <<process, work, limit, contents, refused, file>>

WriteAllThreads ==
  /\ Section("threads", "crash ends", Array(enc, "threads"))
  /\ work' = [i \in DOMAIN process.threads |-> Thread(process.threads[i])] \o <<Close>>
  /\ UNCHANGED <<process, limit, contents, refused, file>>

EndCrash ==
  /\ Section("crash ends", "scope", EndContainer(enc))
  /\ UNCHANGED <<process, work, limit, contents, refused, file>>

\* The registers of the crashed thread hold its first addresses, the stack the others.
WriteThread ==
  /\ work # <<>> /\ Head(work).do = "thread"
  /\ LET t == Head(work).thread
         begun == ThreadBegin(enc, Null, t) IN
     IF t.crashed
     THEN /\ enc' = Object(begun, "notable_addresses")
          /\ work' = [i \in DOMAIN t.notable |-> Place(t.notable[i])] \o <<Close, Close>> \o Tail(work)
     ELSE enc' = EndContainer(begun) /\ work' = Tail(work)
  /\ UNCHANGED <<process, phase, flushed, limit, contents, refused, file>>

\* The handler reads what cannot be read: it is not to write on.
Fault == phase' = "faulted" /\ work' = <<>>

WriteIfNotable ==
  /\ work # <<>> /\ Head(work).do = "place"
  /\ \E kind \in {Kind(process.heap, Head(work).address)} :
       LET a == Head(work).address IN
       IF Notable(a, kind) /\ kind = "fault" THEN Fault
       ELSE /\ work' = (IF Notable(a, kind) THEN <<Memory("place", a)>> ELSE <<>>) \o Tail(work)
            /\ UNCHANGED phase
  /\ UNCHANGED <<process, enc, flushed, limit, contents, refused, file>>

\* An address that is not part of the description of another starts with a new limit.
WriteContents(name, a, kind, left) ==
  LET described == Described(Object(enc, name), a, kind) IN
  IF Faults(a, kind, left) THEN Fault /\ enc' = described /\ limit' = left
  ELSE \E more \in {Contents(described, a, kind, left)} :
         /\ enc' = more.enc /\ limit' = left - more.cost
         /\ work' = more.next \o <<Close>> \o Tail(work)
         /\ UNCHANGED phase

WriteMemoryContents ==
  /\ work # <<>> /\ Head(work).do = "memory"
  /\ LET name == Head(work).name
         new  == name \in {"place", "referenced_object"} IN
     /\ \E a \in Values(Head(work).address) :
          WriteContents(name, a, Kind(process.heap, a), (IF new THEN Depth ELSE limit) - 1)
     /\ contents' = (IF new THEN 0 ELSE contents) + 1
  /\ UNCHANGED <<process, flushed, refused, file>>

\* The writer fails at what of a variable cannot be read, and perhaps by copying one that is
\* larger than its type says over its own stack.  (Where the name cannot be read the comma in
\* front of it has been written: a text that ends there is read alike.)
WriteIvar ==
  /\ work # <<>> /\ Head(work).do = "ivar"
  /\ LET a == Head(work).object
         i == Head(work).index
         v == Ivar(process.heap, a, i) IN
     \/ /\ v.state = "lost" \/ (v.size = "over" /\ v.type # "other")
        /\ Fault /\ UNCHANGED enc
     \/ /\ v.state = "whole"
        /\ \E value \in Values(IvarValue(process.heap, a, i)) :
             enc' = IF v.type = "number" THEN Figure(enc, v.name, value = Infinity) ELSE enc
        /\ work' = (IF v.type = "pointer" THEN <<Memory(v.name, IvarValue(process.heap, a, i))>> ELSE <<>>)
                   \o Tail(work)
        /\ UNCHANGED phase
  /\ UNCHANGED <<process, flushed, limit, contents, refused, file>>

WriteScope ==
  /\ phase = "scope" /\ work = <<>> /\ phase' = "crumbs"
  /\ enc' = Object(enc, "sentry_sdk_scope")
  /\ work' = [i \in DOMAIN process.scope |-> Value(process.scope[i].name, process.scope[i].text)]
  /\ UNCHANGED <<process, flushed, limit, contents, refused, file>>

WriteValue ==
  /\ work # <<>> /\ Head(work).do = "value"
  /\ enc' = AddText(enc, Head(work).name, Head(work).text)
  /\ refused' = (refused \/ Refused(enc, Head(work).name, Head(work).text))
  /\ work' = Tail(work)
  /\ UNCHANGED <<process, phase, flushed, limit, contents, file>>

WriteBreadcrumbs ==
  /\ phase = "crumbs" /\ work = <<>> /\ phase' = "user"
  /\ enc' = IF process.crumbs = <<>> THEN enc ELSE Array(enc, "breadcrumbs")
  /\ work' = IF process.crumbs = <<>> THEN <<Close>>
             ELSE [i \in DOMAIN process.crumbs |-> Value("crumb", process.crumbs[i])] \o <<Close, Close>>
  /\ UNCHANGED <<process, flushed, limit, contents, refused, file>>

WriteClose ==
  /\ work # <<>> /\ Head(work) = Close
  /\ enc' = EndContainer(enc) /\ work' = Tail(work)
  /\ UNCHANGED <<process, phase, flushed, limit, contents, refused, file>>

\* fault: the bracket is written only when there is no user information
WriteUserOpen ==
  /\ Section("user", "debug",
             IF process.user = <<>> THEN EndContainer(Object(enc, "user")) ELSE AddText(enc, "user", process.user))
  /\ refused' = (refused \/ (process.user # <<>> /\ Refused(enc, "user", process.user)))
  /\ UNCHANGED <<process, work, limit, contents, file>>

\* The user information is copied all but its last bracket, which is always written.
WriteUser ==
  /\ Section("user", "debug",
             EndContainer(IF process.user = <<>> THEN Object(enc, "user") ELSE AddText(enc, "user", process.user)))
  /\ refused' = (refused \/ (process.user # <<>> /\ Refused(enc, "user", process.user)))
  /\ UNCHANGED <<process, work, limit, contents, file>>

WriteDebugInfo ==
  /\ Section("debug", "end", DebugInfo(enc))
  /\ UNCHANGED <<process, work, limit, contents, refused, file>>

\* The end of the report, and whatever is still open.
EndReport ==
  /\ phase = "end" /\ work = <<>> /\ phase' = "closed"
  /\ enc' = EndEncode(EndContainer(enc)) /\ file' = enc'.out
  /\ UNCHANGED <<process, flushed, work, limit, contents, refused>>

-----------------------------------------------------------------------------
\* What the writer knew of its report is gone with it.
Forget == limit' = 0 /\ contents' = 0 /\ refused' = FALSE

\* The process dies while it writes: the file has what was flushed, and as much of
\* the rest as left the buffer because it was full.
Die ==
  /\ phase \notin {"closed", "dead", "recrashed", "read"} /\ phase' = "dead"
  /\ \E n \in flushed..Len(enc.out) : file' = SubSeq(enc.out, 1, n)
  /\ enc' = BeginEncode /\ flushed' = 0 /\ work' = <<>> /\ Forget
  /\ UNCHANGED process

\* The writer crashes instead, and the second report embeds what there is.
Recrash ==
  /\ phase \notin {"closed", "dead", "recrashed", "read"} /\ phase' = "recrashed"
  /\ \E n \in flushed..Len(enc.out) :
       \E copied \in {AddJSONFromFile(Object(BeginEncode, "report"), "recrash_report",
                                      SubSeq(enc.out, 1, n), Window, TRUE).enc} :
         \E error \in {Error(Object(ReportInfo(copied, "minimal"), "crash"))} :
           LET crash == EndContainer(ThreadBegin(error, "crashed_thread", Head(process.threads))) IN
           enc' = EndEncode(EndContainer(EndContainer(crash))) /\ flushed' = n
  /\ file' = enc'.out /\ work' = <<>> /\ Forget
  /\ UNCHANGED process

\* The next launch reads the report, a long one only from where it has room for the rest; or
\* it reads nothing if the fixer stumbles.
LastOf(text, n) == IF Len(text) <= n THEN text ELSE SubSeq(text, Len(text) - n + 1, Len(text))
Launch ==
  /\ phase \in {"closed", "dead", "recrashed"} /\ phase' = "read"
  /\ file' = LET fixed == Fix(LastOf(file, MaxRead)) IN IF fixed.ok THEN fixed.out ELSE <<>>
  /\ UNCHANGED <<process, enc, flushed, work, limit, contents, refused>>

Next ==
  \/ WriteReportInfo \/ WriteBinaryImages \/ WriteProcessState
  \/ WriteSystemInfo \/ WriteError \/ WriteAllThreads \/ WriteThread \/ EndCrash
  \/ WriteIfNotable \/ WriteMemoryContents \/ WriteIvar \/ WriteScope \/ WriteValue \/ WriteBreadcrumbs
  \/ WriteClose \/ WriteUser \/ WriteDebugInfo \/ EndReport \/ Die \/ Recrash \/ Launch

Spec == Init /\ [][Next]_vars

-----------------------------------------------------------------------------
\* A text by the JSON grammar: what may come next, the open containers, and the keys of
\* the outermost object.
Marks      == {"{", "["}
Strings(t) == t \notin NotStrings
Scalar(t)  == Strings(t) \/ t \in Numbers \cup {Literal}
Closes(s, t) == /\ s.open # <<>> /\ t = Closer(Last(s.open))
                /\ \/ s.want = "after"
                   \/ s.want = "first name" /\ t = "}"
                   \/ s.want = "first value" /\ t = "]"
State(open, want, keys) == [open |-> open, want |-> want, keys |-> keys]
After(open, keys)       == State(open, IF open = <<>> THEN "end" ELSE "after", keys)
Grammar(s, t) ==
  LET value == s.want \in {"value", "first value"} IN
  IF Closes(s, t) THEN After(Front(s.open), s.keys)
  ELSE IF value /\ t \in Marks
  THEN State(Append(s.open, t), IF t = "{" THEN "first name" ELSE "first value", s.keys)
  ELSE IF value /\ Scalar(t) THEN After(s.open, s.keys)
  ELSE IF s.want \in {"name", "first name"} /\ Strings(t)
  THEN State(s.open, "colon", IF Len(s.open) = 1 THEN Append(s.keys, t) ELSE s.keys)
  ELSE IF s.want = "colon" /\ t = ":" THEN State(s.open, "value", s.keys)
  ELSE IF s.want = "after" /\ t = ","
  THEN State(s.open, IF Last(s.open) = "{" THEN "name" ELSE "value", s.keys)
  ELSE State(s.open, "error", s.keys)

Start == State(<<>>, "value", <<>>)

\* Where in a text one is, by the names from its root on; whether one has been deeper in it
\* than the fixer can be; and a copy of what was passed that has the times of the report, and
\* of a report it embeds, as dates.
Times  == {<<Null, "report", "timestamp">>, <<Null, "recrash_report", "report", "timestamp">>}
Outset == [path |-> <<>>, name |-> Null, deep |-> FALSE, copy |-> <<>>]
InDates(w, t) == IF t \in Numbers /\ Append(w.path, w.name) \in Times THEN Date ELSE t
Pass(w, t) ==
  [path |-> IF t \in Marks THEN Append(w.path, w.name)
            ELSE IF t \in {"}", "]"} THEN Front(w.path) ELSE w.path,
   name |-> IF Strings(t) THEN t ELSE IF t = ":" THEN w.name ELSE Null,
   deep |-> w.deep \/ (t \in Marks /\ Len(w.path) >= MaxDepth),
   copy |-> Append(w.copy, InDates(w, t))]

\* A reader takes one token after the other.
Reader(text) == [text |-> text, at |-> 0, state |-> Start, place |-> Outset]
Left(r)   == r.at < Len(r.text)
Read(r)   == LET t == r.text[r.at + 1] IN
             [text |-> r.text, at |-> r.at + 1, state |-> Grammar(r.state, t), place |-> Pass(r.place, t)]
Read8(r)  == Loop(8, Left, Read, r)
Read64(r) == Loop(8, Left, Read8, r)
Parsed(text)   == Loop(Len(text) \div 64 + 1, Left, Read64, Reader(text))
IsJSON(text)   == Parsed(text).state.want = "end"
RootKeys(text) == Parsed(text).state.keys
TooDeep(text)  == Parsed(text).place.deep
Dated(text)    == Parsed(text).place.copy

\* Whenever the writer stops, closing what is open gives a text of the JSON grammar: after a
\* value that had to be refused half-way, within the description of a heap with whatever
\* cycles and damage, and in a second report around the remains of the first.  Only what
\* makes a heap irregular (see CrashMemory) breaks it.
ReportAlwaysCloses ==
  Regular(process.heap) /\ phase \notin {"dead", "read"} => IsJSON(EndEncode(enc).out)

\* A finished report has its sections in their order and at the top, and not even a value of
\* the scope that was refused half-way hides those before it.  (A container of an irregular
\* heap that is refused is closed all the same, and what follows is in the wrong one.)
Sections == <<"report", "binary_images", "process_state", "system", "crash",
              "sentry_sdk_scope", "user", "debug">>
SectionsInPlace ==
  Regular(process.heap) /\ phase = "closed" =>
    /\ IsPrefix(SubSeq(Sections, 1, 6), RootKeys(file))
    /\ ~refused => RootKeys(file) = Sections

\* One address of note leads to fewer than Depth + MaxIvars descriptions, whatever
\* cycles the heap has, and the limit does not run away below zero.
MemoryBounded == contents <= Depth - 1 + MaxIvars /\ limit >= 0 - Depth - 2 * MaxIvars

\* A damaged heap brings the writer down only where the code does not look: at a class's
\* first variable, at the size of any, at the name of a superclass, at what is behind a string
\* or an array, and at what Core Foundation is to tell the type of.
IntrospectionGuarded == phase = "faulted" => Unguarded(process.heap)

\* Of the reports that it reads from their beginning, on regular heaps, the next launch takes
\* one exactly if its writer got to the end, nothing in it is longer than the fixer's buffer
\* and its containers are no deeper in one another than the fixer can count; and it changes
\* nothing but the times at which the reports were written, wherever else a timestamp may occur.
Complete(p) ==
  p \in {"closed", "recrashed"} /\ (\A i \in DOMAIN file : file[i] # Huge) /\ ~TooDeep(file)
OnlyWholeReportsPass ==
  [][phase' = "read" /\ Regular(process.heap) /\ Len(file) <= MaxRead =>
       file' = IF Complete(phase) THEN Dated(file) ELSE <<>>]_vars

\* The second report holds a part of the first that was on disk, its containers closed,
\* and nothing else.  Not so, see README.
Opened == <<"{", "recrash_report", ":">>
CopyIsOfTheFile ==
  [][phase' = "recrashed" /\ IsPrefix(Opened, enc'.out) =>
       \E k \in 0..flushed', c \in 0..Len(enc'.out) :
         LET rest == SubSeq(enc'.out, 4, Len(enc'.out)) IN
         /\ IsPrefix(SubSeq(enc.out, 1, k), rest)
         /\ \A i \in k + 1..k + c : rest[i] \in {"}", "]"}
         /\ SubSeq(rest, k + c + 1, k + c + 2) = <<",", "report">>]_vars
=============================================================================
