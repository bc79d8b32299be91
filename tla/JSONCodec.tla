------------------------------ MODULE JSONCodec ------------------------------
(* SentryCrash's JSON encoder and decoder (SentryCrashJSONCodec.c), the copying *)
(* of JSON from a file through a window (addJSONFromFile), and the fixer that  *)
(* a report passes before it is sent (SentryCrashReportFixer.c).               *)
(*                                                                             *)
(* A text is a sequence of tokens; white space is left out.  A token is a      *)
(* punctuation mark, a scalar, or a string, for which its name stands.         *)
EXTENDS Integers, Sequences, SequencesExt

CONSTANT MaxDepth       \* MAX_DEPTH, the containers that the fixer can be inside of

Punctuation == {"{", "}", "[", "]", ",", ":"}
Null     == "NULL"      \* the name of an array's element
Number   == "n"         \* a number: ended by what follows it
Now      == "now"       \* the number that time(NULL) is
Numbers  == {Number, Now}
Date     == "date"      \* a number as a date, which is a string
Literal  == "t"         \* true, false or null
Control  == "ctrl"      \* a string with a control character that has no escape
Long     == "long"      \* a string too long for the buffer of addJSONFromFile,
Huge     == "huge"      \* and one too long for every decoder's
Junk     == "junk"      \* a byte that can begin nothing; NUL is one
NotStrings == Punctuation \cup Numbers \cup {Literal, Junk, Null}

-----------------------------------------------------------------------------
\* The encoder: the open containers, whether the next element is the first of its
\* container, the text, and whether the last call succeeded.
BeginEncode == [open |-> <<>>, first |-> TRUE, out |-> <<>>, ok |-> TRUE]

Emit(c, tokens) == [c EXCEPT !.out = @ \o tokens]
InObject(c)     == c.open # <<>> /\ Last(c.open) = "{"

\* The comma is written before a missing name is noticed. A string is closed even if its
\* content could not be written, but nothing follows such a name.
BeginElement(c, name) ==
  LET d == Emit([c EXCEPT !.first = FALSE], IF c.first THEN <<>> ELSE <<",">>) IN
  IF ~InObject(c)        THEN [d EXCEPT !.ok = TRUE]
  ELSE IF name = Null    THEN [d EXCEPT !.ok = FALSE]
  ELSE IF name = Control THEN [Emit(d, <<"cut">>) EXCEPT !.ok = FALSE]
  ELSE [Emit(d, <<name, ":">>) EXCEPT !.ok = TRUE]

AddElement(c, name, value) ==
  LET d == BeginElement(c, name) IN
  IF d.ok THEN [Emit(d, <<IF value = Control THEN "cut" ELSE value>>) EXCEPT !.ok = value # Control]
  ELSE d

BeginContainer(c, name, opener) ==
  LET d == BeginElement(c, name) IN
  IF d.ok THEN Emit([d EXCEPT !.open = Append(@, opener), !.first = TRUE], <<opener>>) ELSE d

Closer(opener) == IF opener = "{" THEN "}" ELSE "]"

\* fault: the element after a container takes itself for the first one
EndContainerFirst(c) ==
  IF c.open = <<>> THEN [c EXCEPT !.ok = TRUE]
  ELSE Emit([c EXCEPT !.open = Front(@), !.ok = TRUE], <<Closer(Last(c.open))>>)

EndContainer(c) ==
  IF c.open = <<>> THEN [c EXCEPT !.ok = TRUE]
  ELSE Emit([c EXCEPT !.open = Front(@), !.first = FALSE, !.ok = TRUE], <<Closer(Last(c.open))>>)

\* At most n rounds of Do, as long as there is more to do.
Loop(n, More(_), Do(_), c) ==
  LET after[i \in 0..n] ==
        IF i = 0 THEN c
        ELSE LET before == after[i - 1] IN IF More(before) THEN Do(before) ELSE before IN
  after[n]

Down(c, level) ==
  LET closed[i \in 0..Len(c.open)] == IF i = 0 THEN c ELSE EndContainer(closed[i - 1]) IN
  closed[Len(c.open) - level]
EndEncode(c)   == Down(c, 0)

-----------------------------------------------------------------------------
\* The decoder, one token or name at a time.  buf[pos + 1] is the next token, and
\* what is behind pos = Len(buf) is not there: a number must be followed by something.
\* file is what has not been read into the window, if there is one.
Decoder(buf, pos, file, window, name, enc, close, fix) ==
  [buf |-> buf, pos |-> pos, file |-> file, eof |-> FALSE, window |-> window, top |-> name,
   enc |-> enc, close |-> close, fix |-> fix, path |-> <<>>, stack |-> <<>>, result |-> "running"]

\* updateDecoder_readFile: less than half a window is left, so the rest is moved to
\* the front and the file read behind it.  Where the file ends early, what the window
\* held before stays there, and its end is not moved.
Refill(d) ==
  LET size == Len(d.buf)
      left == size - d.pos
      got  == IF size - left < Len(d.file) THEN size - left ELSE Len(d.file) IN
  IF ~d.window \/ d.eof \/ left * 2 >= size THEN d
  ELSE [d EXCEPT !.buf = SubSeq(@, d.pos + 1, size) \o SubSeq(d.file, 1, got)
                           \o SubSeq(@, left + got + 1, size),
                 !.pos = 0,
                 !.file = SubSeq(@, got + 1, Len(@)),
                 !.eof = got < size - left]

AtEnd(d)   == d.pos >= Len(d.buf)
Token(d)   == d.buf[d.pos + 1]
Stop(d, r) == [d EXCEPT !.result = r]
Skip(d, n) == [d EXCEPT !.pos = @ + n]
TooLong(d, t) == t = Huge \/ (t = Long /\ d.window)

\* What follows an element: the end of the text, or of the element around it, or the
\* next one, whether there is a comma or not.
AfterElement(d) ==
  IF ~d.enc.ok THEN Stop(d, "refused")
  ELSE IF d.stack = <<>> THEN Stop(d, "ok")
  ELSE IF ~AtEnd(d) /\ Token(d) = "," THEN Skip(d, 1) ELSE d

\* SentryCrashReportFixer's datePaths; the first entry is the name of the root.
DatePaths == {<<Null, "report", "timestamp">>, <<Null, "recrash_report", "report", "timestamp">>}

\* fault: the date is looked for at any depth
FixedAnywhere(d, name, token) ==
  IF d.fix /\ token \in Numbers /\ name = "timestamp" THEN Date ELSE token

Fixed(d, name, token) ==
  IF d.fix /\ token \in Numbers /\ Append(d.path, name) \in DatePaths THEN Date ELSE token

Element(d, name) ==
  LET t == Token(d) IN
  CASE t \in {"[", "{"} ->
         LET e == Refill([Skip(d, 1) EXCEPT !.enc = BeginContainer(@, name, t),
                                            !.path = Append(@, name), !.stack = Append(@, t)]) IN
         IF d.fix /\ Len(d.path) >= MaxDepth THEN Stop(e, "too long")
         ELSE IF e.enc.ok THEN e ELSE Stop(e, "refused")
    [] t \in {"]", "}", ",", ":", Junk, Null} -> Stop(d, "invalid")
    [] TooLong(d, t) -> Stop(d, "too long")
    [] t \in Numbers /\ d.pos + 1 >= Len(d.buf) -> Stop(d, "incomplete")
    [] OTHER -> AfterElement(Refill([Skip(d, 1) EXCEPT !.enc = AddElement(@, name, Fixed(d, name, t))]))

\* onEndContainer; when it is told not to close the last container the copier looks at
\* the encoder's level, not at the text's.
End(d) ==
  AfterElement(Refill(
    [Skip(d, 1) EXCEPT !.enc = IF d.fix \/ d.close \/ Len(@.open) > 2 THEN EndContainer(@)
                               ELSE [@ EXCEPT !.ok = TRUE],
                       !.path = Front(@), !.stack = Front(@)]))

Named(d) ==
  LET t == Token(d) IN
  IF t \in NotStrings THEN Stop(d, "invalid")
  ELSE IF TooLong(d, t) THEN Stop(d, "too long")
  ELSE IF d.pos + 1 >= Len(d.buf) THEN Stop(d, "incomplete")
  ELSE IF d.buf[d.pos + 2] # ":" THEN Stop(d, "invalid")
  ELSE IF d.pos + 2 >= Len(d.buf) THEN Stop(d, "incomplete")
  ELSE Element(Skip(d, 2), t)

DecodeStep(d) ==
  IF AtEnd(d) THEN Stop(d, "incomplete")
  ELSE IF d.stack = <<>> THEN Element(d, d.top)
  ELSE IF Token(d) = Closer(Last(d.stack)) THEN End(d)
  ELSE IF Last(d.stack) = "[" THEN Element(d, Null) ELSE Named(d)

\* Every step but the last takes a token, of the file or of what the window held before.
Running(d) == d.result = "running"
Steps8(d)  == Loop(8, Running, DecodeStep, d)
Steps64(d) == Loop(8, Running, Steps8, d)
Decode(d)  == Loop((2 * Len(d.buf) + Len(d.file)) \div 64 + 1, Running, Steps64, d)

-----------------------------------------------------------------------------
\* addJSONElement and addJSONFromFile: what was left open is closed if close says so.
\* The second decodes through a window of a fixed size, at first full of zeros.
Embedded(d, close, level) ==
  [enc |-> IF close THEN Down(d.enc, level) ELSE d.enc, result |-> d.result]

AddJSON(c, name, text, close) ==
  Embedded(Decode(Decoder(text, 0, <<>>, FALSE, name, c, close, FALSE)), close, Len(c.open))

AddJSONFromFile(c, name, file, size, close) ==
  LET zeros == [i \in 1..size |-> Junk] IN
  Embedded(Decode(Refill(Decoder(zeros, size, file, TRUE, name, c, close, FALSE))),
           close, Len(c.open))

\* sentrycrashcrf_fixupCrashReport returns the text, or nothing.  Its output may be half as
\* long again as its input, and only the dates take more room: a whole report fits.
Fix(text) == LET d == Decode(Decoder(text, 0, <<>>, FALSE, Null, BeginEncode, TRUE, TRUE)) IN
             [ok |-> d.result = "ok", out |-> EndEncode(d.enc).out]
=============================================================================
