----------------------------- MODULE CrashSymbols ----------------------------
(* Which image and symbol an address of a stack belongs to, and what an image  *)
(* says of the crash: SentryCrashDynamicLinker.c, SentryCrashSymbolicator.c    *)
(* and the reading of memory that may end anywhere (SentryCrashMemory.c).      *)
(*                                                                             *)
(* An image is where its header is (0 if it is corrupt), how far it was moved  *)
(* (slide), its segments as ranges before the move, whether it has a           *)
(* __LINKEDIT segment, its symbols and its crash information.                  *)
EXTENDS Integers, Sequences, SequencesExt

CONSTANTS MaxMessage,    \* SENTRYCRASHDL_MaxCrashInfoStringLength
          TestBuffer     \* the size of g_memoryTestBuffer

HasAddress(image, address) ==
  image.header # 0 /\ \E s \in image.segments : address - image.slide \in s.from..s.to
ImageIndexContaining(images, address) ==
  SelectInSeq(images, LAMBDA image : HasAddress(image, address))

\* dyld's __TEXT segment is taken to be as far behind the header as it was to be loaded.
TextStart(dyld)         == dyld.header + dyld.vmaddr
InDyld(dyld, address)   == dyld.header # 0 /\ address \in TextStart(dyld)..TextStart(dyld) + dyld.size - 1

\* The symbol that begins closest before the address, the last one of those that begin there.
Before(symbols, address) == {i \in DOMAIN symbols : symbols[i].value # 0 /\ symbols[i].value <= address}
Closest(symbols, address) ==
  CHOOSE i \in Before(symbols, address) :
    \A j \in Before(symbols, address) :
      \/ symbols[j].value < symbols[i].value
      \/ symbols[j].value = symbols[i].value /\ j <= i

NoSymbol == [value |-> 0, named |-> FALSE]
Symbol(symbols, address) ==
  IF Before(symbols, address) = {} THEN NoSymbol ELSE symbols[Closest(symbols, address)]

Dladdr(images, dyld, address) ==
  LET i == ImageIndexContaining(images, address) IN
  CASE i # 0 /\ images[i].linkedit ->
         [ok |-> TRUE, symbol |-> Symbol(images[i].symbols, address - images[i].slide)]
    [] i = 0 /\ InDyld(dyld, address) ->
         [ok |-> TRUE, symbol |-> Symbol(dyld.symbols, address - (dyld.header - TextStart(dyld)))]
    [] OTHER -> [ok |-> FALSE, symbol |-> NoSymbol]

\* An address of a stack is where a call returns to: the call is before it.
Symbolicate(images, dyld, return) == Dladdr(images, dyld, return - 1)

-----------------------------------------------------------------------------
\* How much can be read of count bytes of which the first readable can: halves are tried.
Halving(readable, count) ==
  LET half[at, end, max \in 0..count] ==
        IF end <= at THEN at
        ELSE IF end <= readable THEN half[end, end + (max - end) \div 2, max]
        ELSE IF end - at <= 1 THEN at
        ELSE half[at, at + (end - at) \div 2, end] IN
  half[0, count, count]
CopyMaxPossible(readable, count) ==
  IF readable = 0 THEN 0 ELSE IF count <= 1 THEN count ELSE Halving(readable, count)

\* The last part is looked at to the end of the test buffer, however little was asked for.
MaxReadableBytes(readable, try) ==
  LET rest[at \in Nat] ==
        IF try - at > TestBuffer /\ readable - at >= TestBuffer THEN TestBuffer + rest[at + TestBuffer]
        ELSE CopyMaxPossible(readable - at, TestBuffer) IN
  rest[0]

\* A message is how many bytes can be read of it, and where it ends.
NoMessage == [readable |-> 0, end |-> 1]
IsValidCrashInfoMessage(message) ==
  message.end <= MaxReadableBytes(message.readable, MaxMessage + 1)

\* Whether one of the two messages of an image's crash information goes into the report.
Told(info, which) ==
  info.whole /\ info.version \in {4, 5} /\ IsValidCrashInfoMessage(info.messages[which])
=============================================================================
