----------------------------- MODULE CrashMemory -----------------------------
(* What the crash handler makes of an address (SentryCrashObjC.c) and of a     *)
(* thread's stack (the stack cursors) in the memory of a process that may be   *)
(* damaged.                                                                    *)
(*                                                                             *)
(* A memory is a function from the addresses that can be read to what the      *)
(* code's structures find there, each in fields of its own; what is not in its *)
(* domain cannot be read.  The code verifies an address before it follows it   *)
(* (isMemoryReadable, copySafely); where it does not, it may fault.            *)
EXTENDS JSONCodec

CONSTANTS MaxSupers,    \* the classes looked at for a base class
          MaxIvars,     \* the instance variables looked at in an object
          MaxFrames     \* the depth at which a stack counts as overflown

Nil    == 0
Tags   == 100           \* addresses from here on are tagged pointers, one for each slot
Unread == 99            \* a variable whose value could not be read: it is never set
Infinity == 97          \* the value of a number that is infinite

Addresses == 0..Tags + 7

\* The instance variables a class declares.  One is "lost" if it, its type, its offset or the
\* characters of its name cannot be read, and "over" if it is larger than its type says.
IvarNames == {"ivar", Null, Control, Long, Huge}
Variables == [type : {"pointer", "number", "other"}, name : IvarNames,
              state : {"whole", "lost"}, size : {"fits", "over"}]

\* What the memories have in common, damaged or not.
IsMemory(m) ==
  \A a \in DOMAIN m : m[a].ivar \in Seq(Variables) /\ m[a].values \in Seq(Addresses) /\ m[a].count \in Nat

Readable(m, a) == a \in DOMAIN m
Tagged(a)      == a >= Tags

-----------------------------------------------------------------------------
\* The tables of known classes, by slot and by name.
TaggedClasses ==
  <<[name |-> "NSAtom", type |-> "unknown"], [name |-> "NULL", type |-> "unknown"],
    [name |-> "NSString", type |-> "string"], [name |-> "NSNumber", type |-> "number"],
    [name |-> "NSIndexPath", type |-> "unknown"], [name |-> "NSManagedObjectID", type |-> "unknown"],
    [name |-> "NSDate", type |-> "date"], [name |-> "NULL", type |-> "unknown"]>>
TaggedClass(a) == TaggedClasses[a - Tags + 1]

ClassType(name) ==
  CASE name \in {"__NSCFString", "NSCFString", "__NSCFConstantString", "NSCFConstantString"} -> "string"
    [] name \in {"__NSArray0", "__NSArrayI"}        -> "array"
    [] name = "__NSArrayM"                          -> "mutable array"
    [] name \in {"__NSCFArray", "NSCFArray"}        -> "CF array"
    [] name \in {"__NSDate", "NSDate"}              -> "date"
    [] name \in {"__NSCFNumber", "NSCFNumber", "NSNumber"} -> "number"
    [] name = "NSURL"                               -> "url"
    [] OTHER                                        -> "unknown"

-----------------------------------------------------------------------------
\* A class: its read-only data hang on its class_rw_t, by way of a class_rw_ext_t or not.
RO(m, class) == LET rw == m[m[class].data] IN IF rw.ext = Nil THEN rw.ro ELSE m[rw.ext].ro

ContainsValidROData(m, class) ==
  /\ Readable(m, class) /\ Readable(m, m[class].data)
  /\ m[m[class].data].ext # Nil => Readable(m, m[m[class].data].ext)
  /\ Readable(m, RO(m, class))

\* A variable's name is one that the compiler could have given: short enough for the report,
\* perhaps not for the buffer of addJSONFromFile.  Its size is not compared with its type.
IsValidIvar(v) == v.state = "whole" /\ v.name \in {"ivar", Long}

\* fault: the second one is not looked at either
ContainsValidIvarDataFromThird(m, class) ==
  LET list == m[RO(m, class)].ivars IN
  list # Nil => Readable(m, list) /\ \A i \in 3..Len(m[list].ivar) : IsValidIvar(m[list].ivar[i])

\* The first one is not looked at.
ContainsValidIvarData(m, class) ==
  LET list == m[RO(m, class)].ivars IN
  list # Nil => Readable(m, list) /\ \A i \in 2..Len(m[list].ivar) : IsValidIvar(m[list].ivar[i])

\* A name is a readable address with the characters of one.
Name(m, class) == m[m[RO(m, class)].name].text
ContainsValidClassName(m, class) ==
  Readable(m, m[RO(m, class)].name) /\ Name(m, class) # "no name"

IsValidClass(m, class) ==
  /\ ContainsValidROData(m, class)
  /\ ContainsValidClassName(m, class)
  /\ ContainsValidIvarData(m, class)

IsValidTaggedPointer(a) == Tagged(a) /\ TaggedClass(a).type # "unknown"
IsValidObject(m, a) == Readable(m, a) /\ Readable(m, m[a].isa) /\ IsValidClass(m, m[a].isa)

\* The last class before a root class, if the way to one is short and whole.
BaseClass(m, class) ==
  LET super[i \in 0..MaxSupers - 1] == IF i = 0 THEN class ELSE m[super[i - 1]].super
      root(i) == m[RO(m, super[i])].root
      top(i)  == /\ \A j \in 0..i : ContainsValidROData(m, super[j])
                 /\ root(i) /\ \A j \in 0..i - 1 : ~root(j) IN
  IF \E i \in 0..MaxSupers - 1 : top(i)
  THEN LET i == CHOOSE i \in 0..MaxSupers - 1 : top(i) IN super[IF i = 0 THEN 0 ELSE i - 1]
  ELSE Nil

\* The name of the base class, if it has one, is read whether it can be or not.
BaseName(m, base)     == m[RO(m, base)].name
BaseNameLost(m, base) == base # Nil /\ BaseName(m, base) # Nil /\ ~Readable(m, BaseName(m, base))
IsBlockClass(m, base) == base # Nil /\ BaseName(m, base) # Nil /\ Name(m, base) = "NSBlock"

TypeOf(m, class, base) ==
  CASE BaseNameLost(m, base)     -> "fault"
    [] IsBlockClass(m, base)     -> "block"
    [] m[RO(m, class)].meta      -> "class"
    [] OTHER                     -> "object"

\* What is at an address counts only if it would pass for a class, too.
ObjectType(m, a) ==
  CASE a = Nil   -> "unknown"
    [] Tagged(a) -> "object"
    [] OTHER     -> IF IsValidObject(m, a) /\ IsValidClass(m, a)
                    THEN TypeOf(m, m[a].isa, BaseClass(m, m[a].isa)) ELSE "unknown"

ObjectClassType(m, a) == IF Tagged(a) THEN TaggedClass(a).type ELSE ClassType(Name(m, m[a].isa))

\* How the report describes an address.
KindOf(m, a, type) ==
  CASE type = "object"  -> ObjectClassType(m, a)
    [] type = "unknown" -> IF a = Nil THEN "null"
                           ELSE IF Readable(m, a) /\ m[a].string THEN "cstring" ELSE "nothing"
    [] OTHER            -> type
Kind(m, a) == KindOf(m, a, ObjectType(m, a))

-----------------------------------------------------------------------------
\* The characters of a string are behind the object or elsewhere ("plain", copied only if
\* they can be read); a length byte in front of them and wide ones are read as they are.
\* An NSURL is taken for a string.
StringFaults(m, a) == ~Tagged(a) /\ m[a].style \in {"length byte", "wide"} /\ ~Readable(m, m[a].store)
HasCharacters(m, a) == Tagged(a) \/ m[a].style = "inline" \/ Readable(m, m[a].store)

\* The type of a number is asked of Core Foundation, which knows nothing of damage.
NumberFaults(m, a) == ~Tagged(a) /\ m[a].style = "no number"
IsInfinite(m, a)   == ~Tagged(a) /\ m[a].style = "infinite"

\* An array's first element, if it has one.  That of a CFArray of the deque sort is in the
\* deque, which is read as it is; a mutable NSArray is not looked into.
Arrays == {"array", "mutable array", "CF array"}
IsDeque(m, a, kind)     == kind = "CF array" /\ m[a].style = "deque"
ArrayFaults(m, a, kind) == IsDeque(m, a, kind) /\ m[a].count > 0 /\ ~Readable(m, m[a].store)
FirstObject(m, a, kind) ==
  LET all == IF IsDeque(m, a, kind) THEN m[m[a].store].values ELSE m[a].values IN
  IF m[a].count = 0 \/ kind = "mutable array" THEN <<>> ELSE [i \in DOMAIN all \cap {1} |-> all[i]]

IvarCount(m, a) ==
  LET list == m[RO(m, m[a].isa)].ivars IN
  IF list = Nil THEN 0 ELSE Min({MaxIvars, Len(m[list].ivar)})
Ivar(m, a, i)      == m[m[RO(m, m[a].isa)].ivars].ivar[i]
IvarValue(m, a, i) == IF i \in DOMAIN m[a].values THEN m[a].values[i] ELSE Unread

-----------------------------------------------------------------------------
\* The return addresses of a thread: the instruction, the link register, and what the
\* chain of frames holds, as far as it can be read and up to a frame without a successor.
Frame(m, a) == Readable(m, a) /\ m[a].previous # Nil /\ m[a].return # Nil
Walked(m, t) ==
  LET entry[i \in 1..MaxFrames] ==
        IF i = 1 THEN t.fp
        ELSE IF Frame(m, entry[i - 1]) THEN m[entry[i - 1]].previous ELSE Nil
      whole == {i \in 1..MaxFrames : Frame(m, entry[i])}
      chain == [i \in 1..Cardinality(whole) |-> m[entry[i]].return]
      stack == (IF t.lr = Nil THEN <<t.pc>> ELSE <<t.pc, t.lr>>) \o chain IN
  IF t.pc = Nil THEN <<>> ELSE SubSeq(stack, 1, Min({MaxFrames, Len(stack)}))

\* A trace taken when an exception was thrown ends at the first entry that is no address.
Captured(trace) ==
  SubSeq(trace, 1, Min({Len(trace)} \cup {i - 1 : i \in {j \in DOMAIN trace : trace[j] <= 1}}))

Frames(m, t) == IF t.trace = <<>> THEN Walked(m, t) ELSE Captured(t.trace)

-----------------------------------------------------------------------------
\* The damage the code does not look out for.
Unguarded(m) ==
  \E a \in DOMAIN m :
    \/ m[a].ivar # <<>> /\ m[a].ivar[1].state = "lost"
    \/ \E i \in DOMAIN m[a].ivar : m[a].ivar[i].size = "over"
    \/ m[a].name # Nil /\ ~Readable(m, m[a].name)
    \/ m[a].style = "no number"
    \/ m[a].style \in {"length byte", "wide", "deque"} /\ ~Readable(m, m[a].store)

\* A memory without the three things that reach the report unchecked and that JSON has no
\* place for: a class's first variable that has no name or an unprintable one, a variable
\* that overruns what it is copied to, and an infinite number.
Regular(m) ==
  \A a \in DOMAIN m :
    /\ m[a].ivar # <<>> => m[a].ivar[1].name \notin {Null, Control}
    /\ \A i \in DOMAIN m[a].ivar : m[a].ivar[i].size = "fits"
    /\ m[a].style # "infinite" /\ \A i \in DOMAIN m[a].values : m[a].values[i] # Infinity
=============================================================================
