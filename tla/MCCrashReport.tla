---------------------------- MODULE MCCrashReport ----------------------------
(* CrashReport on a plain process and on its variations.                       *)
EXTENDS CrashReport

MCDepth      == 6
MCMaxIvars   == 3
MCGarbage    == {Nil, 1, 98}
MCMaxSupers  == 3
MCMaxFrames  == 3
MCWindow     == 8
MCMaxDepth   == 16
MCMaxRead    == 300
MCMaxMessage == 2
MCTestBuffer == 4

\* Memory, undamaged: a class and what hangs on it.  The first object of the class is at
\* address - 9, and looks like a class itself.
Blank == [isa |-> Nil, super |-> Nil, data |-> Nil, ext |-> Nil, ro |-> Nil, root |-> FALSE, meta |-> FALSE,
          name |-> Nil, ivars |-> Nil, ivar |-> <<>>, text |-> "no name", string |-> FALSE, values |-> <<>>,
          count |-> 0, store |-> Nil, style |-> "inline", previous |-> Nil, return |-> Nil]
Class(base, name, list) ==
  [a \in base..base + 15 |->
    CASE a = base      -> [Blank EXCEPT !.isa = base + 5, !.super = base + 8, !.data = base + 1]
      [] a = base + 1  -> [Blank EXCEPT !.ro = base + 2]
      [] a = base + 2  -> [Blank EXCEPT !.name = base + 3, !.ivars = base + 4]
      [] a = base + 3  -> [Blank EXCEPT !.text = name]
      [] a = base + 4  -> [Blank EXCEPT !.ivar = list]
      [] a = base + 5  -> [Blank EXCEPT !.isa = base + 5, !.super = base + 8, !.data = base + 6]
      [] a = base + 6  -> [Blank EXCEPT !.ro = base + 7]
      [] a = base + 7  -> [Blank EXCEPT !.meta = TRUE, !.name = base + 3]
      [] a = base + 8  -> [Blank EXCEPT !.super = base + 13, !.data = base + 9]
      [] a = base + 9  -> [Blank EXCEPT !.ext = base + 10]
      [] a = base + 10 -> [Blank EXCEPT !.ro = base + 11]
      [] a = base + 11 -> [Blank EXCEPT !.name = base + 12]
      [] a = base + 12 -> [Blank EXCEPT !.text = "Middle"]
      [] a = base + 13 -> [Blank EXCEPT !.data = base + 14]
      [] a = base + 14 -> [Blank EXCEPT !.ro = base + 15]
      [] a = base + 15 -> [Blank EXCEPT !.root = TRUE]]
An(class, values) == [Blank EXCEPT !.isa = class, !.data = class + 1, !.values = values, !.count = Len(values)]
Lose(heap, lost)  == [a \in DOMAIN heap \ lost |-> heap[a]]

Of(type) == [type |-> type, name |-> "ivar", state |-> "whole", size |-> "fits"]
P == Of("pointer")
N == Of("number")
X == Of("other")
Lost(variable)        == [variable EXCEPT !.state = "lost"]
Over(variable)        == [variable EXCEPT !.size = "over"]
Called(variable, name) == [variable EXCEPT !.name = name]

Thing(values, list) == (1 :> An(10, values)) @@ (2 :> An(10, <<>>)) @@ Class(10, "Thing", list)
\* Cycles, a wide object, an array in front of one, and the plain kinds.
Whole == {Thing(<<1, 1, 1>>, <<P, P, P>>),
          (1 :> An(30, <<2>>)) @@ (2 :> An(10, <<2, 1, 2>>)) @@ Class(10, "Thing", <<P, P, P, P>>)
            @@ Class(30, "__NSArrayI", <<>>),
          Thing(<<Tags + 4, 0, Tags + 2>>, <<P, N, P>>),
          (1 :> An(10, <<2>>)) @@ (2 :> [Blank EXCEPT !.string = TRUE]) @@ Class(10, "__NSArray0", <<>>),
          (1 :> An(10, <<>>)) @@ Class(10, "NSURL", <<>>),
          [Thing(<<>>, <<>>) EXCEPT ![22].text = "NSBlock"],
          (1 :> An(10, <<1>>)) @@ (2 :> [An(10, <<>>) EXCEPT !.count = 1, !.style = "deque", !.store = 3])
            @@ (3 :> [Blank EXCEPT !.values = <<1>>]) @@ Class(10, "__NSCFArray", <<X>>),
          (1 :> An(10, <<2>>)) @@ (2 :> An(30, <<>>)) @@ Class(10, "__NSArrayM", <<>>) @@ Class(30, "NSDate", <<>>)}
\* What is lost where the code looks: an object, its class's data and second variable, a
\* superclass, a text copied with care; and where it does not.  Names and numbers that JSON
\* has no place for.
Damaged == {Lose(Thing(<<2>>, <<P, N>>), {a}) : a \in {1, 12, 14, 20, 22}}
           \cup {[Thing(<<>>, <<>>) EXCEPT ![21].name = Nil]}
           \cup {Thing(<<2>>, list) : list \in {<<N, Lost(P)>>, <<N, Called(P, Null)>>, <<N, Called(X, Control)>>,
                                                <<Lost(P), N>>, <<N, Over(N)>>, <<Over(P)>>, <<Over(X), N>>}}
           \cup {Thing(<<2, 1>>, <<Called(v, name), Called(P, Long)>>) :
                    v \in {P, N}, name \in {Null, Control, Long, Huge}}
           \cup {(1 :> [An(10, <<>>) EXCEPT !.style = style]) @@ (2 :> Blank) @@ Class(10, name, <<>>) :
                    name \in {"NSNumber", "__NSDate"}, style \in {"inline", "infinite", "no number"}}
           \cup {Thing(<<2, Infinity>>, <<P, N>>)}
           \cup {(1 :> [An(10, <<>>) EXCEPT !.store = 3, !.style = style]) @@ (2 :> Blank)
                   @@ Class(10, "__NSCFString", <<>>) : style \in {"plain", "wide"}}
           \cup {(1 :> [An(10, <<>>) EXCEPT !.count = 1, !.store = 3, !.style = "deque"]) @@ (2 :> Blank)
                   @@ Class(10, "NSCFArray", <<>>)}

Main(notable) == [crashed |-> TRUE, named |-> TRUE, state |-> TRUE, notable |-> notable,
                  pc |-> 51, lr |-> Nil, fp |-> Nil, trace |-> <<>>]
Other         == [crashed |-> FALSE, named |-> FALSE, state |-> TRUE, notable |-> <<>>,
                  pc |-> Nil, lr |-> Nil, fp |-> Nil, trace |-> <<>>]

\* Images: one with symbols, one that is stripped, one without the tables; and messages.
Symbols(stripped) == <<[value |-> 0, named |-> TRUE], [value |-> 4, named |-> ~stripped], [value |-> 1, named |-> TRUE]>>
Message(readable, end) == [readable |-> readable, end |-> end]
Image(header, linkedit) ==
  [header |-> header, slide |-> header, segments |-> {[from |-> 0, to |-> 9]}, linkedit |-> linkedit,
   symbols |-> Symbols(header = 60),
   info |-> [whole |-> linkedit, version |-> header \div 10,
             messages |-> IF header = 50 THEN <<Message(4, 4), Message(2, 3)>> ELSE <<NoMessage, Message(3, 2)>>]]
Dyld == [header |-> 90, vmaddr |-> 0, size |-> 5, symbols |-> Symbols(FALSE)]

Plain == [images |-> <<Image(50, TRUE)>>, dyld |-> Dyld, zombie |-> "none", error |-> "mach", reason |-> Null,
          threads |-> <<Main(<<>>)>>, heap |-> 1 :> Blank,
          scope |-> <<>>, crumbs |-> <<>>, user |-> <<>>, log |-> FALSE]

Good    == <<"{", "timestamp", ":", Number, ",", "a", ":", "[", Literal, "]", "}">>
Shallow == <<"{", "a", ":", Control, "}">>
Deep    == <<"{", "a", ":", "[", "{", "b", ":", Huge, "}", "]", "}">>
Broken  == <<"{", "a", ":", "[", "text">>
Nested  == <<"{", "a", ":">> \o [i \in 1..MCMaxDepth |-> "["] \o [i \in 1..MCMaxDepth |-> "]"] \o <<"}">>
Wide    == <<"{", "a", ":", Long, ",", "b", ":", "{", "}", "}">>
Texts   == {Good, Shallow, Deep, Broken, Nested, Wide}

MCProcesses ==
  {Plain}
  \cup {[Plain EXCEPT !.images = <<>>, !.heap = h, !.threads = <<Main(<<1>>)>>] : h \in Whole \cup Damaged}
  \cup {[Plain EXCEPT !.heap = Thing(<<>>, <<>>), !.threads = <<Main(<<0, 10, 2, Tags + 3, Tags + 5>>), Other>>],
        [Plain EXCEPT !.zombie = "refers", !.heap = Thing(<<1, 2, 1>>, <<P, P, P>>)]}
  \cup {[Plain EXCEPT !.error = e, !.reason = "text", !.images = <<>>, !.log = TRUE] : e \in Kinds \ {"mach"}}
  \cup {[Plain EXCEPT !.zombie = "plain", !.reason = r] : r \in {Long, Huge, Control}}
  \cup {[Plain EXCEPT !.images = <<>>, !.scope = <<[name |-> "user", text |-> t], [name |-> "tags", text |-> Good]>>] :
          t \in Texts \ {Deep}}
  \cup {[Plain EXCEPT !.images = <<>>, !.user = x[1], !.crumbs = <<x[2], x[1]>>] :
          x \in {<<Good, Wide>>, <<Wide, Broken>>, <<Deep, Shallow>>}}
  \cup {[Plain EXCEPT !.images = <<Image(40, TRUE), Image(50, FALSE), Image(60, TRUE)>>,
                      !.heap = (1 :> [Blank EXCEPT !.previous = 1, !.return = 65]),
                      !.threads = <<[Main(<<>>) EXCEPT !.trace = <<46, 93, 1, 47>>],
                                    [Other EXCEPT !.pc = 51, !.lr = 55, !.fp = 1]>>]}
  \cup {[Plain EXCEPT !.threads = <<Main(<<>>)>> \o [i \in 1..6 |-> Other]]}
MCOneProcess == {[Plain EXCEPT !.images = [i \in 1..3 |-> Image(50, TRUE)]]}

\* A memory's readable beginning is found to the byte, except that a message may be longer
\* than what was asked for; and in dyld every address has the symbol that begins last.
ASSUME \A readable, count \in 0..20 : CopyMaxPossible(readable, count) = Min({readable, count})
ASSUME \A readable, try \in 0..20 :
         MaxReadableBytes(readable, try) >= Min({readable, try})
ASSUME \E readable, try \in 0..20 : MaxReadableBytes(readable, try) > try
ASSUME \A a \in 91..95 : Symbolicate(<<>>, Dyld, a) = [ok |-> TRUE, symbol |-> [value |-> 4, named |-> TRUE]]
=============================================================================
