--------------------------- MODULE CrashCachesProofs ---------------------------
(* Proofs about CrashCaches for every set of threads and addresses, every ring *)
(* of breadcrumbs and every number of updates: what the crash handler finds of *)
(* the threads' names, of the images and of the breadcrumbs.                   *)
EXTENDS CrashCaches, FiniteSetTheorems, TLAPS

\* Collected arrays: a number, and the threads by index, none of them twice.
Once(s) == \A i, j \in DOMAIN s : s[i] = s[j] => i = j
Array(r) == /\ r.id \in Nat /\ r.of \in Seq(Threads) /\ Once(r.of)
            /\ r = None \/ r.id > 0

Due(what) == \E i \in DOMAIN stores : stores[i] = what

Typed == /\ Array(mach) /\ Array(names) /\ Array(fresh)
         /\ count \in Nat /\ ordered \in BOOLEAN
         /\ stores \in Seq({"min", "mach", "names", "count"})

\* What is not due any more has been stored.
Stored == /\ ~Due("mach") => mach = fresh
          /\ ~Due("names") => names = fresh
          /\ ~Due("count") => count = Len(fresh.of)

\* In the order of the source the count is within all arrays from its first store on.
StoresLeft == {SourceOrder, <<"mach", "names", "count">>, <<"names", "count">>, <<"count">>, <<>>}
Within == ordered => /\ stores \in StoresLeft
                     /\ count <= Len(mach.of) /\ count <= Len(names.of)
                     /\ ~Due("min") => count <= Len(fresh.of)

\* The arrays that the globals point to are not freed.
Kept == {mach.id, names.id, fresh.id} \ {0} \subseteq live

Given == Typed /\ Stored /\ Within /\ Kept

LEMMA InitGiven == Init => Given
  BY DEF Init, Given, Typed, Stored, Within, Kept, Array, Once, None, Due, StoresLeft, SourceOrder

LEMMA ListsOnce == ASSUME NEW s \in Lists PROVE s \in Seq(Threads) /\ Once(s)
  BY DEF Lists, SeqOf, IsInjective, Once

LEMMA IsASeq == \A S, n, f : n \in Nat /\ f \in [1..n -> S] => f \in Seq(S)
  OBVIOUS

LEMMA OrdersComplete ==
  ASSUME NEW o \in Orders
  PROVE  /\ o \in Seq({"min", "mach", "names", "count"})
         /\ \A w \in Globals : \E i \in DOMAIN o : o[i] = w
         /\ o = SourceOrder => \E i \in DOMAIN o : o[i] = "min"
<1>1. CASE o = SourceOrder
  <2>1. Len(o) = 4 /\ o[1] = "min" /\ o[2] = "mach" /\ o[3] = "names" /\ o[4] = "count"
    BY <1>1 DEF SourceOrder
  <2> QED
    BY <1>1, <2>1 DEF SourceOrder, Globals
<1>2. CASE o \in [1..3 -> Globals] /\ Range(o) = Globals
  <2>1. o \in Seq(Globals) /\ Len(o) = 3
    <3>1. 3 \in Nat /\ DOMAIN o = 1..3
      BY <1>2
    <3>2. o \in Seq(Globals)
      <4> DEFINE n == 3
      <4>1. n \in Nat /\ o \in [1..n -> Globals]
        BY <1>2
      <4> HIDE DEF n
      <4> QED
        BY <4>1, IsASeq
    <3> QED
      BY <3>1, <3>2
  <2>2. \A w \in Globals : \E i \in DOMAIN o : o[i] = w
    BY <1>2 DEF Range
  <2>3. o # SourceOrder
    BY <2>1 DEF SourceOrder
  <2> QED
    BY <2>1, <2>2, <2>3 DEF Globals
<1> QED
  BY <1>1, <1>2 DEF Orders

LEMMA CollectKeeps == ASSUME Given, Collect PROVE Given'
<1> PICK s \in Lists, o \in Orders : /\ fresh' = [id |-> mach.id + 1, of |-> s]
                                     /\ stores' = o /\ ordered' = (o = SourceOrder)
  BY DEF Collect
<1>1. Typed'
  <2>1. Array(fresh')
    BY ListsOnce DEF Given, Typed, Array
  <2> QED
    BY <2>1, OrdersComplete DEF Given, Typed, Collect, Array
<1>2. Stored'
  BY OrdersComplete DEF Stored, Due, Globals
<1>3. ~Due("mach") /\ ~Due("names") /\ ~Due("count")
  BY DEF Collect, Due
<1>4. mach = fresh /\ names = fresh /\ count = Len(fresh.of)
  BY <1>3 DEF Given, Stored
<1>5. Within'
  <2> SUFFICES ASSUME ordered' PROVE Within'
    BY DEF Within
  <2>1. stores' = SourceOrder /\ Due("min")'
    BY OrdersComplete DEF Due
  <2>2. count' = count /\ mach' = mach /\ names' = names
    BY DEF Collect
  <2>3. count <= Len(mach.of) /\ count <= Len(names.of)
    BY <1>4 DEF Given, Typed, Array
  <2> QED
    BY <2>1, <2>2, <2>3 DEF Within, StoresLeft
<1>6. Kept'
  BY <1>4 DEF Given, Kept, Collect
<1> QED
  BY <1>1, <1>2, <1>5, <1>6 DEF Given

LEMMA PublishKeeps == ASSUME Given, Publish PROVE Given'
<1> DEFINE what == Head(stores)
<1>1. /\ stores # <<>> /\ stores' = Tail(stores) /\ UNCHANGED <<fresh, ordered, live>>
      /\ mach' = IF what = "mach" THEN fresh ELSE mach
      /\ names' = IF what = "names" THEN fresh ELSE names
      /\ count' = CASE what = "min" -> IF count < Len(fresh.of) THEN count ELSE Len(fresh.of)
                    [] what = "count" -> Len(fresh.of)
                    [] OTHER -> count
  BY DEF Publish, Store
<1>2. Len(fresh.of) \in Nat /\ stores' \in Seq({"min", "mach", "names", "count"})
  BY <1>1 DEF Given, Typed, Array
<1>3. \A w : Due(w) => Due(w)' \/ w = what
  <2> SUFFICES ASSUME NEW w, Due(w), w # what PROVE Due(w)'
    OBVIOUS
  <2>1. stores \in Seq({"min", "mach", "names", "count"})
    BY DEF Given, Typed
  <2>2. PICK i \in 1..Len(stores) : stores[i] = w
    BY <2>1 DEF Due
  <2>3. i # 1
    BY <1>1, <2>1, <2>2
  <2>4. i - 1 \in DOMAIN Tail(stores) /\ Tail(stores)[i - 1] = w
    BY <1>1, <2>1, <2>2, <2>3
  <2> QED
    BY <1>1, <2>4 DEF Due
<1>4. Typed'
  BY <1>1, <1>2 DEF Given, Typed, Array
<1>5. Stored'
  BY <1>1, <1>3 DEF Given, Stored
<1>6. Within'
  <2> SUFFICES ASSUME ordered PROVE Within'
    BY <1>1 DEF Within
  <2>1. stores \in StoresLeft /\ count <= Len(mach.of) /\ count <= Len(names.of)
    BY DEF Given, Within
  <2>2. Len(mach.of) \in Nat /\ Len(names.of) \in Nat /\ count \in Nat
    BY DEF Given, Typed, Array
  <2>3. CASE stores = SourceOrder
    <3>1. what = "min" /\ stores' = <<"mach", "names", "count">>
      BY <1>1, <2>3 DEF SourceOrder
    <3>2. stores' \in StoresLeft
      BY <3>1 DEF StoresLeft
    <3>3. /\ mach' = mach /\ names' = names /\ fresh' = fresh
          /\ count' = IF count < Len(fresh.of) THEN count ELSE Len(fresh.of)
      BY <1>1, <3>1
    <3>4. count' <= count /\ count' <= Len(fresh.of) /\ count' \in Nat
      BY <1>2, <2>2, <3>3
    <3> QED
      BY <2>1, <2>2, <3>2, <3>3, <3>4, <1>2 DEF Within
  <2>4. CASE stores # SourceOrder
    <3>1. ~Due("min")
      BY <2>1, <2>4 DEF StoresLeft, Due
    <3>2. count <= Len(fresh.of)
      BY <3>1 DEF Given, Within
    <3>3. what # "min" /\ stores' \in StoresLeft
      <4>1. CASE stores = <<"mach", "names", "count">>
        BY <1>1, <4>1 DEF StoresLeft
      <4>2. CASE stores = <<"names", "count">>
        BY <1>1, <4>2 DEF StoresLeft
      <4>3. CASE stores = <<"count">>
        BY <1>1, <4>3 DEF StoresLeft
      <4> QED
        BY <1>1, <2>1, <2>4, <4>1, <4>2, <4>3 DEF StoresLeft
    <3>4. CASE what = "count"
      <4>1. stores = <<"count">>
        BY <2>1, <2>4, <1>1, <3>4 DEF StoresLeft
      <4>2. ~Due("mach") /\ ~Due("names")
        BY <4>1 DEF Due
      <4>3. mach = fresh /\ names = fresh
        BY <4>2 DEF Given, Stored
      <4> QED
        BY <1>1, <1>2, <3>3, <3>4, <4>3 DEF Within
    <3>5. CASE what # "count"
      BY <1>1, <1>2, <2>1, <2>2, <3>2, <3>3, <3>5 DEF Within
    <3> QED
      BY <3>4, <3>5
  <2> QED
    BY <2>3, <2>4
<1>7. Kept'
  BY <1>1 DEF Given, Kept
<1> QED
  BY <1>4, <1>5, <1>6, <1>7 DEF Given

LEMMA FreeOldKeeps == ASSUME Given, FreeOld PROVE Given'
<1>1. stores = <<>> /\ live' = {fresh.id} /\ UNCHANGED <<mach, names, count, fresh, stores, ordered>>
  BY DEF FreeOld
<1>2. mach = fresh /\ names = fresh
  BY <1>1 DEF Given, Stored, Due
<1> QED
  BY <1>1, <1>2 DEF Given, Typed, Stored, Within, Kept, Due, Array

LEMMA OthersKeep == ASSUME Given, UNCHANGED threads PROVE Given'
  BY DEF Given, Typed, Stored, Within, Kept, Due, Array, threads

LEMMA NextGiven == Given /\ [Next]_vars => Given'
<1> SUFFICES ASSUME Given, [Next]_vars PROVE Given'
  OBVIOUS
<1>1. CASE Collect
  BY <1>1, CollectKeeps
<1>2. CASE Publish
  BY <1>2, PublishKeeps
<1>3. CASE FreeOld
  BY <1>3, FreeOldKeeps
<1>4. ASSUME NEW a \in Addresses,
             \/ LoadImage(a) \/ CheckImage(a) \/ AppendImage(a) \/ ReportImage(a) \/ UnloadImage(a)
      PROVE  Given'
  BY <1>4, OthersKeep DEF LoadImage, CheckImage, AppendImage, ReportImage, UnloadImage
<1>5. CASE StartCache \/ Register
  BY <1>5, OthersKeep DEF StartCache, Register
<1>6. CASE Configure \/ AddBreadcrumb \/ StoreCrumb \/ Advance \/ ClearBreadcrumbs \/ ClearSlot
  BY <1>6, OthersKeep DEF Configure, AddBreadcrumb, StoreCrumb, Advance, ClearBreadcrumbs, ClearSlot
<1>7. CASE UNCHANGED vars
  BY <1>7, OthersKeep DEF vars
<1> QED
  BY <1>1, <1>2, <1>3, <1>4, <1>5, <1>6, <1>7 DEF Next

\* With no store due both arrays are the fresh ones, and a thread's index finds its name.
LEMMA NameFound ==
  ASSUME Given, NEW t \in Threads, ThreadName(t) \notin {"none", t} PROVE stores # <<>>
<1> SUFFICES ASSUME stores = <<>> PROVE FALSE
  OBVIOUS
<1>1. mach = fresh /\ names = fresh
  BY DEF Given, Stored, Due
<1>2. Index(t) # {} /\ ThreadName(t) = LET i == CHOOSE k \in Index(t) : TRUE
                                       IN IF i <= Len(names.of) THEN names.of[i] ELSE "beyond"
  BY DEF ThreadName
<1> DEFINE n == CHOOSE k \in Index(t) : TRUE
<1>3. n \in Index(t)
  BY <1>2
<1>4. n <= Len(mach.of) /\ mach.of[n] = t
  BY <1>3 DEF Index
<1>5. ThreadName(t) = t
  BY <1>1, <1>2, <1>4
<1> QED
  BY <1>5

\* Wherever the update is interrupted, the handler reads no freed array, reads within
\* both when the stores are in order, and mixes threads up only during an update.
THEOREM NamesAlwaysSafe == Spec => []NamesSafe
<1>1. Given => NamesSafe
  <2> SUFFICES ASSUME Given PROVE NamesSafe
    OBVIOUS
  <2>1. {mach.id, names.id} \ {0} \subseteq live
    BY DEF Given, Kept
  <2>2. ordered => count <= Len(mach.of) /\ count <= Len(names.of)
    BY DEF Given, Within
  <2> QED
    BY <2>1, <2>2, NameFound DEF NamesSafe
<1> QED
  BY <1>1, InitGiven, NextGiven, PTL DEF Spec
-----------------------------------------------------------------------------
\* The types. An update's number is that of an operation, which bounds what is collected.
Numbered == /\ ops \in 0..MaxOps /\ mach.id <= ops /\ fresh.id <= ops
            /\ mach \in Arrays /\ names \in Arrays /\ fresh \in Arrays
            /\ count \in 0..Cardinality(Threads) /\ live \subseteq 1..MaxOps

LEMMA ThreadsCounted == Cardinality(Threads) \in Nat
  BY FS_CardinalityType, CachesAssumption DEF CachesAssumption

LEMMA ListsBounded == ASSUME NEW s \in Lists PROVE Len(s) \in 0..Cardinality(Threads)
<1>1. PICK n \in 0..Cardinality(Threads) : s \in [1..n -> Threads]
  BY DEF Lists, SeqOf
<1>2. n \in Nat
  BY <1>1, ThreadsCounted
<1>3. s \in Seq(Threads) /\ DOMAIN s = 1..n
  BY <1>1, <1>2, IsASeq
<1> QED
  BY <1>1, <1>2, <1>3

LEMMA InitNumbered == Init => Numbered
<1> SUFFICES ASSUME Init PROVE Numbered
  OBVIOUS
<1>1. None \in Arrays /\ None.id = 0
  BY CachesAssumption DEF None, Arrays, CachesAssumption
<1> QED
  BY <1>1, ThreadsCounted, CachesAssumption DEF Init, Numbered, CachesAssumption

LEMMA LengthsBounded == ASSUME NEW r \in Arrays PROVE Len(r.of) \in 0..Cardinality(Threads)
<1>1. CASE r.of \in Lists
  BY <1>1, ListsBounded
<1>2. CASE r.of = <<>>
  BY <1>2, ThreadsCounted
<1> QED
  BY <1>1, <1>2 DEF Arrays

LEMMA CollectNumbered == ASSUME Given, Numbered, Collect PROVE Numbered'
<1> PICK s \in Lists : fresh' = [id |-> mach.id + 1, of |-> s]
  BY DEF Collect
<1>1. /\ stores = <<>> /\ ops < MaxOps /\ ops' = ops + 1 /\ live' = live \cup {fresh'.id}
      /\ UNCHANGED <<mach, names, count>>
  BY DEF Collect, Count
<1>2. mach.id \in Nat /\ ops \in Nat /\ MaxOps \in Nat
  BY CachesAssumption DEF Given, Typed, Array, CachesAssumption, Numbered
<1>3. mach.id + 1 \in 1..MaxOps /\ mach.id + 1 <= ops' /\ mach.id <= ops' /\ ops' \in 0..MaxOps
  BY <1>1, <1>2 DEF Numbered
<1>4. fresh' \in Arrays
  BY <1>3 DEF Arrays
<1> QED
  BY <1>1, <1>3, <1>4 DEF Numbered

LEMMA NextNumbered == Given /\ Numbered /\ [Next]_vars => Numbered'
<1> SUFFICES ASSUME Given, Numbered, [Next]_vars PROVE Numbered'
  OBVIOUS
<1>1. CASE Collect
  BY <1>1, CollectNumbered
<1>2. CASE Publish
  <2>1. Len(fresh.of) \in 0..Cardinality(Threads) /\ count \in 0..Cardinality(Threads)
    BY LengthsBounded DEF Numbered
  <2>2. /\ UNCHANGED <<fresh, live, ops>>
        /\ mach' \in {mach, fresh} /\ names' \in {names, fresh} /\ count' \in {count, Len(fresh.of)}
    BY <1>2 DEF Publish, Store
  <2> QED
    BY <2>1, <2>2 DEF Numbered
<1>3. CASE FreeOld
  <2>1. stores = <<>> /\ live' = {fresh.id} /\ UNCHANGED <<mach, names, count, fresh, ops>>
    BY <1>3 DEF FreeOld
  <2>2. fresh.id \in 1..MaxOps
    <3>1. fresh # None /\ Array(fresh)
      BY <1>3 DEF FreeOld, Given, Typed
    <3> QED
      BY <3>1, CachesAssumption DEF Array, Numbered, CachesAssumption
  <2> QED
    BY <2>1, <2>2 DEF Numbered
<1>4. CASE UNCHANGED threads /\ ops' \in {ops, ops + 1} /\ ops' <= MaxOps
  <2>1. UNCHANGED <<mach, names, count, fresh, live>> /\ ops' \in 0..MaxOps /\ ops <= ops'
    BY <1>4, CachesAssumption DEF threads, Numbered, CachesAssumption
  <2>2. mach.id \in Nat /\ fresh.id \in Nat
    BY DEF Given, Typed, Array
  <2> QED
    BY <2>1, <2>2, CachesAssumption DEF Numbered, CachesAssumption
<1>5. ASSUME NEW a \in Addresses,
             \/ LoadImage(a) \/ CheckImage(a) \/ AppendImage(a) \/ ReportImage(a) \/ UnloadImage(a)
      PROVE  UNCHANGED threads /\ ops' \in {ops, ops + 1} /\ ops' <= MaxOps
  BY <1>5, CachesAssumption DEF LoadImage, CheckImage, AppendImage, ReportImage, UnloadImage, Count, Numbered, CachesAssumption
<1>6. CASE StartCache \/ Register
  BY <1>4, <1>6 DEF StartCache, Register, Numbered
<1>7. CASE Configure \/ AddBreadcrumb \/ StoreCrumb \/ Advance \/ ClearBreadcrumbs \/ ClearSlot
  BY <1>4, <1>7, CachesAssumption DEF Configure, AddBreadcrumb, StoreCrumb, Advance, ClearBreadcrumbs, ClearSlot, Count, Numbered, CachesAssumption
<1>8. CASE UNCHANGED vars
  BY <1>4, <1>8 DEF vars, Numbered
<1> QED
  BY <1>1, <1>2, <1>3, <1>4, <1>5, <1>6, <1>7, <1>8 DEF Next

-----------------------------------------------------------------------------
\* The image cache. The last node at an address being added is its adder's.
LastNode(a, i) == /\ i \in DOMAIN list /\ list[i].at = a
                  /\ \A j \in DOMAIN list : list[j].at = a => j <= i

ImageTypes ==
  /\ list \in Seq([at : Addresses, available : BOOLEAN])
  /\ started \in BOOLEAN /\ callback \in BOOLEAN /\ loaded \subseteq Addresses
  /\ adder \in [Addresses -> {"idle", "check", "append", "report"}]
  /\ \A a \in Addresses : adder[a] # "idle" => a \in loaded
  /\ registrar \in {"off", "ready", "iterate", "done"} /\ reported \subseteq DOMAIN list

\* A caller that is to report has its node, and only a registrar at its work sets the callback.
AdderHasNode == \A a \in Addresses : adder[a] = "report" => \E i : LastNode(a, i)
CallbackSet == registrar \in {"iterate", "done"} => callback

Told == registrar = "done" =>
          \A i \in Available : i \in reported \/ (adder[list[i].at] = "report" /\ LastNode(list[i].at, i))
Loaded == \A i \in DOMAIN list : list[i].available =>
            list[i].at \in loaded \/ \E j \in DOMAIN list : j # i /\ list[j].at = list[i].at

ImageGiven == ImageTypes /\ AdderHasNode /\ CallbackSet /\ Told /\ Loaded

LEMMA SeqElements == \A S : \A q \in Seq(S) : /\ DOMAIN q = 1..Len(q) /\ Len(q) \in Nat
                                            /\ \A i \in 1..Len(q) : q[i] \in S
  OBVIOUS

LEMMA NodesTyped ==
  ASSUME ImageTypes
  PROVE  /\ DOMAIN list = 1..Len(list) /\ Len(list) \in Nat
         /\ \A i \in DOMAIN list : /\ list[i] \in [at : Addresses, available : BOOLEAN]
                                 /\ list[i].at \in Addresses
<1> DEFINE Nodes == [at : Addresses, available : BOOLEAN]
<1>1. list \in Seq(Nodes) /\ \A e \in Nodes : e.at \in Addresses
  BY DEF ImageTypes
<1> HIDE DEF Nodes
<1>2. /\ DOMAIN list = 1..Len(list) /\ Len(list) \in Nat
      /\ \A i \in 1..Len(list) : list[i] \in Nodes
  BY <1>1, SeqElements
<1> QED
  BY <1>1, <1>2 DEF Nodes

LEMMA InitImages == Init => ImageGiven
<1> SUFFICES ASSUME Init PROVE ImageGiven
  OBVIOUS
<1>1. list = <<>> /\ DOMAIN list = {}
  BY DEF Init
<1>2. ImageTypes
  <2>1. list \in Seq([at : Addresses, available : BOOLEAN])
    BY <1>1
  <2> QED
    BY <2>1 DEF Init, ImageTypes
<1>4. AdderHasNode /\ CallbackSet /\ Told
  BY DEF Init, AdderHasNode, CallbackSet, Told
<1>3. Loaded
  BY <1>1 DEF Loaded
<1> QED
  BY <1>2, <1>3, <1>4 DEF ImageGiven

LEMMA LastAtIs == ASSUME ImageTypes, NEW a, NEW i, LastNode(a, i) PROVE LastAt(a) = i
<1> DEFINE P(k) == k \in DOMAIN list /\ list[k].at = a /\ \A j \in DOMAIN list : list[j].at = a => j <= k
<1>1. P(i)
  BY DEF LastNode
<1>2. \A k : P(k) => k = i
  <2> SUFFICES ASSUME NEW k, P(k) PROVE k = i
    OBVIOUS
  <2>1. k <= i /\ i <= k /\ k \in Int /\ i \in Int
    BY <1>1 DEF ImageTypes
  <2> QED
    BY <2>1
<1>3. LastAt(a) = CHOOSE k : P(k)
  BY DEF LastAt
<1> QED
  BY <1>1, <1>2, <1>3

LEMMA AppendKeeps == ASSUME ImageGiven, NEW a \in Addresses, AppendImage(a) PROVE ImageGiven'
<1> PICK n : n = Len(list) + 1
  OBVIOUS
<1> DEFINE node == [at |-> a, available |-> TRUE]
<1>1. /\ adder[a] = "append" /\ list' = Append(list, node) /\ adder' = [adder EXCEPT ![a] = "report"]
      /\ UNCHANGED <<started, loaded, callback, registrar, reported>>
  BY DEF AppendImage
<1>2. /\ list \in Seq([at : Addresses, available : BOOLEAN]) /\ a \in loaded
      /\ adder \in [Addresses -> {"idle", "check", "append", "report"}]
  BY <1>1 DEF ImageGiven, ImageTypes
<1>3. /\ DOMAIN list = 1..Len(list) /\ Len(list) \in Nat /\ DOMAIN list' = 1..n /\ list'[n] = node
      /\ \A i \in DOMAIN list : list'[i] = list[i] /\ i # n
      /\ node \in [at : Addresses, available : BOOLEAN] /\ node.at = a /\ n \in Nat
  BY <1>1, <1>2
<1>4. \A i \in DOMAIN list' : i <= n /\ (i \in DOMAIN list \/ i = n)
  BY <1>3
<1> HIDE DEF node
<1>5. \A b \in Addresses : \A i : b # a /\ LastNode(b, i) => LastNode(b, i)'
  BY <1>3, <1>4 DEF LastNode
<1>6. LastNode(a, n)'
  BY <1>3, <1>4 DEF LastNode
<1>7. ImageTypes'
  BY <1>1, <1>2, <1>3 DEF ImageGiven, ImageTypes
<1>8. AdderHasNode'
  BY <1>1, <1>2, <1>5, <1>6 DEF ImageGiven, AdderHasNode
<1>9. Told'
  <2> SUFFICES ASSUME registrar' = "done", NEW i \in Available'
               PROVE  (i \in reported \/ (adder[list[i].at] = "report" /\ LastNode(list[i].at, i)))'
    BY DEF Told
  <2>1. CASE i = n
    BY <1>1, <1>2, <1>3, <1>6, <2>1
  <2>2. CASE i \in DOMAIN list
    <3>1. i \in Available /\ list'[i] = list[i] /\ list[i].at \in Addresses
      BY <1>1, <1>3, <2>2, NodesTyped DEF Available, ImageGiven
    <3>2. i \in reported \/ (adder[list[i].at] = "report" /\ LastNode(list[i].at, i))
      BY <1>1, <3>1 DEF ImageGiven, Told
    <3>3. adder[list[i].at] = "report" => list[i].at # a
      BY <1>1
    <3> QED
      BY <1>1, <1>2, <1>5, <3>1, <3>2, <3>3
  <2> QED
    BY <1>4, <2>1, <2>2 DEF Available
<1>10. Loaded'
  BY <1>1, <1>2, <1>3, <1>4 DEF ImageGiven, Loaded
<1> QED
  BY <1>1, <1>7, <1>8, <1>9, <1>10 DEF ImageGiven, CallbackSet

LEMMA UnloadKeeps == ASSUME ImageGiven, NEW a \in Addresses, UnloadImage(a) PROVE ImageGiven'
<1> DEFINE First(i) == list[i].at = a /\ \A j \in 1..(i - 1) : list[j].at # a
<1>1. /\ a \in loaded /\ adder[a] = "idle" /\ loaded' = loaded \ {a}
      /\ list' = [i \in DOMAIN list |-> IF First(i) THEN [list[i] EXCEPT !.available = FALSE] ELSE list[i]]
      /\ UNCHANGED <<started, adder, callback, registrar, reported>>
  BY DEF UnloadImage
<1>2. /\ list \in Seq([at : Addresses, available : BOOLEAN])
      /\ adder \in [Addresses -> {"idle", "check", "append", "report"}]
  BY DEF ImageGiven, ImageTypes
<1>3. /\ DOMAIN list = 1..Len(list) /\ Len(list) \in Nat /\ DOMAIN list' = DOMAIN list
  BY <1>1, <1>2
<1>4. \A i \in DOMAIN list : /\ list'[i] \in [at : Addresses, available : BOOLEAN]
                             /\ list'[i].at = list[i].at
                             /\ list'[i].available => list[i].available /\ ~First(i)
  <2> SUFFICES ASSUME NEW i \in DOMAIN list
               PROVE  /\ list'[i] \in [at : Addresses, available : BOOLEAN]
                      /\ list'[i].at = list[i].at
                      /\ list'[i].available => list[i].available /\ ~First(i)
    OBVIOUS
  <2>1. list[i] \in [at : Addresses, available : BOOLEAN]
    BY NodesTyped DEF ImageGiven
  <2>2. list'[i] = IF First(i) THEN [list[i] EXCEPT !.available = FALSE] ELSE list[i]
    BY <1>1
  <2> HIDE DEF First
  <2> QED
    BY <2>1, <2>2
<1>5. list' \in Seq([at : Addresses, available : BOOLEAN])
  BY <1>3, <1>4, <1>1
<1>6. \A b, i : LastNode(b, i) => LastNode(b, i)'
  BY <1>3, <1>4 DEF LastNode
<1>7. ImageTypes'
  BY <1>1, <1>3, <1>5 DEF ImageGiven, ImageTypes
<1>8. AdderHasNode'
  BY <1>1, <1>6 DEF ImageGiven, AdderHasNode
<1>9. Told'
  BY <1>1, <1>3, <1>4, <1>6 DEF ImageGiven, Told, Available
<1>10. Loaded'
  <2> SUFFICES ASSUME NEW i \in DOMAIN list, list'[i].available
               PROVE  list[i].at \in loaded' \/ \E j \in DOMAIN list : j # i /\ list[j].at = list[i].at
    BY <1>3, <1>4 DEF Loaded
  <2>1. CASE list[i].at = a
    BY <1>3, <1>4, <2>1
  <2>2. CASE list[i].at # a
    BY <1>1, <1>4, <2>2 DEF ImageGiven, Loaded
  <2> QED
    BY <2>1, <2>2
<1> QED
  BY <1>1, <1>7, <1>8, <1>9, <1>10 DEF ImageGiven, CallbackSet

LEMMA ReportKeeps == ASSUME ImageGiven, NEW a \in Addresses, ReportImage(a) PROVE ImageGiven'
<1>1. /\ adder[a] = "report" /\ reported' = IF callback THEN reported \cup {LastAt(a)} ELSE reported
      /\ adder' = [adder EXCEPT ![a] = "idle"] /\ UNCHANGED <<list, started, loaded, callback, registrar>>
  BY DEF ReportImage
<1>2. PICK n : LastNode(a, n)
  BY <1>1 DEF ImageGiven, AdderHasNode
<1>3. LastAt(a) = n /\ n \in DOMAIN list
  BY <1>2, LastAtIs DEF ImageGiven, LastNode
<1>4. \A b, i : LastNode(b, i)' <=> LastNode(b, i)
  BY <1>1 DEF LastNode
<1>5. ImageTypes'
  BY <1>1, <1>3 DEF ImageGiven, ImageTypes
<1>6. AdderHasNode'
  BY <1>1, <1>4 DEF ImageGiven, ImageTypes, AdderHasNode
<1>7. Told'
  <2> SUFFICES ASSUME registrar = "done", NEW i \in Available, i \notin reported'
               PROVE  adder'[list[i].at] = "report" /\ LastNode(list[i].at, i)
    BY <1>1, <1>4 DEF Told, Available
  <2>1. callback /\ i # n /\ i \notin reported
    BY <1>1, <1>3 DEF ImageGiven, CallbackSet
  <2>2. adder[list[i].at] = "report" /\ LastNode(list[i].at, i)
    BY <2>1 DEF ImageGiven, Told
  <2>3. list[i].at # a
    BY <1>2, <1>3, <2>1, <2>2, LastAtIs DEF ImageGiven
  <2> QED
    BY <1>1, <2>2, <2>3 DEF ImageGiven, ImageTypes, LastNode
<1> QED
  BY <1>1, <1>5, <1>6, <1>7 DEF ImageGiven, CallbackSet, Loaded

LEMMA NextImages == ImageGiven /\ [Next]_vars => ImageGiven'
<1> SUFFICES ASSUME ImageGiven, [Next]_vars PROVE ImageGiven'
  OBVIOUS
<1> USE DEF ImageGiven, ImageTypes, AdderHasNode, CallbackSet, Told, Loaded, Available, LastNode
<1>1. CASE UNCHANGED images
  BY <1>1 DEF images
<1>2. CASE Collect \/ Publish \/ FreeOld
  BY <1>1, <1>2 DEF Collect, Publish, FreeOld
<1>3. CASE Configure \/ AddBreadcrumb \/ StoreCrumb \/ Advance \/ ClearBreadcrumbs \/ ClearSlot
  BY <1>1, <1>3 DEF Configure, AddBreadcrumb, StoreCrumb, Advance, ClearBreadcrumbs, ClearSlot
<1>4. CASE StartCache
  <2>1. /\ registrar = "off" /\ registrar' = "ready" /\ started' \in BOOLEAN
        /\ adder' = [a \in Addresses |-> IF a \in loaded THEN "check" ELSE "idle"]
        /\ UNCHANGED <<list, loaded, callback, reported>>
    BY <1>4 DEF StartCache
  <2>2. /\ adder' \in [Addresses -> {"idle", "check", "append", "report"}]
        /\ \A a \in Addresses : adder'[a] # "report" /\ (adder'[a] # "idle" => a \in loaded)
    BY <2>1
  <2> QED
    BY <2>1, <2>2
<1>5. CASE Register
  <2>1. UNCHANGED <<list, started, adder, loaded>>
    BY <1>5 DEF Register
  <2>2. CASE registrar' = "iterate" /\ callback' = TRUE /\ UNCHANGED reported
    BY <2>1, <2>2
  <2>3. CASE registrar = "iterate" /\ registrar' = "done" /\ reported' = reported \cup Available /\ UNCHANGED callback
    BY <2>1, <2>3
  <2> QED
    BY <1>5, <2>2, <2>3 DEF Register
<1>6. ASSUME NEW a \in Addresses, LoadImage(a) PROVE ImageGiven'
  <2>1. /\ adder[a] = "idle" /\ loaded' = loaded \cup {a}
        /\ adder' \in {adder, [adder EXCEPT ![a] = "check"]}
        /\ UNCHANGED <<list, started, callback, registrar, reported>>
    BY <1>6 DEF LoadImage
  <2>2. /\ adder' \in [Addresses -> {"idle", "check", "append", "report"}]
        /\ \A b \in Addresses : (adder'[b] = "report" <=> adder[b] = "report")
                               /\ (adder'[b] # "idle" => b \in loaded')
    BY <2>1
  <2>3. \A i \in DOMAIN list : list[i].at \in Addresses
    BY NodesTyped
  <2> QED
    BY <2>1, <2>2, <2>3
<1>7. ASSUME NEW a \in Addresses, CheckImage(a) PROVE ImageGiven'
  <2>1. /\ adder[a] = "check" /\ \E s \in {"append", "idle"} : adder' = [adder EXCEPT ![a] = s]
        /\ UNCHANGED <<list, started, loaded, callback, registrar, reported>>
    BY <1>7 DEF CheckImage
  <2>2. /\ adder' \in [Addresses -> {"idle", "check", "append", "report"}]
        /\ \A b \in Addresses : (adder'[b] = "report" <=> adder[b] = "report")
                               /\ (adder'[b] # "idle" => b \in loaded')
    BY <2>1
  <2>3. \A i \in DOMAIN list : list[i].at \in Addresses
    BY NodesTyped
  <2> QED
    BY <2>1, <2>2, <2>3
<1>8. CASE UNCHANGED vars
  BY <1>1, <1>8 DEF vars
<1> QED
  BY <1>2, <1>3, <1>4, <1>5, <1>6, <1>7, <1>8, AppendKeeps, UnloadKeeps, ReportKeeps DEF Next

-----------------------------------------------------------------------------
\* The breadcrumbs. Slot j is read at place Turn(j); with the ring at rest, place p
\* holds the crumb that is MaxCrumbs - p places before the last, if there is one.
Turn(j) == IF j >= current THEN j - current + 1 ELSE j - current + 1 + MaxCrumbs
Crumb(k) == IF k >= 1 THEN crumbs[k] ELSE 0
Rest(p) == Crumb(Len(crumbs) - MaxCrumbs + p)

CrumbTypes ==
  /\ ring \in [Slots -> 0..MaxOps] /\ current \in Slots /\ slot \in 0..MaxCrumbs
  /\ scope \in {"off", "raw", "idle", "nulled", "stored", "clearing"}
  /\ crumbs \in Seq(1..MaxOps) /\ ops \in 0..MaxOps

\* A crumb is numbered by an operation, so a later one has a larger number.
Rising ==
  /\ \A i, j \in 1..Len(crumbs) : i < j => crumbs[i] < crumbs[j]
  /\ \A i \in 1..Len(crumbs) : crumbs[i] <= ops /\ (scope = "nulled" => crumbs[i] < ops)
  /\ scope = "nulled" => ops > 0
  /\ scope = "stored" => Len(crumbs) > 0

RingAt(j) == CASE scope \in {"off", "raw", "idle"} -> Rest(Turn(j))
               [] scope = "nulled" -> IF j = current THEN 0 ELSE Rest(Turn(j))
               [] scope = "stored" -> IF j = current THEN crumbs[Len(crumbs)] ELSE Rest(Turn(j) - 1)
               [] scope = "clearing" -> IF j < slot THEN 0 ELSE Rest(Turn(j))
RingHolds == \A j \in Slots : ring[j] = RingAt(j)

CrumbGiven == CrumbTypes /\ Rising /\ RingHolds

LEMMA Sizes == MaxCrumbs \in Nat /\ MaxCrumbs > 0 /\ MaxOps \in Nat
  BY CachesAssumption DEF CachesAssumption

LEMMA CrumbsTyped == ASSUME CrumbTypes
                     PROVE  /\ DOMAIN crumbs = 1..Len(crumbs) /\ Len(crumbs) \in Nat
                            /\ \A i \in 1..Len(crumbs) : crumbs[i] \in 1..MaxOps
  BY SeqElements DEF CrumbTypes

LEMMA TurnIs == ASSUME CrumbTypes, NEW j \in Slots
                PROVE  Turn(j) \in 1..MaxCrumbs /\ (Turn(j) = 1 <=> j = current)
  BY Sizes DEF Turn, CrumbTypes, Slots

LEMMA InitCrumbs == Init => CrumbGiven
<1> SUFFICES ASSUME Init PROVE CrumbGiven
  OBVIOUS
<1>1. /\ ring = [i \in Slots |-> 0] /\ current = 0 /\ scope = "off" /\ slot = 0
      /\ crumbs = <<>> /\ ops = 0
  BY DEF Init
<1>2. CrumbTypes
  BY <1>1, Sizes DEF CrumbTypes, Slots
<1>3. Rising
  BY <1>1 DEF Rising
<1>4. RingHolds
  <2> SUFFICES ASSUME NEW j \in Slots PROVE ring[j] = RingAt(j)
    BY DEF RingHolds
  <2>1. Turn(j) \in 1..MaxCrumbs /\ Len(crumbs) = 0
    BY <1>1, <1>2, TurnIs
  <2>2. Rest(Turn(j)) = 0
    BY <2>1, Sizes DEF Rest, Crumb
  <2> QED
    BY <1>1, <2>2 DEF RingAt
<1> QED
  BY <1>2, <1>3, <1>4 DEF CrumbGiven

LEMMA AddKeeps == ASSUME CrumbGiven, AddBreadcrumb PROVE CrumbGiven'
<1>1. /\ scope = "idle" /\ scope' = "nulled" /\ ops < MaxOps /\ ops' = ops + 1
      /\ ring' = [ring EXCEPT ![current] = 0] /\ UNCHANGED <<current, slot, crumbs>>
  BY DEF AddBreadcrumb, Count
<1>2. CrumbTypes'
  BY <1>1, Sizes DEF CrumbGiven, CrumbTypes
<1>3. Rising'
  BY <1>1, CrumbsTyped DEF CrumbGiven, CrumbTypes, Rising
<1>4. RingHolds'
  BY <1>1, TurnIs DEF CrumbGiven, CrumbTypes, RingHolds, RingAt, Rest, Crumb, Turn
<1> QED
  BY <1>2, <1>3, <1>4 DEF CrumbGiven

LEMMA StoreKeeps == ASSUME CrumbGiven, StoreCrumb PROVE CrumbGiven'
<1>1. /\ scope = "nulled" /\ scope' = "stored" /\ crumbs' = Append(crumbs, ops)
      /\ ring' = [ring EXCEPT ![current] = ops] /\ UNCHANGED <<current, slot, ops>>
  BY DEF StoreCrumb
<1>2. ops \in 1..MaxOps /\ crumbs \in Seq(1..MaxOps) /\ Len(crumbs) \in Nat
  BY <1>1, CrumbsTyped DEF CrumbGiven, CrumbTypes, Rising
<1>3. /\ Len(crumbs') = Len(crumbs) + 1 /\ crumbs'[Len(crumbs) + 1] = ops
      /\ \A i \in 1..Len(crumbs) : crumbs'[i] = crumbs[i] /\ crumbs[i] \in 1..MaxOps
      /\ crumbs' \in Seq(1..MaxOps)
  BY <1>1, <1>2, CrumbsTyped DEF CrumbGiven
<1>4. CrumbTypes'
  BY <1>1, <1>2, <1>3 DEF CrumbGiven, CrumbTypes
<1>5. Rising'
  BY <1>1, <1>2, <1>3 DEF CrumbGiven, Rising
<1>6. RingHolds'
  <2> SUFFICES ASSUME NEW j \in Slots PROVE (ring[j] = RingAt(j))'
    BY DEF RingHolds, Slots
  <2>1. CASE j = current
    BY <1>1, <1>2, <1>3, <2>1 DEF CrumbGiven, CrumbTypes, RingAt
  <2>2. CASE j # current
    <3>1. ring'[j] = Rest(Turn(j)) /\ Turn(j) \in 1..MaxCrumbs /\ Turn(j)' = Turn(j)
      BY <1>1, <2>2, TurnIs DEF CrumbGiven, CrumbTypes, RingHolds, RingAt, Turn
    <3>2. PICK k : k = Len(crumbs) - MaxCrumbs + Turn(j)
      OBVIOUS
    <3>3. k \in Int /\ k <= Len(crumbs) /\ k = Len(crumbs') - MaxCrumbs + (Turn(j) - 1)
      BY <1>2, <1>3, <3>1, <3>2, Sizes
    <3>4. ring'[j] = Crumb(k)
      BY <3>1, <3>2 DEF Rest
    <3>5. Crumb(k)' = Crumb(k)
      BY <1>2, <1>3, <3>3 DEF Crumb
    <3>6. (Rest(Turn(j) - 1))' = Crumb(k)'
      BY <1>1, <3>1, <3>3 DEF Rest
    <3> QED
      BY <1>1, <2>2, <3>4, <3>5, <3>6 DEF RingAt
  <2> QED
    BY <2>1, <2>2
<1> QED
  BY <1>4, <1>5, <1>6 DEF CrumbGiven

LEMMA ModuloTwice == \A n \in Nat \ {0} : \A x \in 0..(2 * n - 1) : x % n = IF x < n THEN x ELSE x - n
  OBVIOUS

LEMMA AdvanceKeeps == ASSUME CrumbGiven, Advance PROVE CrumbGiven'
<1>1. /\ scope = "stored" /\ scope' = "idle" /\ current' = (current + 1) % MaxCrumbs
      /\ UNCHANGED <<ring, slot, crumbs, ops>>
  BY DEF Advance
<1>2. current \in 0..(MaxCrumbs - 1) /\ Len(crumbs) \in Nat /\ Len(crumbs) > 0
  BY <1>1, CrumbsTyped DEF CrumbGiven, CrumbTypes, Slots, Rising
<1>3. current' = IF current + 1 < MaxCrumbs THEN current + 1 ELSE 0
  BY <1>1, <1>2, Sizes, ModuloTwice
<1>4. CrumbTypes'
  BY <1>1, <1>2, <1>3, Sizes DEF CrumbGiven, CrumbTypes, Slots
<1>5. Rising'
  BY <1>1 DEF CrumbGiven, Rising
<1>6. RingHolds'
  <2> SUFFICES ASSUME NEW j \in Slots PROVE ring[j] = (Rest(Turn(j)))'
    BY <1>1 DEF RingHolds, RingAt, Slots
  <2>1. ring[j] = RingAt(j)
    BY DEF CrumbGiven, RingHolds
  <2>2. CASE j = current
    <3>1. Turn(j)' = MaxCrumbs
      BY <1>2, <1>3, <2>2, Sizes DEF Turn
    <3>2. (Rest(Turn(j)))' = crumbs[Len(crumbs)]
      BY <1>1, <1>2, <3>1, Sizes DEF Rest, Crumb
    <3> QED
      BY <1>1, <2>1, <2>2, <3>2 DEF RingAt
  <2>3. CASE j # current
    <3>1. Turn(j)' = Turn(j) - 1
      BY <1>2, <1>3, <2>3, Sizes DEF Turn, Slots
    <3>2. (Rest(Turn(j)))' = Rest(Turn(j) - 1)
      BY <1>1, <3>1 DEF Rest, Crumb
    <3> QED
      BY <1>1, <2>1, <2>3, <3>2 DEF RingAt
  <2> QED
    BY <2>2, <2>3
<1> QED
  BY <1>4, <1>5, <1>6 DEF CrumbGiven

LEMMA ClearKeeps == ASSUME CrumbGiven, ClearBreadcrumbs \/ ClearSlot PROVE CrumbGiven'
<1>1. CASE ClearBreadcrumbs
  <2>1. /\ scope = "idle" /\ scope' = "clearing" /\ slot' = 0 /\ ops < MaxOps /\ ops' = ops + 1
        /\ UNCHANGED <<ring, current, crumbs>>
    BY <1>1 DEF ClearBreadcrumbs, Count
  <2>2. CrumbTypes'
    BY <2>1, Sizes DEF CrumbGiven, CrumbTypes
  <2>3. Rising'
    BY <2>1, CrumbsTyped DEF CrumbGiven, CrumbTypes, Rising
  <2>4. RingHolds'
    BY <2>1, Sizes DEF CrumbGiven, RingHolds, RingAt, Rest, Crumb, Turn, Slots
  <2> QED
    BY <2>2, <2>3, <2>4 DEF CrumbGiven
<1>2. CASE ClearSlot /\ slot < MaxCrumbs
  <2>1. /\ scope = "clearing" /\ ring' = [ring EXCEPT ![slot] = 0] /\ slot' = slot + 1
        /\ UNCHANGED <<current, scope, crumbs, ops>>
    BY <1>2 DEF ClearSlot
  <2>2. slot \in Slots
    BY <1>2, Sizes DEF CrumbGiven, CrumbTypes, Slots
  <2>3. CrumbTypes'
    BY <1>2, <2>1, <2>2, Sizes DEF CrumbGiven, CrumbTypes
  <2>4. Rising'
    BY <2>1 DEF CrumbGiven, Rising
  <2>5. RingHolds'
    <3> SUFFICES ASSUME NEW j \in Slots PROVE (ring[j] = RingAt(j))'
      BY DEF RingHolds, Slots
    <3>1. ring[j] = IF j < slot THEN 0 ELSE Rest(Turn(j))
      BY <2>1 DEF CrumbGiven, RingHolds, RingAt
    <3>2. ring'[j] = IF j < slot + 1 THEN 0 ELSE Rest(Turn(j))
      BY <2>1, <2>2, <3>1 DEF CrumbGiven, CrumbTypes, Slots
    <3>3. (Rest(Turn(j)))' = Rest(Turn(j))
      BY <2>1 DEF Rest, Turn, Crumb
    <3> QED
      BY <2>1, <3>2, <3>3 DEF RingAt
  <2> QED
    BY <2>3, <2>4, <2>5 DEF CrumbGiven
<1>3. CASE ClearSlot /\ ~(slot < MaxCrumbs)
  <2>1. /\ scope = "clearing" /\ scope' = "idle" /\ current' = 0 /\ slot' = 0 /\ crumbs' = <<>>
        /\ UNCHANGED <<ring, ops>>
    BY <1>3 DEF ClearSlot
  <2>2. slot = MaxCrumbs
    BY <1>3, Sizes DEF CrumbGiven, CrumbTypes
  <2>3. CrumbTypes'
    BY <2>1, Sizes DEF CrumbGiven, CrumbTypes, Slots
  <2>4. Rising'
    BY <2>1 DEF Rising
  <2>5. RingHolds'
    <3> SUFFICES ASSUME NEW j \in Slots PROVE (ring[j] = RingAt(j))'
      BY DEF RingHolds, Slots
    <3>1. ring[j] = 0
      BY <2>1, <2>2, Sizes DEF CrumbGiven, RingHolds, RingAt, Slots
    <3>2. (Turn(j))' \in 1..MaxCrumbs
      BY <2>1, Sizes DEF Turn, Slots
    <3>3. (Rest(Turn(j)))' = 0
      BY <2>1, <3>2, Sizes DEF Rest, Crumb
    <3> QED
      BY <2>1, <3>1, <3>3 DEF RingAt
  <2> QED
    BY <2>3, <2>4, <2>5 DEF CrumbGiven
<1> QED
  BY <1>1, <1>2, <1>3

LEMMA NextCrumbs == CrumbGiven /\ [Next]_vars => CrumbGiven'
<1> SUFFICES ASSUME CrumbGiven, [Next]_vars PROVE CrumbGiven'
  OBVIOUS
<1>1. CASE UNCHANGED trail /\ ops' \in {ops, ops + 1} /\ ops' <= MaxOps
  <2>1. UNCHANGED <<ring, current, scope, slot, crumbs>> /\ ops \in Nat /\ ops' \in 0..MaxOps
    BY <1>1, Sizes DEF trail, CrumbGiven, CrumbTypes
  <2>2. Rising'
    BY <1>1, <2>1, CrumbsTyped DEF CrumbGiven, Rising
  <2>3. CrumbTypes' /\ RingHolds'
    BY <2>1 DEF CrumbGiven, CrumbTypes, RingHolds, RingAt, Rest, Crumb, Turn, Slots
  <2> QED
    BY <2>2, <2>3 DEF CrumbGiven
<1>2. ops' = ops => ops' <= MaxOps
  BY Sizes DEF CrumbGiven, CrumbTypes
<1>3. Count => ops' = ops + 1 /\ ops' <= MaxOps
  BY Sizes DEF Count, CrumbGiven, CrumbTypes
<1>4. CASE Collect \/ Publish \/ FreeOld \/ StartCache \/ Register
  BY <1>1, <1>2, <1>3, <1>4 DEF Collect, Publish, FreeOld, StartCache, Register
<1>5. ASSUME NEW a \in Addresses,
             \/ LoadImage(a) \/ CheckImage(a) \/ AppendImage(a) \/ ReportImage(a) \/ UnloadImage(a)
      PROVE  CrumbGiven'
  BY <1>1, <1>2, <1>3, <1>5 DEF LoadImage, CheckImage, AppendImage, ReportImage, UnloadImage
<1>6. CASE Configure
  <2>1. /\ scope \in {"off", "raw"} /\ scope' \in {"raw", "idle"}
        /\ UNCHANGED <<ring, current, slot, crumbs, ops>>
    BY <1>6 DEF Configure
  <2> QED
    BY <2>1 DEF CrumbGiven, CrumbTypes, Rising, RingHolds, RingAt, Rest, Crumb, Turn, Slots
<1>7. CASE UNCHANGED vars
  BY <1>1, <1>2, <1>7 DEF vars
<1> QED
  BY <1>4, <1>5, <1>6, <1>7, AddKeeps, StoreKeeps, AdvanceKeeps, ClearKeeps DEF Next

\* What is read at place p.
LEMMA PlaceIs ==
  ASSUME CrumbGiven, NEW p \in 1..MaxCrumbs
  PROVE  /\ scope = "idle" => Place(p) = Rest(p)
         /\ scope = "nulled" => Place(p) = IF p = 1 THEN 0 ELSE Rest(p)
         /\ scope = "stored" => Place(p) = IF p = 1 THEN crumbs[Len(crumbs)] ELSE Rest(p - 1)
         /\ scope = "clearing" => Place(p) \in {0, Rest(p)}
<1> PICK x : x = current + p - 1
  OBVIOUS
<1> PICK j : j = IF x < MaxCrumbs THEN x ELSE x - MaxCrumbs
  OBVIOUS
<1>1. current \in 0..(MaxCrumbs - 1) /\ p \in 1..MaxCrumbs
  BY DEF CrumbGiven, CrumbTypes, Slots
<1>2. x \in 0..(2 * MaxCrumbs - 1) /\ MaxCrumbs \in Nat \ {0}
  BY <1>1, Sizes
<1>3. x % MaxCrumbs = j
  BY <1>2, ModuloTwice
<1>4. Place(p) = ring[j]
  BY <1>3 DEF Place
<1>5. j \in Slots /\ Turn(j) = p
  BY <1>1, Sizes DEF Slots, Turn
<1>6. ring[j] = RingAt(j) /\ (j = current <=> p = 1)
  BY <1>5, TurnIs DEF CrumbGiven, RingHolds
<1> QED
  BY <1>4, <1>5, <1>6 DEF RingAt

LEMMA CrumbIs ==
  ASSUME CrumbGiven, NEW k \in Int, k <= Len(crumbs)
  PROVE  /\ Crumb(k) # 0 <=> k \in 1..Len(crumbs)
         /\ k \in 1..Len(crumbs) => Crumb(k) = crumbs[k]
  BY CrumbsTyped DEF CrumbGiven, Crumb

LEMMA RestIs ==
  ASSUME CrumbGiven, NEW p \in 1..MaxCrumbs
  PROVE  LET k == Len(crumbs) - MaxCrumbs + p
         IN /\ Rest(p) # 0 <=> k \in 1..Len(crumbs)
            /\ k \in 1..Len(crumbs) => Rest(p) = crumbs[k]
<1> DEFINE k == Len(crumbs) - MaxCrumbs + p
<1>1. k \in Int /\ k <= Len(crumbs) /\ Rest(p) = Crumb(k)
  BY CrumbsTyped, Sizes DEF CrumbGiven, Rest
<1> HIDE DEF k
<1>2. (Rest(p) # 0 <=> k \in 1..Len(crumbs)) /\ (k \in 1..Len(crumbs) => Rest(p) = crumbs[k])
  BY <1>1, CrumbIs
<1> QED
  BY <1>2 DEF k

LEMMA RestRises ==
  ASSUME CrumbGiven, NEW p \in 1..MaxCrumbs, NEW q \in 1..MaxCrumbs, p < q, Rest(p) # 0
  PROVE  Rest(p) < Rest(q) /\ Rest(q) # 0
<1>1. Len(crumbs) \in Nat
  BY CrumbsTyped DEF CrumbGiven
<1> PICK i, j : i = Len(crumbs) - MaxCrumbs + p /\ j = Len(crumbs) - MaxCrumbs + q
  OBVIOUS
<1>2. i \in 1..Len(crumbs) /\ Rest(p) = crumbs[i]
  BY RestIs
<1>3. j \in 1..Len(crumbs) /\ i < j
  BY <1>1, <1>2, Sizes
<1>4. Rest(q) = crumbs[j] /\ Rest(q) # 0
  BY <1>3, RestIs
<1> QED
  BY <1>2, <1>3, <1>4 DEF CrumbGiven, Rising

\* The places with a crumb are those of the last MaxCrumbs crumbs, in their order.
LEMMA CrumbAt ==
  ASSUME CrumbGiven
  PROVE  /\ DOMAIN crumbs = 1..Len(crumbs) /\ Len(crumbs) \in Nat
         /\ \A p \in 1..MaxCrumbs : Rest(p) # 0 =>
              \E k \in 1..Len(crumbs) : k = Len(crumbs) - MaxCrumbs + p /\ Rest(p) = crumbs[k]
         /\ \A k \in 1..Len(crumbs) : k > Len(crumbs) - MaxCrumbs =>
              \E p \in 1..MaxCrumbs : /\ k = Len(crumbs) - MaxCrumbs + p
                                      /\ Rest(p) = crumbs[k] /\ Rest(p) # 0
<1>1. Len(crumbs) \in Nat /\ DOMAIN crumbs = 1..Len(crumbs)
  BY CrumbsTyped DEF CrumbGiven
<1>2. ASSUME NEW p \in 1..MaxCrumbs, Rest(p) # 0
      PROVE  \E k \in 1..Len(crumbs) : k = Len(crumbs) - MaxCrumbs + p /\ Rest(p) = crumbs[k]
  BY <1>2, RestIs
<1>3. ASSUME NEW k \in 1..Len(crumbs), k > Len(crumbs) - MaxCrumbs
      PROVE  \E p \in 1..MaxCrumbs : /\ k = Len(crumbs) - MaxCrumbs + p
                                     /\ Rest(p) = crumbs[k] /\ Rest(p) # 0
  <2> PICK p : p = k - (Len(crumbs) - MaxCrumbs)
    OBVIOUS
  <2>1. p \in 1..MaxCrumbs /\ k = Len(crumbs) - MaxCrumbs + p
    BY <1>1, <1>3, Sizes
  <2> QED
    BY <1>1, <2>1, RestIs
<1> QED
  BY <1>1, <1>2, <1>3

LEMMA IdleShows == ASSUME CrumbGiven, scope = "idle" PROVE Shows(Written, Newest(MaxCrumbs))
<1>1. \A p \in 1..MaxCrumbs : Place(p) = Rest(p)
  BY PlaceIs
<1>2. Ascending(Written)
  BY <1>1, RestRises DEF Ascending, Written
<1>3. \A p \in Written : Place(p) \in Newest(MaxCrumbs)
  <2> SUFFICES ASSUME NEW p \in 1..MaxCrumbs, Rest(p) # 0 PROVE Rest(p) \in Newest(MaxCrumbs)
    BY <1>1 DEF Written
  <2> PICK k \in 1..Len(crumbs) : k = Len(crumbs) - MaxCrumbs + p /\ Rest(p) = crumbs[k]
    BY CrumbAt
  <2>1. k \in DOMAIN crumbs /\ k > Len(crumbs) - MaxCrumbs
    BY CrumbAt, Sizes
  <2> QED
    BY <2>1 DEF Newest
<1>4. \A c \in Newest(MaxCrumbs) : \E p \in Written : Place(p) = c
  BY <1>1, CrumbAt DEF Newest, Written
<1> QED
  BY <1>2, <1>3, <1>4 DEF Shows

LEMMA NulledShows == ASSUME CrumbGiven, scope = "nulled" PROVE Shows(Written, Newest(MaxCrumbs - 1))
<1>1. \A p \in 1..MaxCrumbs : Place(p) = IF p = 1 THEN 0 ELSE Rest(p)
  BY PlaceIs
<1>2. Ascending(Written)
  BY <1>1, RestRises DEF Ascending, Written
<1>3. \A p \in Written : Place(p) \in Newest(MaxCrumbs - 1)
  <2> SUFFICES ASSUME NEW p \in 1..MaxCrumbs, p # 1, Rest(p) # 0
               PROVE  Rest(p) \in Newest(MaxCrumbs - 1)
    BY <1>1 DEF Written
  <2> PICK k \in 1..Len(crumbs) : k = Len(crumbs) - MaxCrumbs + p /\ Rest(p) = crumbs[k]
    BY CrumbAt
  <2>1. k \in DOMAIN crumbs /\ k > Len(crumbs) - (MaxCrumbs - 1)
    BY CrumbAt, Sizes
  <2> QED
    BY <2>1 DEF Newest
<1>4. \A c \in Newest(MaxCrumbs - 1) : \E p \in Written : Place(p) = c
  <2> SUFFICES ASSUME NEW k \in DOMAIN crumbs, k > Len(crumbs) - (MaxCrumbs - 1)
               PROVE  \E p \in 1..MaxCrumbs : p # 1 /\ Rest(p) = crumbs[k] /\ Rest(p) # 0
    BY <1>1 DEF Newest, Written
  <2>1. k \in 1..Len(crumbs) /\ k > Len(crumbs) - MaxCrumbs
    BY CrumbAt, Sizes
  <2> PICK p \in 1..MaxCrumbs : k = Len(crumbs) - MaxCrumbs + p /\ Rest(p) = crumbs[k] /\ Rest(p) # 0
    BY <2>1, CrumbAt
  <2>2. p # 1
    BY CrumbAt, Sizes
  <2> QED
    BY <2>2
<1> QED
  BY <1>2, <1>3, <1>4 DEF Shows

LEMMA StoredShows ==
  ASSUME CrumbGiven, scope = "stored"
  PROVE  /\ 1 \in Written /\ Place(1) = crumbs[Len(crumbs)]
         /\ Shows(Written \ {1}, Newest(MaxCrumbs) \ {Place(1)})
<1>1. \A p \in 1..MaxCrumbs : Place(p) = IF p = 1 THEN crumbs[Len(crumbs)] ELSE Rest(p - 1)
  BY PlaceIs
<1>2. Len(crumbs) \in 1..Len(crumbs) /\ crumbs[Len(crumbs)] \in 1..MaxOps
  BY CrumbsTyped DEF CrumbGiven, Rising
<1>3. 1 \in Written /\ Place(1) = crumbs[Len(crumbs)]
  BY <1>1, <1>2, Sizes DEF Written
<1>4. \A p \in 1..MaxCrumbs : p # 1 => p - 1 \in 1..MaxCrumbs /\ p - 1 < MaxCrumbs
  BY Sizes
<1>5. Ascending(Written \ {1})
  <2> SUFFICES ASSUME NEW p \in Written, NEW q \in Written, p # 1, q # 1, p < q
               PROVE  Place(p) < Place(q)
    BY DEF Ascending
  <2>1. /\ p - 1 \in 1..MaxCrumbs /\ q - 1 \in 1..MaxCrumbs /\ p - 1 < q - 1
        /\ Place(p) = Rest(p - 1) /\ Place(q) = Rest(q - 1) /\ Rest(p - 1) # 0
    BY <1>1, <1>4, Sizes DEF Written
  <2> QED
    BY <2>1, RestRises
<1>6. \A p \in Written \ {1} : Place(p) \in Newest(MaxCrumbs) \ {Place(1)}
  <2> SUFFICES ASSUME NEW p \in 1..MaxCrumbs, p # 1, Rest(p - 1) # 0
               PROVE  Rest(p - 1) \in Newest(MaxCrumbs) \ {crumbs[Len(crumbs)]}
    BY <1>1, <1>3 DEF Written
  <2> PICK k \in 1..Len(crumbs) : k = Len(crumbs) - MaxCrumbs + (p - 1) /\ Rest(p - 1) = crumbs[k]
    BY <1>4, CrumbAt
  <2>1. k \in DOMAIN crumbs /\ k > Len(crumbs) - MaxCrumbs /\ k < Len(crumbs)
    BY CrumbAt, Sizes
  <2>2. crumbs[k] < crumbs[Len(crumbs)]
    BY <1>2, <2>1 DEF CrumbGiven, Rising
  <2>3. crumbs[k] \in 1..MaxOps
    BY CrumbsTyped DEF CrumbGiven
  <2> QED
    BY <1>2, <2>1, <2>2, <2>3 DEF Newest
<1>7. \A c \in Newest(MaxCrumbs) \ {Place(1)} : \E p \in Written \ {1} : Place(p) = c
  <2> SUFFICES ASSUME NEW k \in DOMAIN crumbs, k > Len(crumbs) - MaxCrumbs, k # Len(crumbs)
               PROVE  \E p \in Written \ {1} : Place(p) = crumbs[k]
    BY <1>3 DEF Newest
  <2> PICK q \in 1..MaxCrumbs : k = Len(crumbs) - MaxCrumbs + q /\ Rest(q) = crumbs[k] /\ Rest(q) # 0
    BY CrumbAt
  <2>1. k < Len(crumbs)
    BY CrumbAt
  <2>2. q + 1 \in 1..MaxCrumbs /\ q + 1 # 1 /\ (q + 1) - 1 = q
    BY <2>1, CrumbAt, Sizes
  <2>3. Place(q + 1) = Rest(q)
    BY <1>1, <2>2
  <2> QED
    BY <2>2, <2>3 DEF Written
<1> QED
  BY <1>3, <1>5, <1>6, <1>7 DEF Shows

LEMMA ClearingShows == ASSUME CrumbGiven, scope = "clearing" PROVE Ascending(Written)
<1>1. \A p \in Written : p \in 1..MaxCrumbs /\ Rest(p) # 0 /\ Place(p) = Rest(p)
  BY PlaceIs DEF Written
<1> QED
  BY <1>1, RestRises DEF Ascending

-----------------------------------------------------------------------------
AllGiven == Given /\ Numbered /\ ImageGiven /\ CrumbGiven

LEMMA AllInvariant == Spec => []AllGiven
<1>1. Init => AllGiven
  BY InitGiven, InitNumbered, InitImages, InitCrumbs DEF AllGiven
<1>2. AllGiven /\ [Next]_vars => AllGiven'
  BY NextGiven, NextNumbered, NextImages, NextCrumbs DEF AllGiven
<1> QED
  BY <1>1, <1>2, PTL DEF Spec

\* The state keeps its types; an image is being added only while it is loaded, and the
\* callback was called only for nodes of the list.
THEOREM CachesTyped == Spec => []CachesTypeOK
<1>1. AllGiven => CachesTypeOK
  BY DEF AllGiven, Given, Typed, Numbered, ImageGiven, ImageTypes, CrumbGiven, CrumbTypes, CachesTypeOK
<1> QED
  BY <1>1, AllInvariant, PTL

\* binaryImageAdded and sentrycrashbic_registerAddedCallback, wherever one interrupts
\* the other: the callback hears of every image of the cache, from one or the other,
\* and what the cache lists is loaded unless its address was used twice.
THEOREM ImagesAlwaysTold == Spec => []ImagesTold
<1>1. ASSUME ImageGiven PROVE ImagesTold
  <2>1. ASSUME registrar = "done", NEW i \in Available
        PROVE  i \in reported \/ (adder[list[i].at] = "report" /\ i = LastAt(list[i].at))
    BY <1>1, <2>1, LastAtIs DEF ImageGiven, Told
  <2>2. ASSUME NEW i \in Available
        PROVE  list[i].at \in loaded \/ \E j \in DOMAIN list : j # i /\ list[j].at = list[i].at
    BY <1>1 DEF ImageGiven, Loaded, Available
  <2> QED
    BY <2>1, <2>2 DEF ImagesTold
<1>2. AllGiven => ImagesTold
  BY <1>1 DEF AllGiven
<1> QED
  BY <1>2, AllInvariant, PTL

\* sentrycrash_scopesync_addBreadcrumb and the clearing, stopped at any step: what
\* writeScopeJson finds in the ring is the last breadcrumbs in their order, at most
\* the oldest one missing and the new one first.
THEOREM CrumbsAlwaysInOrder == Spec => []CrumbsInOrder
<1>1. AllGiven => CrumbsInOrder
  BY IdleShows, NulledShows, StoredShows, ClearingShows DEF AllGiven, CrumbsInOrder
<1> QED
  BY <1>1, AllInvariant, PTL

=============================================================================
