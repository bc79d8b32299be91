----------------------------- MODULE CrashCaches -----------------------------
(* What the application prepares for the crash handler to read: the names of   *)
(* the threads (SentryCrashCachedData.c), the loaded images                    *)
(* (SentryCrashBinaryImageCache.c) and the breadcrumbs (SentryScopeSyncC.c).   *)
(* Their writers are stopped wherever they are when a crash suspends them, and *)
(* the handler reads without a lock: every state is one that it may find.      *)
(* What it would read is an operator of the state.                             *)
EXTENDS Integers, FiniteSets, Sequences, SequencesExt

CONSTANTS Threads, Addresses,  \* of the process: threads, places to load an image
          MaxCrumbs,           \* maxBreadcrumbs of the options
          MaxOps               \* bound: updates, loads, unloads and breadcrumbs together

CachesAssumption == IsFiniteSet(Threads) /\ MaxCrumbs \in Nat \ {0} /\ MaxOps \in Nat
ASSUME CachesAssumption

VARIABLES
  mach, names, \* g_allMachThreads and g_allThreadNames: what they point to
  count,       \* g_allThreadsCount
  fresh,       \* the arrays just collected
  stores,      \* the stores to the globals still to come
  ordered,     \* these stores happen in the order of the source
  live,        \* the collected arrays that are not freed
  list,        \* the nodes after rootNode
  started,     \* tailNode is set
  adder,       \* for each address, where binaryImageAdded is
  loaded,      \* the addresses at which an image is loaded
  callback,    \* imageAddedCallback is set
  registrar,   \* where sentrycrashbic_registerAddedCallback is
  reported,    \* history: the nodes the callback was called with
  ring,        \* scope.breadcrumbs, a crumb being a number and NULL 0
  current,     \* scope.currentCrumb
  scope,       \* where the thread that changes the breadcrumbs is
  slot,        \* the slot that is cleared next
  crumbs,      \* history: the breadcrumbs since the last clear
  ops          \* history: operations so far

threads == <<mach, names, count, fresh, stores, ordered, live>>
images  == <<list, started, adder, loaded, callback, registrar, reported>>
trail   == <<ring, current, scope, slot, crumbs>>
vars    == <<threads, images, trail, ops>>

None  == [id |-> 0, of |-> <<>>]
Slots == 0..(MaxCrumbs - 1)

Init ==
  /\ mach = None /\ names = None /\ count = 0
  /\ fresh = None /\ stores = <<>> /\ ordered = TRUE /\ live = {}
  /\ list = <<>> /\ started = FALSE /\ adder = [a \in Addresses |-> "idle"]
  /\ loaded \in SUBSET Addresses
  /\ callback = FALSE /\ registrar = "off" /\ reported = {}
  /\ ring = [i \in Slots |-> 0] /\ current = 0 /\ scope = "off" /\ slot = 0
  /\ crumbs = <<>> /\ ops = 0

Count == ops < MaxOps /\ ops' = ops + 1

-----------------------------------------------------------------------------
\* updateThreadList, on the thread of monitorCachedData.

Lists == {s \in SeqOf(Threads, Cardinality(Threads)) : s # <<>> /\ IsInjective(s)}

\* Nothing keeps the compiler from changing the order of the stores, and from
\* leaving out the first one, which another overwrites.
SourceOrder == <<"min", "mach", "names", "count">>
Globals == {"mach", "names", "count"}
Orders == {SourceOrder} \cup {o \in [1..3 -> Globals] : Range(o) = Globals}

\* task_threads and the four callocs; frees wait for all stores.
Collect ==
  /\ stores = <<>> /\ live \subseteq {mach.id} /\ Count
  /\ \E s \in Lists, o \in Orders :
       /\ fresh' = [id |-> mach.id + 1, of |-> s]
       /\ stores' = o /\ ordered' = (o = SourceOrder)
  /\ live' = live \cup {fresh'.id}
  /\ UNCHANGED <<mach, names, count, images, trail>>

\* fault: the count is not lowered first
StoreWhole(what) ==
  /\ mach' = IF what = "mach" THEN fresh ELSE mach
  /\ names' = IF what = "names" THEN fresh ELSE names
  /\ count' = IF what = "count" THEN Len(fresh.of) ELSE count

Store(what) ==
  /\ mach' = IF what = "mach" THEN fresh ELSE mach
  /\ names' = IF what = "names" THEN fresh ELSE names
  /\ count' = CASE what = "min" -> IF count < Len(fresh.of) THEN count ELSE Len(fresh.of)
                [] what = "count" -> Len(fresh.of)
                [] OTHER -> count

Publish ==
  /\ stores # <<>>
  /\ Store(Head(stores)) /\ stores' = Tail(stores)
  /\ UNCHANGED <<fresh, ordered, live, images, trail, ops>>

FreeOld ==
  /\ stores = <<>> /\ live # {fresh.id} /\ fresh # None
  /\ live' = {fresh.id}
  /\ UNCHANGED <<mach, names, count, fresh, stores, ordered, images, trail, ops>>

\* sentrycrashccd_getThreadName: the first i below count with the thread.
Index(t) == {i \in 1..count : /\ i <= Len(mach.of) /\ mach.of[i] = t
                              /\ \A j \in 1..(i - 1) : mach.of[j] # t}
ThreadName(t) == IF names = None \/ Index(t) = {} THEN "none"
                 ELSE LET i == CHOOSE k \in Index(t) : TRUE
                      IN IF i <= Len(names.of) THEN names.of[i] ELSE "beyond"

-----------------------------------------------------------------------------
\* The image cache.

\* sentrycrashbic_startCache: dyld calls binaryImageAdded for every image there is.
StartCache ==
  /\ registrar = "off" /\ ~started
  /\ \E found \in BOOLEAN : started' = found   \* without a node for dyld, it is stopped
  /\ adder' = [a \in Addresses |-> IF a \in loaded THEN "check" ELSE "idle"]
  /\ registrar' = "ready"
  /\ UNCHANGED <<threads, list, loaded, callback, reported, trail, ops>>

LoadImage(a) ==
  /\ a \notin loaded /\ adder[a] = "idle" /\ Count
  /\ loaded' = loaded \cup {a}
  /\ adder' = IF registrar = "off" THEN adder ELSE [adder EXCEPT ![a] = "check"]
  /\ UNCHANGED <<threads, list, started, callback, registrar, reported, trail>>

\* binaryImageAdded up to the second lock: stopped, or no image can be made of it.
CheckImage(a) ==
  /\ adder[a] = "check"
  /\ \/ started /\ adder' = [adder EXCEPT ![a] = "append"]
     \/ adder' = [adder EXCEPT ![a] = "idle"]
  /\ UNCHANGED <<threads, list, started, loaded, callback, registrar, reported, trail, ops>>

AppendImage(a) ==
  /\ adder[a] = "append"
  /\ list' = Append(list, [at |-> a, available |-> TRUE])
  /\ adder' = [adder EXCEPT ![a] = "report"]
  /\ UNCHANGED <<threads, started, loaded, callback, registrar, reported, trail, ops>>

LastAt(a) == CHOOSE i \in DOMAIN list : list[i].at = a /\ \A j \in DOMAIN list :
                                                           list[j].at = a => j <= i

\* After the unlock: the callback, if there is one by now.
ReportImage(a) ==
  /\ adder[a] = "report"
  /\ reported' = IF callback THEN reported \cup {LastAt(a)} ELSE reported
  /\ adder' = [adder EXCEPT ![a] = "idle"]
  /\ UNCHANGED <<threads, list, started, loaded, callback, registrar, trail, ops>>

\* binaryImageRemoved marks the first node at the address.
UnloadImage(a) ==
  /\ a \in loaded /\ adder[a] = "idle" /\ registrar # "off" /\ Count
  /\ loaded' = loaded \ {a}
  /\ list' = [i \in DOMAIN list |->
                IF list[i].at = a /\ \A j \in 1..(i - 1) : list[j].at # a
                THEN [list[i] EXCEPT !.available = FALSE] ELSE list[i]]
  /\ UNCHANGED <<threads, started, adder, callback, registrar, reported, trail>>

Available == {i \in DOMAIN list : started /\ list[i].available}

\* fault: the images are reported before the callback is set
RegisterLate ==
  \/ /\ registrar = "ready" /\ registrar' = "iterate" /\ reported' = reported \cup Available
     /\ UNCHANGED <<threads, list, started, adder, loaded, callback, trail, ops>>
  \/ /\ registrar = "iterate" /\ registrar' = "done" /\ callback' = TRUE
     /\ UNCHANGED <<threads, list, started, adder, loaded, reported, trail, ops>>

\* sentrycrashbic_registerAddedCallback: the callback is set, then, under the lock,
\* called for what is in the list.
Register ==
  \/ /\ registrar = "ready" /\ registrar' = "iterate" /\ callback' = TRUE
     /\ UNCHANGED <<threads, list, started, adder, loaded, reported, trail, ops>>
  \/ /\ registrar = "iterate" /\ registrar' = "done" /\ reported' = reported \cup Available
     /\ UNCHANGED <<threads, list, started, adder, loaded, callback, trail, ops>>

-----------------------------------------------------------------------------
\* The breadcrumbs; SentryScope lets one thread at a time change them.

\* sentrycrash_scopesync_configureBreadcrumbs: malloc leaves the slots undefined
\* until the memset.
Configure ==
  \/ scope = "off" /\ scope' = "raw" /\ UNCHANGED <<threads, images, ring, current, slot,
                                                    crumbs, ops>>
  \/ scope = "raw" /\ scope' = "idle" /\ UNCHANGED <<threads, images, ring, current, slot,
                                                     crumbs, ops>>

\* setField: the slot is NULL while the old string is freed and the new one copied.
AddBreadcrumb ==
  /\ scope = "idle" /\ Count
  /\ ring' = [ring EXCEPT ![current] = 0] /\ scope' = "nulled"
  /\ UNCHANGED <<threads, images, current, slot, crumbs>>

StoreCrumb ==
  /\ scope = "nulled"
  /\ ring' = [ring EXCEPT ![current] = ops] /\ scope' = "stored"
  /\ crumbs' = Append(crumbs, ops)
  /\ UNCHANGED <<threads, images, current, slot, ops>>

\* fault: the index stays below the last slot
AdvanceShort ==
  /\ scope = "stored" /\ scope' = "idle"
  /\ current' = IF current + 1 < MaxCrumbs - 1 THEN current + 1 ELSE 0
  /\ UNCHANGED <<threads, images, ring, slot, crumbs, ops>>

Advance ==
  /\ scope = "stored" /\ scope' = "idle"
  /\ current' = (current + 1) % MaxCrumbs
  /\ UNCHANGED <<threads, images, ring, slot, crumbs, ops>>

ClearBreadcrumbs ==
  /\ scope = "idle" /\ Count
  /\ scope' = "clearing" /\ slot' = 0
  /\ UNCHANGED <<threads, images, ring, current, crumbs>>

\* fault: the loop runs one slot too far
ClearSlotPast ==
  /\ scope = "clearing"
  /\ IF slot <= MaxCrumbs
     THEN /\ ring' = [i \in Slots |-> IF i = slot THEN 0 ELSE ring[i]] /\ slot' = slot + 1
          /\ UNCHANGED <<current, scope, crumbs>>
     ELSE /\ current' = 0 /\ scope' = "idle" /\ slot' = 0 /\ crumbs' = <<>>
          /\ UNCHANGED ring
  /\ UNCHANGED <<threads, images, ops>>

ClearSlot ==
  /\ scope = "clearing"
  /\ IF slot < MaxCrumbs
     THEN /\ ring' = [ring EXCEPT ![slot] = 0] /\ slot' = slot + 1
          /\ UNCHANGED <<current, scope, crumbs>>
     ELSE /\ current' = 0 /\ scope' = "idle" /\ slot' = 0 /\ crumbs' = <<>>
          /\ UNCHANGED ring
  /\ UNCHANGED <<threads, images, ops>>

\* writeScopeJson's breadcrumbs: the slots from the current one on, without the NULL ones.
Place(i) == ring[(current + i - 1) % MaxCrumbs]
Written == {i \in 1..MaxCrumbs : Place(i) # 0}

Next == \/ Collect \/ Publish \/ FreeOld
        \/ StartCache \/ Register
        \/ \E a \in Addresses : \/ LoadImage(a) \/ CheckImage(a) \/ AppendImage(a)
                                \/ ReportImage(a) \/ UnloadImage(a)
        \/ Configure \/ AddBreadcrumb \/ StoreCrumb \/ Advance
        \/ ClearBreadcrumbs \/ ClearSlot

Spec == Init /\ [][Next]_vars
-----------------------------------------------------------------------------
Arrays == [id : 0..MaxOps, of : Lists \cup {<<>>}]

\* The types of the state, and: an address is being added only while it is loaded,
\* a node has been reported only if it is in the list.
CachesTypeOK ==
  /\ mach \in Arrays /\ names \in Arrays /\ fresh \in Arrays
  /\ count \in 0..Cardinality(Threads) /\ ordered \in BOOLEAN /\ live \subseteq 1..MaxOps
  /\ stores \in Seq({"min", "mach", "names", "count"})
  /\ list \in Seq([at : Addresses, available : BOOLEAN])
  /\ started \in BOOLEAN /\ callback \in BOOLEAN /\ loaded \subseteq Addresses
  /\ adder \in [Addresses -> {"idle", "check", "append", "report"}]
  /\ \A a \in Addresses : adder[a] # "idle" => a \in loaded
  /\ registrar \in {"off", "ready", "iterate", "done"} /\ reported \subseteq DOMAIN list
  /\ ring \in [Slots -> 0..MaxOps] /\ current \in Slots /\ slot \in 0..MaxCrumbs
  /\ scope \in {"off", "raw", "idle", "nulled", "stored", "clearing"}
  /\ crumbs \in Seq(1..MaxOps) /\ ops \in 0..MaxOps

\* The handler never reads a freed array; as long as the stores of the update it
\* interrupts happen in the order of the source, it reads within both arrays; and
\* it takes a thread for another only in the middle of an update.
NamesSafe ==
  /\ {mach.id, names.id} \ {0} \subseteq live
  /\ ordered => count <= Len(mach.of) /\ count <= Len(names.of)
  /\ \A t \in Threads : ThreadName(t) \notin {"none", t} => stores # <<>>

\* The callback is told of every image in the cache, whichever comes first, the
\* image or the callback; and what a report would list is loaded, unless an
\* address has been used twice.
ImagesTold ==
  /\ registrar = "done" =>
       \A i \in Available : i \in reported \/ (adder[list[i].at] = "report" /\ i = LastAt(list[i].at))
  /\ \A i \in Available : list[i].at \in loaded \/ \E j \in DOMAIN list :
                                                     j # i /\ list[j].at = list[i].at

\* A report shows the breadcrumbs in their order, all the last ones when none is
\* being added; while one is, the oldest is missing, or the new one comes first.
Newest(n) == {crumbs[k] : k \in {l \in DOMAIN crumbs : l > Len(crumbs) - n}}
Ascending(P) == \A i, j \in P : i < j => Place(i) < Place(j)
Shows(P, C) == Ascending(P) /\ {Place(i) : i \in P} = C
CrumbsInOrder ==
  /\ scope = "idle" => Shows(Written, Newest(MaxCrumbs))
  /\ scope = "nulled" => Shows(Written, Newest(MaxCrumbs - 1))
  /\ scope = "stored" => /\ 1 \in Written /\ Place(1) = crumbs[Len(crumbs)]
                         /\ Shows(Written \ {1}, Newest(MaxCrumbs) \ {Place(1)})
  /\ scope = "clearing" => Ascending(Written)
=============================================================================
