-------------------------- MODULE CrashReportProofs --------------------------
(* Proofs about CrashReport for every process, memory, depth and window: what  *)
(* brings the writer down, how much it writes of one address, that what it has *)
(* written is JSON once it is closed, where the sections of a report are, and  *)
(* which reports the next launch takes.                                        *)
(*                                                                             *)
(* The last three are about texts of any length. Their invariant, TextInv,     *)
(* ties the state of the encoder to the state in which the grammar is after    *)
(* reading what it wrote (At, Within), the decoder's likewise (Decoding), and  *)
(* what is left to do to what is still to be closed (Brings). The last one     *)
(* follows the fixer through a whole text by the grammar (Here, Comes).        *)
EXTENDS CrashReport, FiniteSetTheorems, SequenceTheorems, WellFoundedInduction, TLAPS

\* What the report may find at an address.
AllKinds == {"fault", "block", "class", "unknown", "string", "array", "mutable array", "CF array",
             "date", "number", "url", "null", "cstring", "nothing"}

LEMMA TaggedTypes ==
  \A a \in Addresses : Tagged(a) => TaggedClass(a).type \in {"unknown", "string", "number", "date"}
<1> SUFFICES ASSUME NEW a \in Addresses, Tagged(a)
             PROVE  TaggedClass(a).type \in {"unknown", "string", "number", "date"}
  OBVIOUS
<1>1. PICK i \in 1..8 : i = a - Tags + 1
  BY DEF Addresses, Tagged, Tags
<1>2. TaggedClass(a) = TaggedClasses[i]
  BY <1>1 DEF TaggedClass
<1>3. \A j \in 1..8 : TaggedClasses[j].type \in {"unknown", "string", "number", "date"}
  BY DEF TaggedClasses
<1> QED
  BY <1>2, <1>3

\* A base class was found in memory.
LEMMA BaseIsClass ==
  ASSUME NEW m, NEW class, BaseClass(m, class) # Nil
  PROVE  ContainsValidROData(m, BaseClass(m, class))
<1> DEFINE super[i \in 0..MaxSupers - 1] == IF i = 0 THEN class ELSE m[super[i - 1]].super
           root(i) == m[RO(m, super[i])].root
           top(i)  == /\ \A j \in 0..i : ContainsValidROData(m, super[j])
                      /\ root(i) /\ \A j \in 0..i - 1 : ~root(j)
<1>1. BaseClass(m, class) =
        IF \E i \in 0..MaxSupers - 1 : top(i)
        THEN LET i == CHOOSE i \in 0..MaxSupers - 1 : top(i) IN super[IF i = 0 THEN 0 ELSE i - 1]
        ELSE Nil
  BY DEF BaseClass
<1> HIDE DEF super
<1>2. PICK i \in 0..MaxSupers - 1 : top(i) /\ BaseClass(m, class) = super[IF i = 0 THEN 0 ELSE i - 1]
  BY <1>1
<1>3. (IF i = 0 THEN 0 ELSE i - 1) \in 0..i
  BY <1>2
<1> QED
  BY <1>2, <1>3

\* What is said of an address has been looked at, and the reader faults only where it
\* does not look.
LEMMA KindIs ==
  ASSUME NEW m, NEW a \in Addresses
  PROVE  /\ Kind(m, a) = "fault" => Unguarded(m)
         /\ Kind(m, a) \in {"string", "url", "date", "number", "unknown"} \cup Arrays
              => Tagged(a) \/ IsValidObject(m, a)
         /\ Kind(m, a) \in Arrays => ~Tagged(a)
<1>1. CASE a = Nil
  BY <1>1 DEF Kind, ObjectType, KindOf, Arrays, Tagged, Tags, Nil
<1>2. CASE a # Nil /\ Tagged(a)
  <2>1. Kind(m, a) = TaggedClass(a).type
    BY <1>2 DEF Kind, ObjectType, KindOf, ObjectClassType
  <2> QED
    BY <1>2, <2>1, TaggedTypes DEF Arrays
<1>3. CASE a # Nil /\ ~Tagged(a) /\ ~(IsValidObject(m, a) /\ IsValidClass(m, a))
  <2>1. Kind(m, a) \in {"null", "cstring", "nothing"}
    BY <1>3 DEF Kind, ObjectType, KindOf
  <2> QED
    BY <2>1 DEF Arrays
<1>4. CASE a # Nil /\ ~Tagged(a) /\ IsValidObject(m, a) /\ IsValidClass(m, a)
  <2> PICK base : base = BaseClass(m, m[a].isa)
    OBVIOUS
  <2>1. Kind(m, a) = KindOf(m, a, TypeOf(m, m[a].isa, base))
    BY <1>4 DEF Kind, ObjectType
  <2>2. CASE BaseNameLost(m, base)
    <3>1. ContainsValidROData(m, base) /\ BaseName(m, base) # Nil /\ ~Readable(m, BaseName(m, base))
      BY <2>2, BaseIsClass DEF BaseNameLost
    <3>2. RO(m, base) \in DOMAIN m
      BY <3>1 DEF ContainsValidROData, Readable
    <3>3. Unguarded(m)
      BY <3>1, <3>2 DEF Unguarded, BaseName
    <3> QED
      BY <1>4, <3>3
  <2>3. CASE ~BaseNameLost(m, base)
    <3>1. \A name : ClassType(name) # "fault"
      BY DEF ClassType
    <3>2. Kind(m, a) # "fault"
      BY <1>4, <2>1, <2>3, <3>1 DEF KindOf, TypeOf, ObjectClassType
    <3> QED
      BY <1>4, <3>2
  <2> QED
    BY <2>2, <2>3
<1> QED
  BY <1>1, <1>2, <1>3, <1>4

\* An object that passed has a class whose variables passed, from the second on.
LEMMA ValidObjectIs ==
  ASSUME NEW m, NEW a, IsValidObject(m, a), m[RO(m, m[a].isa)].ivars # Nil
  PROVE  LET list == m[RO(m, m[a].isa)].ivars IN
         /\ a \in DOMAIN m /\ list \in DOMAIN m
         /\ \A i \in 2..Len(m[list].ivar) : IsValidIvar(m[list].ivar[i])
  BY DEF IsValidObject, IsValidClass, ContainsValidIvarData, Readable

LEMMA IvarCountIs ==
  ASSUME NEW m, IsMemory(m), NEW a, IsValidObject(m, a)
  PROVE  /\ IvarCount(m, a) \in 0..MaxIvars
         /\ IvarCount(m, a) > 0 =>
              LET list == m[RO(m, m[a].isa)].ivars IN
              list # Nil /\ list \in DOMAIN m /\ IvarCount(m, a) <= Len(m[list].ivar)
<1> USE ReportAssumption
<1> PICK list : list = m[RO(m, m[a].isa)].ivars
  OBVIOUS
<1>1. CASE list = Nil
  BY <1>1 DEF IvarCount
<1>2. CASE list # Nil
  <2>1. list \in DOMAIN m
    BY <1>2, ValidObjectIs
  <2>2. PICK n \in Nat : n = Len(m[list].ivar)
    BY <2>1 DEF IsMemory
  <2>3. IvarCount(m, a) = Min({MaxIvars, n})
    BY <1>2, <2>2 DEF IvarCount
  <2>4. Min({MaxIvars, n}) = IF n <= MaxIvars THEN n ELSE MaxIvars
    BY <2>2 DEF Min
  <2>5. PICK k \in Nat : k = MaxIvars
    OBVIOUS
  <2>6. PICK c : c = IvarCount(m, a)
    OBVIOUS
  <2>7. c = IF n <= k THEN n ELSE k
    BY <2>3, <2>4, <2>5, <2>6
  <2>8. c \in 0..k /\ c <= n
    BY <2>7
  <2> QED
    BY <1>2, <2>1, <2>2, <2>5, <2>6, <2>8
<1> QED
  BY <1>1, <1>2

\* A variable of an object that passed is one of the memory's, and passed if it is not the first.
LEMMA IvarIs ==
  ASSUME NEW m, IsMemory(m), NEW a, IsValidObject(m, a), NEW i \in 1..IvarCount(m, a)
  PROVE  /\ a \in DOMAIN m
         /\ Ivar(m, a, i) \in Variables
         /\ i # 1 => IsValidIvar(Ivar(m, a, i))
         /\ \E list \in DOMAIN m : /\ m[list].ivar # <<>> /\ i \in DOMAIN m[list].ivar
                                  /\ Ivar(m, a, i) = m[list].ivar[i]
<1> PICK list : list = m[RO(m, m[a].isa)].ivars
  OBVIOUS
<1>0. IvarCount(m, a) \in Nat /\ IvarCount(m, a) > 0
  BY IvarCountIs
<1>1. list # Nil /\ list \in DOMAIN m /\ IvarCount(m, a) <= Len(m[list].ivar)
  BY <1>0, IvarCountIs
<1>2. m[list].ivar \in Seq(Variables)
  BY <1>1 DEF IsMemory
<1>3. Len(m[list].ivar) \in Nat /\ Len(m[list].ivar) > 0 /\ m[list].ivar # <<>>
  BY <1>0, <1>1, <1>2
<1>4. i \in 1..Len(m[list].ivar)
  BY <1>0, <1>1, <1>3
<1>5. Ivar(m, a, i) = m[list].ivar[i]
  BY DEF Ivar
<1>6. a \in DOMAIN m /\ \A j \in 2..Len(m[list].ivar) : IsValidIvar(m[list].ivar[j])
  BY <1>1, ValidObjectIs
<1>7. m[list].ivar[i] \in Variables /\ i \in DOMAIN m[list].ivar
  BY <1>2, <1>4
<1>8. i # 1 => i \in 2..Len(m[list].ivar)
  BY <1>3, <1>4
<1> QED
  BY <1>1, <1>3, <1>5, <1>6, <1>7, <1>8

\* A variable is lost only if it is the first one, which nobody looked at; and none is
\* looked at for its size.
LEMMA LostIvar ==
  ASSUME NEW m, IsMemory(m), NEW a, IsValidObject(m, a), NEW i \in 1..IvarCount(m, a),
         Ivar(m, a, i).state = "lost" \/ Ivar(m, a, i).size = "over"
  PROVE  Unguarded(m)
<1>1. PICK list \in DOMAIN m : /\ m[list].ivar # <<>> /\ i \in DOMAIN m[list].ivar
                               /\ Ivar(m, a, i) = m[list].ivar[i]
  BY IvarIs
<1>2. CASE Ivar(m, a, i).size = "over"
  BY <1>1, <1>2 DEF Unguarded
<1>3. CASE Ivar(m, a, i).state = "lost"
  <2>1. i = 1
    BY <1>3, IvarIs DEF IsValidIvar
  <2> QED
    BY <1>1, <1>3, <2>1 DEF Unguarded
<1> QED
  BY <1>2, <1>3

\* In a regular memory its name can be written, at least by the writer itself, and its value.
LEMMA RegularIvar ==
  ASSUME NEW m, IsMemory(m), Regular(m), NEW a, IsValidObject(m, a), NEW i \in 1..IvarCount(m, a)
  PROVE  /\ Ivar(m, a, i).name \in {"ivar", Long, Huge}
         /\ \A x \in Values(IvarValue(m, a, i)) : x # Infinity
<1>1. PICK list \in DOMAIN m : /\ m[list].ivar # <<>> /\ i \in DOMAIN m[list].ivar
                               /\ Ivar(m, a, i) = m[list].ivar[i]
  BY IvarIs
<1>2. i = 1 => Ivar(m, a, i).name \notin {Null, Control}
  BY <1>1 DEF Regular
<1>3. Ivar(m, a, i).name \in IvarNames /\ (i # 1 => Ivar(m, a, i).name \in {"ivar", Long})
  BY IvarIs DEF Variables, IsValidIvar
<1>4. a \in DOMAIN m
  BY IvarIs
<1>5. CASE i \in DOMAIN m[a].values
  <2>1. IvarValue(m, a, i) # Infinity
    BY <1>4, <1>5 DEF Regular, IvarValue
  <2> QED
    BY <1>2, <1>3, <2>1, ReportAssumption DEF IvarNames, Values
<1>6. CASE i \notin DOMAIN m[a].values
  <2>1. IvarValue(m, a, i) = Unread
    BY <1>6 DEF IvarValue
  <2> QED
    BY <1>2, <1>3, <2>1, ReportAssumption DEF IvarNames, Values
<1> QED
  BY <1>5, <1>6

-----------------------------------------------------------------------------
\* What is left to write is about addresses of the memory; an object whose variables are
\* still to come passed for one.
JobOK(w) ==
  /\ w.do \in {"place", "memory"} => w.address \in Addresses
  /\ w.do = "ivar" => /\ IsValidObject(process.heap, w.object)
                      /\ w.index \in 1..IvarCount(process.heap, w.object)
  /\ w.do = "thread" => w.thread \in ThreadStates

Jobs(s) == /\ \E S : s \in Seq(S)
           /\ \A i \in DOMAIN s : JobOK(s[i])

\* Inside the description of an address that a limit was set for.
Inner(w) == w.do = "ivar" \/ (w.do = "memory" /\ w.name \notin {"place", "referenced_object"})
InnerOf(s) == {i \in DOMAIN s : Inner(s[i])}
Pending(s) == Cardinality(InnerOf(s))

\* It is written first.
Nested(s) == \A j \in InnerOf(s) : \A i \in 1..j - 1 : Inner(s[i]) \/ s[i].do = "close"

LEMMA Joined ==
  ASSUME NEW s, NEW t, NEW S, NEW T, s \in Seq(S), t \in Seq(T)
  PROVE  /\ s \o t \in Seq(S \cup T) /\ Len(s \o t) = Len(s) + Len(t)
         /\ Len(s) \in Nat /\ Len(t) \in Nat
         /\ DOMAIN s = 1..Len(s) /\ DOMAIN t = 1..Len(t) /\ DOMAIN (s \o t) = 1..Len(s) + Len(t)
         /\ \A i \in DOMAIN s : (s \o t)[i] = s[i]
         /\ \A i \in DOMAIN t : (s \o t)[Len(s) + i] = t[i]
<1>1. s \in Seq(S \cup T) /\ t \in Seq(S \cup T)
  OBVIOUS
<1> QED
  BY <1>1

LEMMA JoinedParts ==
  ASSUME NEW s, NEW t, NEW S, NEW T, s \in Seq(S), t \in Seq(T), NEW i \in DOMAIN (s \o t)
  PROVE  \/ i \in DOMAIN s /\ (s \o t)[i] = s[i]
         \/ i - Len(s) \in DOMAIN t /\ (s \o t)[i] = t[i - Len(s)] /\ i > Len(s)
<1>1. i \in 1..Len(s) + Len(t) /\ Len(s) \in Nat /\ Len(t) \in Nat
  BY Joined
<1>2. CASE i <= Len(s)
  BY <1>1, <1>2, Joined
<1>3. CASE i > Len(s)
  <2>1. i - Len(s) \in DOMAIN t /\ Len(s) + (i - Len(s)) = i
    BY <1>1, <1>3, Joined
  <2> QED
    BY <1>3, <2>1, Joined
<1> QED
  BY <1>1, <1>2, <1>3

LEMMA PendingFinite ==
  ASSUME NEW s, NEW S, s \in Seq(S)
  PROVE  IsFiniteSet(InnerOf(s)) /\ Pending(s) \in Nat
<1>1. DOMAIN s = 1..Len(s) /\ Len(s) \in Nat
  OBVIOUS
<1>2. IsFiniteSet(1..Len(s))
  BY <1>1, FS_Interval
<1>3. InnerOf(s) \subseteq 1..Len(s)
  BY <1>1 DEF InnerOf
<1> QED
  BY <1>2, <1>3, FS_Subset, FS_CardinalityType DEF Pending

LEMMA PendingJoined ==
  ASSUME NEW s, NEW t, NEW S, NEW T, s \in Seq(S), t \in Seq(T)
  PROVE  Pending(s \o t) = Pending(s) + Pending(t)
<1> DEFINE n == Len(s)
           B == {i \in InnerOf(s \o t) : i > n}
           f == [i \in InnerOf(t) |-> n + i]
<1>0. n \in Nat /\ InnerOf(s) \subseteq 1..n /\ InnerOf(t) \subseteq 1..Len(t)
  BY Joined DEF InnerOf
<1>1. InnerOf(s \o t) = InnerOf(s) \cup B
  BY <1>0, Joined, JoinedParts DEF InnerOf
<1>2. InnerOf(s) \cap B = {}
  BY <1>0
<1>3. IsFiniteSet(InnerOf(s)) /\ IsFiniteSet(InnerOf(t)) /\ IsFiniteSet(InnerOf(s \o t))
  <2>1. s \o t \in Seq(S \cup T)
    BY Joined
  <2> QED
    BY <2>1, PendingFinite
<1>4. IsFiniteSet(B)
  BY <1>3, FS_Subset
<1>5. Cardinality(InnerOf(s) \cup B) = Cardinality(InnerOf(s)) + Cardinality(B)
  <2> HIDE DEF B
  <2>1. Cardinality(InnerOf(s) \cup B)
          = Cardinality(InnerOf(s)) + Cardinality(B) - Cardinality(InnerOf(s) \cap B)
    BY <1>3, <1>4, FS_Union
  <2>2. Cardinality(InnerOf(s) \cap B) = 0
    BY <1>2, FS_EmptySet
  <2>3. Cardinality(InnerOf(s)) \in Nat /\ Cardinality(B) \in Nat
    BY <1>3, <1>4, FS_CardinalityType
  <2> QED
    BY <2>1, <2>2, <2>3
<1>6. Cardinality(B) = Cardinality(InnerOf(t))
  <2>1. \A i \in InnerOf(t) : n + i \in B
    BY <1>0, Joined DEF InnerOf
  <2>2. \A k \in B : \E i \in InnerOf(t) : k = n + i
    <3> SUFFICES ASSUME NEW k \in B PROVE k - n \in InnerOf(t) /\ k = n + (k - n)
      OBVIOUS
    <3>1. k \in DOMAIN (s \o t) /\ Inner((s \o t)[k]) /\ k > n /\ k \in Nat
      BY Joined DEF InnerOf
    <3>2. k \notin DOMAIN s
      BY <1>0, <3>1, Joined
    <3> QED
      BY <1>0, <3>1, <3>2, JoinedParts DEF InnerOf
  <2>3. \A i, j \in InnerOf(t) : n + i = n + j => i = j
    BY <1>0
  <2>4. f \in Bijection(InnerOf(t), B)
    <3>1. f \in [InnerOf(t) -> B]
      BY <2>1
    <3> HIDE DEF B
    <3>2. \A i, j \in InnerOf(t) : f[i] = f[j] => i = j
      BY <2>3
    <3>3. \A k \in B : \E i \in InnerOf(t) : f[i] = k
      BY <2>2
    <3> QED
      BY <3>1, <3>2, <3>3 DEF Bijection, Injection, Surjection, IsInjective
  <2> QED
    BY <1>3, <2>4, FS_Bijection DEF ExistsBijection
<1> QED
  BY <1>1, <1>5, <1>6 DEF Pending

\* The first thing to do is replaced by what follows from it.
Around(w) == ~Inner(w) /\ w.do # "close"
LEMMA HeadIs ==
  ASSUME NEW S, work \in Seq(S), work # <<>>
  PROVE  /\ Tail(work) \in Seq(S) /\ Head(work) = work[1] /\ 1 \in DOMAIN work
         /\ work = <<Head(work)>> \o Tail(work)
         /\ Len(work) = Len(Tail(work)) + 1
         /\ \A i \in DOMAIN Tail(work) : i + 1 \in DOMAIN work /\ Tail(work)[i] = work[i + 1]
  OBVIOUS

LEMMA PendingOne ==
  ASSUME NEW w PROVE <<w>> \in Seq({w}) /\ Pending(<<w>>) = IF Inner(w) THEN 1 ELSE 0
<1>1. CASE Inner(w)
  <2>1. InnerOf(<<w>>) = {1}
    BY <1>1 DEF InnerOf
  <2> QED
    BY <1>1, <2>1, FS_Singleton DEF Pending
<1>2. CASE ~Inner(w)
  <2>1. InnerOf(<<w>>) = {}
    BY <1>2 DEF InnerOf
  <2> QED
    BY <1>2, <2>1, FS_EmptySet DEF Pending
<1> QED
  BY <1>1, <1>2

LEMMA NonePending ==
  ASSUME NEW s, NEW S, s \in Seq(S)
  PROVE  Pending(s) = 0 <=> InnerOf(s) = {}
  BY PendingFinite, FS_EmptySet DEF Pending

LEMMA AroundFirst ==
  ASSUME NEW S, work \in Seq(S), work # <<>>, Nested(work), Around(Head(work))
  PROVE  InnerOf(work) = {} /\ Pending(work) = 0
<1>1. \A j \in InnerOf(work) : j \in DOMAIN work /\ j # 1
  BY HeadIs DEF InnerOf, Around
<1>2. \A j \in DOMAIN work : j # 1 => 1 \in 1..j - 1
  BY HeadIs
<1>3. InnerOf(work) = {}
  BY <1>1, <1>2, HeadIs DEF Nested, Around
<1> QED
  BY <1>3, NonePending

LEMMA Replaced ==
  ASSUME Jobs(work), work # <<>>, Nested(work), NEW s, Jobs(s), work' = s \o Tail(work), process' = process,
         \/ \A i \in DOMAIN s : Inner(s[i]) \/ s[i].do = "close"
         \/ Around(Head(work)) /\ InnerOf(s) = {}
  PROVE  /\ Jobs(work)' /\ Nested(work)'
         /\ Pending(work) \in Nat /\ Pending(s) \in Nat
         /\ Pending(work)' = Pending(work) + Pending(s) - (IF Inner(Head(work)) THEN 1 ELSE 0)
         /\ Around(Head(work)) => Pending(work) = 0
<1> PICK S, T : work \in Seq(S) /\ s \in Seq(T)
  BY DEF Jobs
<1> DEFINE t == Tail(work)
<1>t. t \in Seq(S)
  BY HeadIs
<1>1. Pending(work)' = Pending(s) + Pending(t)
  BY <1>t, PendingJoined
<1>2. Pending(work) = Pending(<<Head(work)>>) + Pending(t)
  BY <1>t, HeadIs, PendingOne, PendingJoined
<1>3. Pending(work) \in Nat /\ Pending(s) \in Nat /\ Pending(t) \in Nat
  BY <1>t, PendingFinite
<1>4. Pending(work)' = Pending(work) + Pending(s) - (IF Inner(Head(work)) THEN 1 ELSE 0)
  BY <1>1, <1>2, <1>3, PendingOne
<1>5. Around(Head(work)) => Pending(work) = 0
  BY AroundFirst
<1>6. Jobs(work)'
  <2>1. work' \in Seq(T \cup S)
    BY <1>t, Joined
  <2>2. \A i \in DOMAIN work' : JobOK(work'[i])
    <3>1. \A i \in DOMAIN s : JobOK(s[i])
      BY DEF Jobs
    <3>2. \A i \in DOMAIN t : JobOK(t[i])
      BY HeadIs DEF Jobs
    <3> HIDE DEF t
    <3> QED
      BY <1>t, <3>1, <3>2, JoinedParts DEF t
  <2>3. \A w : JobOK(w) => JobOK(w)'
    BY DEF JobOK
  <2> QED
    BY <2>1, <2>2, <2>3 DEF Jobs
<1>7. Nested(work)'
  <2>1. CASE Around(Head(work)) /\ InnerOf(s) = {}
    <3>1. Pending(s) = 0 /\ Pending(work) = 0
      BY <2>1, <1>5, NonePending
    <3>2. Pending(work)' = 0
      BY <2>1, <3>1, <1>4 DEF Around
    <3>3. work' \in Seq(T \cup S)
      BY <1>t, Joined
    <3>4. InnerOf(work') = {}
      BY <3>2, <3>3, NonePending
    <3> QED
      BY <3>4 DEF Nested
  <2>2. CASE \A i \in DOMAIN s : Inner(s[i]) \/ s[i].do = "close"
    <3> SUFFICES ASSUME NEW j \in InnerOf(work'), NEW i \in 1..j - 1
                 PROVE  Inner(work'[i]) \/ work'[i].do = "close"
      BY DEF Nested
    <3>0. j \in 1..Len(s) + Len(t) /\ Inner(work'[j]) /\ Len(s) \in Nat /\ Len(t) \in Nat
          /\ DOMAIN s = 1..Len(s) /\ DOMAIN t = 1..Len(t) /\ DOMAIN work' = 1..Len(s) + Len(t)
      BY <1>t, Joined DEF InnerOf
    <3>1. CASE i <= Len(s)
      <4>1. i \in DOMAIN s
        BY <3>0, <3>1
      <4>2. work'[i] = s[i]
        BY <4>1, <1>t, Joined
      <4> QED
        BY <2>2, <4>1, <4>2
    <3>2. CASE i > Len(s)
      <4>1. i - Len(s) \in DOMAIN t /\ j - Len(s) \in DOMAIN t
        BY <3>0, <3>2
      <4>2. work'[i] = t[i - Len(s)] /\ work'[j] = t[j - Len(s)]
        BY <1>t, <4>1, Joined, <3>0
      <4>3. /\ i - Len(s) + 1 \in DOMAIN work /\ t[i - Len(s)] = work[i - Len(s) + 1]
            /\ j - Len(s) + 1 \in DOMAIN work /\ t[j - Len(s)] = work[j - Len(s) + 1]
        BY <4>1, HeadIs
      <4>4. i - Len(s) + 1 \in 1..(j - Len(s) + 1) - 1
        BY <3>0, <3>2, <4>1
      <4>5. j - Len(s) + 1 \in InnerOf(work)
        BY <3>0, <4>2, <4>3 DEF InnerOf
      <4> QED
        BY <4>2, <4>3, <4>4, <4>5 DEF Nested
    <3> QED
      BY <3>0, <3>1, <3>2
  <2> QED
    BY <2>1, <2>2
<1> QED
  BY <1>3, <1>4, <1>5, <1>6, <1>7

-----------------------------------------------------------------------------
\* Sequences of jobs.
LEMMA AsSeq ==
  \A n \in Nat : \A s : DOMAIN s = 1..n /\ s = [i \in 1..n |-> s[i]] => \E S : s \in Seq(S)
<1> SUFFICES ASSUME NEW n \in Nat, NEW s, DOMAIN s = 1..n, s = [i \in 1..n |-> s[i]]
             PROVE  s \in Seq({s[i] : i \in 1..n})
  OBVIOUS
<1> DEFINE S == {s[i] : i \in 1..n}
<1>1. s \in [1..n -> S]
  OBVIOUS
<1> HIDE DEF S
<1>2. s \in Seq(S)
  BY <1>1
<1> QED
  BY <1>2 DEF S

LEMMA NoJobs == Jobs(<<>>) /\ Pending(<<>>) = 0 /\ InnerOf(<<>>) = {}
<1>1. <<>> \in Seq({})
  OBVIOUS
<1>2. InnerOf(<<>>) = {}
  BY DEF InnerOf
<1> QED
  BY <1>1, <1>2, FS_EmptySet DEF Jobs, Pending

LEMMA OneJob == ASSUME NEW w, JobOK(w)
                PROVE  Jobs(<<w>>) /\ Pending(<<w>>) = IF Inner(w) THEN 1 ELSE 0
<1>1. \A i \in DOMAIN <<w>> : <<w>>[i] = w
  OBVIOUS
<1>2. Jobs(<<w>>)
  BY <1>1, PendingOne DEF Jobs
<1> QED
  BY <1>2, PendingOne

LEMMA JobsJoined ==
  ASSUME NEW s, NEW t, Jobs(s), Jobs(t)
  PROVE  Jobs(s \o t) /\ Pending(s \o t) = Pending(s) + Pending(t)
         /\ Pending(s) \in Nat /\ Pending(t) \in Nat
<1> PICK S, T : s \in Seq(S) /\ t \in Seq(T)
  BY DEF Jobs
<1>1. s \o t \in Seq(S \cup T)
  BY Joined
<1>2. \A i \in DOMAIN (s \o t) : JobOK((s \o t)[i])
  BY JoinedParts DEF Jobs
<1> QED
  BY <1>1, <1>2, PendingJoined, PendingFinite DEF Jobs

LEMMA CloseJob == Jobs(<<Close>>) /\ Pending(<<Close>>) = 0 /\ ~Inner(Close) /\ Close.do = "close"
<1>1. JobOK(Close) /\ ~Inner(Close) /\ Close.do = "close"
  BY DEF JobOK, Inner, Close
<1> QED
  BY <1>1, OneJob

LEMMA CloseJobs == Jobs(<<Close, Close>>) /\ InnerOf(<<Close, Close>>) = {}
<1>1. <<Close, Close>> = <<Close>> \o <<Close>>
  OBVIOUS
<1> PICK c : c = <<Close>>
  OBVIOUS
<1>2. Jobs(c \o c) /\ Pending(c \o c) = 0
  BY CloseJob, JobsJoined
<1> QED
  BY <1>1, <1>2, NonePending DEF Jobs

\* Jobs that none of is inside a description.
LEMMA AroundJobs ==
  ASSUME NEW n \in Nat, NEW s, s = [i \in 1..n |-> s[i]], \A i \in 1..n : JobOK(s[i]) /\ ~Inner(s[i])
  PROVE  Jobs(s) /\ InnerOf(s) = {}
<1>1. DOMAIN s = 1..n
  OBVIOUS
<1> QED
  BY <1>1, AsSeq DEF Jobs, InnerOf

LEMMA AroundJoined ==
  ASSUME NEW s, NEW t, Jobs(s), Jobs(t), InnerOf(s) = {}, InnerOf(t) = {}
  PROVE  Jobs(s \o t) /\ InnerOf(s \o t) = {}
<1>1. Pending(s) = 0 /\ Pending(t) = 0
  BY NonePending DEF Jobs
<1>2. Jobs(s \o t) /\ Pending(s \o t) = 0
  BY <1>1, JobsJoined
<1> QED
  BY <1>2, NonePending DEF Jobs

-----------------------------------------------------------------------------
\* The writer pays for what it is about to write: while the limit allows it to go deeper,
\* what was written and what is to come stay below the depth and the limit together.
Limits ==
  /\ contents \in Nat /\ limit \in Int
  /\ contents + Pending(work) <= Depth - 1 + MaxIvars
  /\ limit >= 2 => contents + Pending(work) <= Depth + 1 - limit
  /\ limit - Pending(work) >= 0 - Depth - 2 * MaxIvars

Working == process \in Processes /\ Jobs(work) /\ Nested(work)

ReportInv == Working /\ Limits /\ IntrospectionGuarded

LEMMA InitReport == Init => ReportInv
<1> SUFFICES ASSUME Init PROVE ReportInv
  OBVIOUS
<1>1. process \in Processes /\ work = <<>> /\ limit = 0 /\ contents = 0 /\ phase = "report"
  BY DEF Init
<1>2. Nested(<<>>)
  BY NoJobs DEF Nested
<1> QED
  BY <1>1, <1>2, NoJobs, ReportAssumption DEF ReportInv, Working, Limits, IntrospectionGuarded

\* Steps that do not touch what is left to do, ...
LEMMA Quietly ==
  ASSUME ReportInv, UNCHANGED <<process, work, limit, contents>>, phase' = "faulted" => phase = "faulted"
  PROVE  ReportInv'
<1>1. Jobs(work)'
  BY DEF ReportInv, Working, Jobs, JobOK
<1>2. Nested(work)' /\ Limits'
  BY DEF ReportInv, Working, Nested, Limits
<1> QED
  BY <1>1, <1>2 DEF ReportInv, Working, IntrospectionGuarded

\* ... begin a part of the report, ...
LEMMA Begins ==
  ASSUME ReportInv, work = <<>>, Jobs(work'), InnerOf(work') = {},
         UNCHANGED <<process, limit, contents>>, phase' # "faulted"
  PROVE  ReportInv'
<1>1. Jobs(work)'
  BY DEF ReportInv, Working, Jobs, JobOK
<1>2. Nested(work)'
  BY DEF Nested
<1>3. Pending(work)' = 0 /\ Pending(work) = 0
  BY NoJobs, NonePending DEF Jobs
<1>4. Limits'
  BY <1>3 DEF ReportInv, Limits
<1> QED
  BY <1>1, <1>2, <1>4 DEF ReportInv, Working, IntrospectionGuarded

\* ... or give up what is left.
LEMMA GivesUp ==
  ASSUME ReportInv, work' = <<>>, process' = process, contents' \in Nat, limit' \in Int,
         contents' <= Depth - 1 + MaxIvars, limit' >= 2 => contents' <= Depth + 1 - limit',
         limit' >= 0 - Depth - 2 * MaxIvars, phase' = "faulted" => Unguarded(process.heap)
  PROVE  ReportInv'
<1>1. Jobs(work)' /\ Nested(work)' /\ Pending(work)' = 0
  <2>1. Jobs(<<>>)' /\ Pending(<<>>)' = 0
    BY NoJobs DEF Jobs, JobOK, Pending, InnerOf
  <2> QED
    BY <2>1, NoJobs DEF Nested
<1>2. Limits'
  BY <1>1 DEF Limits
<1> QED
  BY <1>1, <1>2 DEF ReportInv, Working, IntrospectionGuarded

-----------------------------------------------------------------------------
\* The steps. The sections that are written at once:
LEMMA SectionStep ==
  ASSUME ReportInv,
         \/ WriteReportInfo \/ WriteBinaryImages \/ WriteSystemInfo \/ WriteError
         \/ EndCrash \/ WriteUser \/ WriteDebugInfo \/ EndReport \/ Launch
  PROVE  ReportInv'
<1>1. UNCHANGED <<process, work, limit, contents>> /\ phase' # "faulted"
  BY DEF WriteReportInfo, WriteBinaryImages, WriteSystemInfo, WriteError,
     EndCrash, WriteUser, WriteDebugInfo, EndReport, Launch, Section
<1> QED
  BY <1>1, Quietly

\* The end of the process, or of its report:
LEMMA EndStep == ASSUME ReportInv, Die \/ Recrash PROVE ReportInv'
<1> USE ReportAssumption
<1>1. work' = <<>> /\ process' = process /\ contents' = 0 /\ limit' = 0 /\ phase' # "faulted"
  BY DEF Die, Recrash, Forget
<1> QED
  BY <1>1, GivesUp

\* Sections that are written one part after the other:
LEMMA BeginProcessState == ASSUME ReportInv, WriteProcessState PROVE ReportInv'
<1>1. JobOK(Memory("referenced_object", 1)) /\ ~Inner(Memory("referenced_object", 1))
  BY DEF JobOK, Inner, Memory, Addresses, Tags
<1>2. Jobs(<<Memory("referenced_object", 1)>>) /\ InnerOf(<<Memory("referenced_object", 1)>>) = {}
  BY <1>1, OneJob, NonePending DEF Jobs
<1>3. <<Memory("referenced_object", 1), Close, Close>>
        = <<Memory("referenced_object", 1)>> \o <<Close, Close>>
  OBVIOUS
<1>4. Jobs(<<Memory("referenced_object", 1), Close, Close>>)
      /\ InnerOf(<<Memory("referenced_object", 1), Close, Close>>) = {}
  BY <1>2, <1>3, CloseJobs, AroundJoined
<1>5. Jobs(<<Close>>) /\ InnerOf(<<Close>>) = {}
  BY CloseJob, NonePending DEF Jobs
<1>6. Jobs(work') /\ InnerOf(work') = {}
  BY <1>4, <1>5, CloseJobs DEF WriteProcessState
<1> QED
  BY <1>6, Begins DEF WriteProcessState, Section

LEMMA BeginThreads == ASSUME ReportInv, WriteAllThreads PROVE ReportInv'
<1> DEFINE s == [i \in DOMAIN process.threads |-> Thread(process.threads[i])]
<1>1. process.threads \in Seq(ThreadStates)
  BY ReportAssumption DEF ReportInv, Working
<1>2. PICK n \in Nat : DOMAIN process.threads = 1..n
  BY <1>1
<1>3. \A i \in 1..n : JobOK(s[i]) /\ ~Inner(s[i])
  BY <1>1, <1>2 DEF JobOK, Inner, Thread
<1>4. s = [i \in 1..n |-> s[i]]
  BY <1>2
<1> HIDE DEF s
<1>5. Jobs(s) /\ InnerOf(s) = {}
  BY <1>3, <1>4, AroundJobs
<1>6. Jobs(<<Close>>) /\ InnerOf(<<Close>>) = {}
  BY CloseJob, NonePending DEF Jobs
<1>7. Jobs(s \o <<Close>>) /\ InnerOf(s \o <<Close>>) = {}
  BY <1>5, <1>6, AroundJoined
<1> QED
  BY <1>7, Begins DEF WriteAllThreads, Section, s

LEMMA BeginScope == ASSUME ReportInv, WriteScope PROVE ReportInv'
<1> DEFINE s == [i \in DOMAIN process.scope |-> Value(process.scope[i].name, process.scope[i].text)]
<1>1. process.scope \in Seq([name : STRING, text : Seq(STRING)])
  BY ReportAssumption DEF ReportInv, Working
<1>2. PICK n \in Nat : DOMAIN process.scope = 1..n
  BY <1>1
<1>3. \A i \in 1..n : JobOK(s[i]) /\ ~Inner(s[i])
  BY <1>2 DEF JobOK, Inner, Value
<1>4. s = [i \in 1..n |-> s[i]]
  BY <1>2
<1> HIDE DEF s
<1>5. Jobs(s) /\ InnerOf(s) = {}
  BY <1>3, <1>4, AroundJobs
<1> QED
  BY <1>5, Begins DEF WriteScope, s

LEMMA BeginBreadcrumbs == ASSUME ReportInv, WriteBreadcrumbs PROVE ReportInv'
<1> DEFINE s == [i \in DOMAIN process.crumbs |-> Value("crumb", process.crumbs[i])]
<1>1. process.crumbs \in Seq(Seq(STRING))
  BY ReportAssumption DEF ReportInv, Working
<1>2. PICK n \in Nat : DOMAIN process.crumbs = 1..n
  BY <1>1
<1>3. \A i \in 1..n : JobOK(s[i]) /\ ~Inner(s[i])
  BY <1>2 DEF JobOK, Inner, Value
<1>4. s = [i \in 1..n |-> s[i]]
  BY <1>2
<1> HIDE DEF s
<1>5. Jobs(s) /\ InnerOf(s) = {}
  BY <1>3, <1>4, AroundJobs
<1>6. Jobs(<<Close>>) /\ InnerOf(<<Close>>) = {}
  BY CloseJob, NonePending DEF Jobs
<1>7. Jobs(s \o <<Close, Close>>) /\ InnerOf(s \o <<Close, Close>>) = {}
  BY <1>5, CloseJobs, AroundJoined
<1>8. Jobs(work') /\ InnerOf(work') = {}
  BY <1>6, <1>7 DEF WriteBreadcrumbs, s
<1> QED
  BY <1>8, Begins DEF WriteBreadcrumbs

\* Jobs that lead to others around the descriptions:
LEMMA AroundStep ==
  ASSUME ReportInv, work # <<>>, NEW s, Jobs(s), InnerOf(s) = {}, work' = s \o Tail(work),
         \/ Around(Head(work))
         \/ s = <<>>
         \/ \A i \in DOMAIN s : s[i].do = "close",
         UNCHANGED <<process, limit, contents>>, phase' = "faulted" => phase = "faulted"
  PROVE  ReportInv'
<1>1. /\ Jobs(work)' /\ Nested(work)'
      /\ Pending(work) \in Nat /\ Pending(s) \in Nat
      /\ Pending(work)' = Pending(work) + Pending(s) - (IF Inner(Head(work)) THEN 1 ELSE 0)
  BY Replaced DEF ReportInv, Working
<1>2. Pending(s) = 0
  BY NonePending DEF Jobs
<1>3. Pending(work)' <= Pending(work)
  BY <1>1, <1>2
<1>4. Limits'
  <2>1. PICK p, q : p = Pending(work) /\ q = Pending(work)'
    OBVIOUS
  <2>2. p \in Int /\ q \in Int /\ q <= p
    BY <1>1, <1>2, <1>3, <2>1
  <2> QED
    BY <2>1, <2>2, ReportAssumption DEF ReportInv, Limits
<1> QED
  BY <1>1, <1>4 DEF ReportInv, Working, IntrospectionGuarded

LEMMA FirstJob == ASSUME ReportInv, work # <<>> PROVE JobOK(Head(work)) /\ IsMemory(process.heap)
<1>1. PICK S : work \in Seq(S)
  BY DEF ReportInv, Working, Jobs
<1>2. Head(work) = work[1] /\ 1 \in DOMAIN work
  BY <1>1, HeadIs
<1> QED
  BY <1>2, ReportAssumption DEF ReportInv, Working, Jobs

LEMMA TailOnly == ASSUME work # <<>>, Jobs(work) PROVE Tail(work) = <<>> \o Tail(work)
<1>1. PICK S : work \in Seq(S)
  BY DEF Jobs
<1>2. Tail(work) \in Seq(S)
  BY <1>1, HeadIs
<1> QED
  BY <1>2

LEMMA ThreadStep == ASSUME ReportInv, WriteThread PROVE ReportInv'
<1> DEFINE t == Head(work).thread
           s == [i \in DOMAIN t.notable |-> Place(t.notable[i])]
<1>1. work # <<>> /\ Head(work).do = "thread" /\ Jobs(work)
  BY DEF WriteThread, ReportInv, Working
<1>2. t \in ThreadStates
  BY <1>1, FirstJob DEF JobOK
<1>3. t.notable \in Seq(Addresses)
  BY <1>2 DEF ThreadStates
<1>4. PICK n \in Nat : DOMAIN t.notable = 1..n
  BY <1>3
<1>5. \A i \in 1..n : JobOK(s[i]) /\ ~Inner(s[i])
  BY <1>3, <1>4 DEF JobOK, Inner, Place
<1>6. s = [i \in 1..n |-> s[i]]
  BY <1>4
<1>7. Around(Head(work))
  BY <1>1 DEF Around, Inner
<1>8. UNCHANGED <<process, limit, contents, phase>>
  BY DEF WriteThread
<1>9. work' = (s \o <<Close, Close>>) \o Tail(work) \/ work' = <<>> \o Tail(work)
  BY <1>1, TailOnly DEF WriteThread
<1> HIDE DEF s, t
<1>10. Jobs(s \o <<Close, Close>>) /\ InnerOf(s \o <<Close, Close>>) = {}
  BY <1>5, <1>6, AroundJobs, CloseJobs, AroundJoined
<1> QED
  BY <1>1, <1>7, <1>8, <1>9, <1>10, NoJobs, AroundStep

LEMMA ValueStep == ASSUME ReportInv, WriteValue \/ WriteClose PROVE ReportInv'
<1>1. work # <<>> /\ Jobs(work) /\ work' = Tail(work) /\ UNCHANGED <<process, limit, contents, phase>>
  BY DEF WriteValue, WriteClose, ReportInv, Working
<1>2. work' = <<>> \o Tail(work)
  BY <1>1, TailOnly
<1> QED
  BY <1>1, <1>2, NoJobs, AroundStep

LEMMA PlaceStep == ASSUME ReportInv, WriteIfNotable PROVE ReportInv'
<1>1. work # <<>> /\ Head(work).do = "place" /\ Jobs(work) /\ UNCHANGED <<process, limit, contents>>
  BY DEF WriteIfNotable, ReportInv, Working
<1> PICK a : a = Head(work).address
  OBVIOUS
<1>2. a \in Addresses
  BY <1>1, FirstJob DEF JobOK
<1>3. CASE Notable(a, Kind(process.heap, a)) /\ Kind(process.heap, a) = "fault"
  <2>1. work' = <<>>
    BY <1>3 DEF WriteIfNotable, Fault
  <2>2. Unguarded(process.heap)
    BY <1>2, <1>3, KindIs
  <2>3. PICK S : work \in Seq(S)
    BY <1>1 DEF Jobs
  <2>4. Pending(work) \in Nat
    BY <2>3, PendingFinite
  <2>5. /\ contents' \in Nat /\ limit' \in Int /\ contents' <= Depth - 1 + MaxIvars
        /\ limit' >= 2 => contents' <= Depth + 1 - limit'
        /\ limit' >= 0 - Depth - 2 * MaxIvars
    BY <1>1, <2>4, ReportAssumption DEF ReportInv, Limits
  <2> QED
    BY <1>1, <2>1, <2>2, <2>5, GivesUp
<1>4. CASE ~(Notable(a, Kind(process.heap, a)) /\ Kind(process.heap, a) = "fault")
  <2>1. phase' = phase /\ \E s \in {<<>>, <<Memory("place", a)>>} : work' = s \o Tail(work)
    BY <1>4 DEF WriteIfNotable
  <2>2. JobOK(Memory("place", a)) /\ ~Inner(Memory("place", a))
    BY <1>2 DEF JobOK, Inner, Memory
  <2>3. Jobs(<<Memory("place", a)>>) /\ InnerOf(<<Memory("place", a)>>) = {}
    BY <2>2, OneJob, NonePending DEF Jobs
  <2>4. Around(Head(work))
    BY <1>1 DEF Around, Inner
  <2> QED
    BY <1>1, <2>1, <2>3, <2>4, NoJobs, AroundStep
<1> QED
  BY <1>3, <1>4

\* A variable leads to at most one description.
LEMMA IvarStep == ASSUME ReportInv, WriteIvar PROVE ReportInv'
<1> PICK a, i : a = Head(work).object /\ i = Head(work).index
  OBVIOUS
<1> PICK v : v = Ivar(process.heap, a, i)
  OBVIOUS
<1>1. work # <<>> /\ Head(work).do = "ivar" /\ Jobs(work) /\ UNCHANGED <<process, limit, contents>>
  BY DEF WriteIvar, ReportInv, Working
<1>2. IsMemory(process.heap) /\ IsValidObject(process.heap, a) /\ i \in 1..IvarCount(process.heap, a)
  BY <1>1, FirstJob DEF JobOK
<1>3. CASE Fault /\ (v.state = "lost" \/ v.size = "over")
  <2>1. work' = <<>>
    BY <1>3 DEF Fault
  <2>2. Unguarded(process.heap)
    BY <1>2, <1>3, LostIvar
  <2>3. PICK S : work \in Seq(S)
    BY <1>1 DEF Jobs
  <2>4. Pending(work) \in Nat
    BY <2>3, PendingFinite
  <2>5. /\ contents' \in Nat /\ limit' \in Int /\ contents' <= Depth - 1 + MaxIvars
        /\ limit' >= 2 => contents' <= Depth + 1 - limit'
        /\ limit' >= 0 - Depth - 2 * MaxIvars
    BY <1>1, <2>4, ReportAssumption DEF ReportInv, Limits
  <2> QED
    BY <1>1, <2>1, <2>2, <2>5, GivesUp
<1> PICK w : w = Memory(v.name, IvarValue(process.heap, a, i))
  OBVIOUS
<1>4. CASE phase' = phase /\ \E s \in {<<>>, <<w>>} : work' = s \o Tail(work)
  <2>1. v.name \in IvarNames
    BY <1>2, IvarIs DEF Variables
  <2>2. IvarValue(process.heap, a, i) \in Addresses
    <3>1. a \in DOMAIN process.heap
      BY <1>2 DEF IsValidObject, Readable
    <3>2. process.heap[a].values \in Seq(Addresses)
      BY <1>2, <3>1 DEF IsMemory
    <3>3. Unread \in Addresses
      BY DEF Unread, Addresses, Tags
    <3> QED
      BY <3>2, <3>3 DEF IvarValue
  <2>3. JobOK(w) /\ Inner(w)
    BY <2>1, <2>2 DEF JobOK, Inner, Memory, IvarNames, Null, Control, Long, Huge
  <2>4. Jobs(<<w>>) /\ Pending(<<w>>) = 1
    BY <2>3, OneJob
  <2>5. PICK s \in {<<>>, <<w>>} : work' = s \o Tail(work)
    BY <1>4
  <2>6. Jobs(s) /\ Pending(s) \in 0..1
    BY <2>4, NoJobs
  <2>7. \A j \in DOMAIN s : Inner(s[j])
    BY <2>3
  <2>8. Inner(Head(work))
    BY <1>1 DEF Inner
  <2>9. /\ Jobs(work)' /\ Nested(work)' /\ Pending(work) \in Nat
        /\ Pending(work)' = Pending(work) + Pending(s) - 1
    BY <1>1, <2>5, <2>6, <2>7, <2>8, Replaced DEF ReportInv, Working
  <2>10. Pending(work)' <= Pending(work) /\ Pending(work)' \in Int
    BY <2>6, <2>9
  <2>11. Limits'
    BY <1>1, <2>9, <2>10, ReportAssumption DEF ReportInv, Limits
  <2> QED
    BY <1>1, <1>4, <2>9, <2>11 DEF ReportInv, Working, IntrospectionGuarded
<1> QED
  BY <1>3, <1>4 DEF WriteIvar

-----------------------------------------------------------------------------
\* What writeMemoryContents begins: an array's first element, or an object's variables,
\* which are paid for in advance.
LEMMA FirstObjectIs ==
  ASSUME NEW m, IsMemory(m), NEW a \in DOMAIN m, NEW kind, ~ArrayFaults(m, a, kind)
  PROVE  FirstObject(m, a, kind) = <<>> \/ \E x \in Addresses : FirstObject(m, a, kind) = <<x>>
<1>1. CASE m[a].count = 0 \/ kind = "mutable array"
  BY <1>1 DEF FirstObject
<1>2. CASE ~(m[a].count = 0 \/ kind = "mutable array")
  <2> PICK all : all = IF IsDeque(m, a, kind) THEN m[m[a].store].values ELSE m[a].values
    OBVIOUS
  <2>1. FirstObject(m, a, kind) = [i \in DOMAIN all \cap {1} |-> all[i]]
    BY <1>2 DEF FirstObject
  <2>2. all \in Seq(Addresses)
    <3>0. m[a].count \in Nat /\ m[a].values \in Seq(Addresses)
      BY DEF IsMemory
    <3>1. m[a].count > 0
      <4> PICK n \in Nat : n = m[a].count
        BY <3>0
      <4>1. n # 0
        BY <1>2
      <4> QED
        BY <4>1
    <3>2. IsDeque(m, a, kind) => m[a].store \in DOMAIN m
      BY <3>1 DEF ArrayFaults, Readable
    <3>3. \A x \in DOMAIN m : m[x].values \in Seq(Addresses)
      BY DEF IsMemory
    <3> QED
      BY <3>0, <3>2, <3>3
  <2>3. CASE 1 \in DOMAIN all
    <3>1. DOMAIN all \cap {1} = {1} /\ all[1] \in Addresses
      BY <2>2, <2>3
    <3>2. FirstObject(m, a, kind) = <<all[1]>>
      BY <2>1, <3>1
    <3> QED
      BY <3>1, <3>2
  <2>4. CASE 1 \notin DOMAIN all
    <3>1. DOMAIN all \cap {1} = {}
      BY <2>4
    <3>2. FirstObject(m, a, kind) = <<>>
      BY <2>1, <3>1
    <3> QED
      BY <3>2
  <2> QED
    BY <2>3, <2>4
<1> QED
  BY <1>1, <1>2

LEMMA ElementJobs ==
  ASSUME NEW f, f = <<>> \/ \E x \in Addresses : f = <<x>>,
         NEW s, s = [i \in DOMAIN f |-> Memory("first_object", f[i])]
  PROVE  Jobs(s) /\ Pending(s) \in 0..1 /\ \A i \in DOMAIN s : Inner(s[i])
<1>1. CASE f = <<>>
  <2>1. s = <<>>
    BY <1>1
  <2> QED
    BY <2>1, NoJobs
<1>2. CASE \E x \in Addresses : f = <<x>>
  <2> PICK x \in Addresses : f = <<x>>
    BY <1>2
  <2> PICK w : w = Memory("first_object", x)
    OBVIOUS
  <2>1. s = <<w>>
    OBVIOUS
  <2>2. JobOK(w) /\ Inner(w)
    BY DEF JobOK, Inner, Memory
  <2>3. \A i \in DOMAIN s : s[i] = w
    BY <2>1
  <2> QED
    BY <2>1, <2>2, <2>3, OneJob
<1> QED
  BY <1>1, <1>2

LEMMA IvarJobs ==
  ASSUME IsMemory(process.heap), NEW a \in Addresses, Tagged(a) \/ IsValidObject(process.heap, a)
  PROVE  /\ Jobs(Ivars(a)) /\ Pending(Ivars(a)) = Len(Ivars(a)) /\ Len(Ivars(a)) \in 0..MaxIvars
         /\ \A i \in DOMAIN Ivars(a) : Inner(Ivars(a)[i])
<1> USE ReportAssumption
<1>1. CASE Tagged(a)
  <2>1. Ivars(a) = <<>>
    BY <1>1 DEF Ivars
  <2> QED
    BY <2>1, NoJobs
<1>2. CASE ~Tagged(a)
  <2>1. PICK n \in 0..MaxIvars : n = IvarCount(process.heap, a)
    BY <1>2, IvarCountIs
  <2>2. Ivars(a) = [i \in 1..n |-> Variable(a, i)]
    BY <1>2, <2>1 DEF Ivars
  <2> PICK s : s = Ivars(a)
    OBVIOUS
  <2>3. DOMAIN s = 1..n /\ Len(s) = n /\ s = [i \in 1..n |-> s[i]]
    BY <2>2
  <2>4. \A i \in 1..n : JobOK(s[i]) /\ Inner(s[i])
    BY <1>2, <2>1, <2>2 DEF JobOK, Inner, Variable
  <2>5. InnerOf(s) = 1..n
    BY <2>3, <2>4 DEF InnerOf
  <2>6. Pending(s) = n
    BY <2>5, FS_Interval DEF Pending
  <2>7. Jobs(s)
    <3>1. \E S : s \in Seq(S)
      BY <2>1, <2>3, AsSeq
    <3> QED
      BY <2>3, <2>4, <3>1 DEF Jobs
  <2> QED
    BY <2>3, <2>4, <2>6, <2>7
<1> QED
  BY <1>1, <1>2

LEMMA ContentsJobs ==
  ASSUME IsMemory(process.heap), NEW a \in Addresses, NEW left \in Int, NEW c, NEW kind,
         kind = Kind(process.heap, a), ~Faults(a, kind, left),
         NEW more, more = Contents(c, a, kind, left)
  PROVE  /\ Jobs(more.next) /\ \A i \in DOMAIN more.next : Inner(more.next[i]) \/ more.next[i].do = "close"
         /\ \/ more.cost = 0 /\ Pending(more.next) = 0
            \/ left > 0 /\ more.cost = 0 /\ Pending(more.next) = 1
            \/ left > 0 /\ Pending(more.next) \in 0..MaxIvars /\ more.cost = 1 + Pending(more.next)
<1>1. CASE left > 0 /\ kind \in Arrays
  <2> PICK f : f = FirstObject(process.heap, a, kind)
    OBVIOUS
  <2>1. more.next = [i \in DOMAIN f |-> Memory("first_object", f[i])] /\ more.cost = 0
    BY <1>1 DEF Contents, Written, Arrays
  <2>2. a \in DOMAIN process.heap
    BY <1>1, KindIs DEF IsValidObject, Readable
  <2>3. f = <<>> \/ \E x \in Addresses : f = <<x>>
    BY <1>1, <2>2, FirstObjectIs DEF Faults
  <2>4. Jobs(more.next) /\ Pending(more.next) \in 0..1 /\ \A i \in DOMAIN more.next : Inner(more.next[i])
    BY <2>1, <2>3, ElementJobs
  <2> QED
    BY <1>1, <2>1, <2>4
<1>2. CASE left > 0 /\ kind = "unknown"
  <2> PICK s : s = Ivars(a)
    OBVIOUS
  <2>1. Tagged(a) \/ IsValidObject(process.heap, a)
    BY <1>2, KindIs
  <2>2. /\ Jobs(s) /\ Pending(s) = Len(s) /\ Len(s) \in 0..MaxIvars
        /\ \A i \in DOMAIN s : Inner(s[i])
    BY <2>1, IvarJobs
  <2>3. more.next = Append(s, Close) /\ more.cost = 1 + Len(s)
    BY <1>2 DEF Contents, Written, Arrays
  <2>4. PICK S : s \in Seq(S)
    BY <2>2 DEF Jobs
  <2>5. more.next = s \o <<Close>>
    BY <2>3, <2>4
  <2>6. Jobs(more.next) /\ Pending(more.next) = Pending(s)
    BY <2>2, <2>5, CloseJob, JobsJoined
  <2>7. \A i \in DOMAIN <<Close>> : <<Close>>[i].do = "close"
    BY CloseJob
  <2>8. <<Close>> \in Seq({Close})
    OBVIOUS
  <2>9. \A i \in DOMAIN more.next : Inner(more.next[i]) \/ more.next[i].do = "close"
    BY <2>2, <2>4, <2>5, <2>7, <2>8, JoinedParts
  <2> QED
    BY <1>2, <2>2, <2>3, <2>6, <2>9
<1>3. CASE ~(left > 0 /\ kind \in Arrays) /\ ~(left > 0 /\ kind = "unknown")
  <2>1. more.next = <<>> /\ more.cost = 0
    BY <1>3 DEF Contents, Written
  <2> QED
    BY <2>1, NoJobs
<1> QED
  BY <1>1, <1>2, <1>3

LEMMA FaultsAreUnguarded ==
  ASSUME NEW m, m = process.heap, NEW a \in Addresses, NEW left \in Int, Faults(a, Kind(m, a), left)
  PROVE  Unguarded(m)
<1> PICK kind : kind = Kind(m, a)
  OBVIOUS
<1>1. CASE kind = "fault"
  BY <1>1, KindIs
<1>2. CASE kind \in {"string", "url"} /\ StringFaults(m, a)
  <2>1. a \in DOMAIN m
    BY <1>2, KindIs DEF StringFaults, IsValidObject, Readable
  <2> QED
    BY <1>2, <2>1 DEF StringFaults, Unguarded
<1>3. CASE kind \in Arrays /\ ArrayFaults(m, a, kind)
  <2>1. a \in DOMAIN m
    BY <1>3, KindIs DEF IsValidObject, Readable
  <2> QED
    BY <1>3, <2>1 DEF ArrayFaults, IsDeque, Unguarded
<1>4. CASE kind = "number" /\ NumberFaults(m, a)
  <2>1. a \in DOMAIN m
    BY <1>4, KindIs DEF NumberFaults, IsValidObject, Readable
  <2> QED
    BY <1>4, <2>1 DEF NumberFaults, Unguarded
<1> QED
  BY <1>1, <1>2, <1>3, <1>4 DEF Faults

\* What describing one more object does to the three bounds.
LEMMA PaidInAdvance ==
  ASSUME NEW start \in Int, NEW before \in Nat, NEW p \in Nat \ {0}, NEW q \in 0..MaxIvars, NEW cost \in Nat,
         before + p <= Depth - 1 + MaxIvars, start >= 2 => before + p <= Depth + 1 - start,
         start - p >= 0 - Depth - 2 * MaxIvars,
         (cost = 0 /\ q = 0) \/ (start >= 2 /\ q <= 1 + cost /\ cost <= 1 + q),
         NEW after, after = before + 1, NEW left, left = start - 1 - cost, NEW r, r = p - 1 + q
  PROVE  /\ after \in Nat /\ left \in Int
         /\ after + r <= Depth - 1 + MaxIvars
         /\ left >= 2 => after + r <= Depth + 1 - left
         /\ left - r >= 0 - Depth - 2 * MaxIvars
<1>1. Depth \in Nat /\ MaxIvars \in Nat \ {0}
  BY ReportAssumption
<1>2. CASE cost = 0 /\ q = 0
  BY <1>1, <1>2
<1>3. CASE start >= 2 /\ q <= 1 + cost /\ cost <= 1 + q
  BY <1>1, <1>3
<1> QED
  BY <1>2, <1>3

LEMMA MemoryStep == ASSUME ReportInv, WriteMemoryContents PROVE ReportInv'
<1> USE ReportAssumption
<1> PICK w : w = Head(work)
  OBVIOUS
<1>1. work # <<>> /\ w.do = "memory" /\ Jobs(work) /\ Nested(work) /\ process' = process
  BY DEF WriteMemoryContents, ReportInv, Working
<1> PICK new \in BOOLEAN : new <=> w.name \in {"place", "referenced_object"}
  OBVIOUS
<1>start. PICK start : start = IF new THEN Depth ELSE limit
  OBVIOUS
<1>before. PICK before : before = IF new THEN 0 ELSE contents
  OBVIOUS
<1>2. PICK a \in Values(w.address) :
        WriteContents(w.name, a, Kind(process.heap, a), start - 1)
  BY <1>start DEF WriteMemoryContents
<1>3. contents' = before + 1
  BY <1>before DEF WriteMemoryContents
<1>4. a \in Addresses /\ IsMemory(process.heap)
  BY <1>1, FirstJob DEF Values, JobOK
<1>5. start \in Int /\ before \in Nat
  BY <1>start, <1>before DEF ReportInv, Limits
<1>6. Inner(w) <=> ~new
  BY <1>1 DEF Inner
<1>7. PICK p \in Nat : p = Pending(work)
  <2>1. PICK S : work \in Seq(S)
    BY <1>1 DEF Jobs
  <2> QED
    BY <2>1, PendingFinite
<1>8. new => p = 0
  <2>1. PICK S : work \in Seq(S)
    BY <1>1 DEF Jobs
  <2> QED
    BY <1>1, <1>6, <1>7, <2>1, AroundFirst DEF Around
<1>9. ~new => p > 0
  <2>1. PICK S : work \in Seq(S)
    BY <1>1 DEF Jobs
  <2>2. 1 \in DOMAIN work /\ work[1] = w
    BY <1>1, <2>1, HeadIs
  <2>3. ~new => InnerOf(work) # {}
    BY <1>6, <2>2 DEF InnerOf
  <2> QED
    BY <1>7, <2>1, <2>3, NonePending
<1>10. /\ before + p <= Depth - 1 + MaxIvars
       /\ start >= 2 => before + p <= Depth + 1 - start
       /\ start - p >= 0 - Depth - 2 * MaxIvars
  BY <1>7, <1>8, <1>start, <1>before DEF ReportInv, Limits
<1>11. CASE Faults(a, Kind(process.heap, a), start - 1)
  <2>1. work' = <<>> /\ limit' = start - 1
    BY <1>2, <1>11 DEF WriteContents, Fault
  <2>2. Unguarded(process.heap)
    BY <1>4, <1>5, <1>11, FaultsAreUnguarded
  <2>3. /\ contents' <= Depth - 1 + MaxIvars
        /\ limit' >= 2 => contents' <= Depth + 1 - limit'
        /\ limit' >= 0 - Depth - 2 * MaxIvars
    <3>1. contents' = before + 1 /\ limit' = start - 1 /\ start \in Int /\ before \in Nat /\ p \in Nat
      BY <1>3, <1>5, <1>7, <2>1
    <3>2. CASE new
      <4>1. start = Depth /\ before = 0 /\ p = 0
        BY <1>8, <1>start, <1>before, <3>2
      <4> QED
        BY <3>1, <4>1
    <3>3. CASE ~new
      <4>1. p > 0
        BY <1>9, <3>3
      <4> QED
        BY <1>10, <3>1, <4>1
    <3> QED
      BY <3>2, <3>3
  <2>4. contents' \in Nat /\ limit' \in Int
    BY <1>3, <1>5, <2>1
  <2>5. phase' = "faulted" => Unguarded(process.heap)
    BY <2>2
  <2> QED
    BY <1>1, <2>1, <2>3, <2>4, <2>5, GivesUp
<1>12. CASE ~Faults(a, Kind(process.heap, a), start - 1)
  <2> PICK described : described = Described(Object(enc, w.name), a, Kind(process.heap, a))
    OBVIOUS
  <2> PICK more : more = Contents(described, a, Kind(process.heap, a), start - 1)
    OBVIOUS
  <2>1. /\ limit' = start - 1 - more.cost /\ phase' = phase
        /\ work' = (more.next \o <<Close>>) \o Tail(work)
    BY <1>2, <1>12 DEF WriteContents
  <2>2. start - 1 \in Int
    BY <1>5
  <2>3. /\ Jobs(more.next) /\ \A i \in DOMAIN more.next : Inner(more.next[i]) \/ more.next[i].do = "close"
        /\ \/ more.cost = 0 /\ Pending(more.next) = 0
           \/ start - 1 > 0 /\ more.cost = 0 /\ Pending(more.next) = 1
           \/ start - 1 > 0 /\ Pending(more.next) \in 0..MaxIvars /\ more.cost = 1 + Pending(more.next)
    BY <1>4, <1>12, <2>2, ContentsJobs
  <2> PICK s : s = more.next \o <<Close>>
    OBVIOUS
  <2>4. Jobs(s) /\ Pending(s) = Pending(more.next)
    <3>1. PICK x, y : x = more.next /\ y = <<Close>>
      OBVIOUS
    <3>2. Jobs(x) /\ Jobs(y) /\ Pending(y) = 0
      BY <2>3, <3>1, CloseJob
    <3>3. Jobs(x \o y) /\ Pending(x \o y) = Pending(x) + Pending(y) /\ Pending(x) \in Nat
      BY <3>2, JobsJoined
    <3>4. s = x \o y
      BY <3>1
    <3>5. Pending(x) + Pending(y) = Pending(x)
      BY <3>2, <3>3
    <3> QED
      BY <3>1, <3>3, <3>4, <3>5
  <2>5. \A i \in DOMAIN s : Inner(s[i]) \/ s[i].do = "close"
    <3>1. PICK S : more.next \in Seq(S)
      BY <2>3 DEF Jobs
    <3>2. \A i \in DOMAIN <<Close>> : <<Close>>[i].do = "close"
      BY CloseJob
    <3>3. <<Close>> \in Seq({Close})
      OBVIOUS
    <3> TAKE i \in DOMAIN s
    <3> PICK first : first = more.next
      OBVIOUS
    <3>4. \/ i \in DOMAIN first /\ s[i] = first[i]
          \/ i - Len(first) \in DOMAIN <<Close>> /\ s[i] = <<Close>>[i - Len(first)]
      BY <3>1, <3>3, JoinedParts
    <3> QED
      BY <2>3, <3>2, <3>4
  <2>6. /\ Jobs(work)' /\ Nested(work)' /\ Pending(s) \in Nat
        /\ Pending(work)' = p + Pending(s) - (IF Inner(w) THEN 1 ELSE 0)
    BY <1>1, <1>7, <2>1, <2>4, <2>5, Replaced
  <2>7. PICK q, r : q = Pending(s) /\ r = Pending(work)'
    OBVIOUS
  <2>8. r = (IF new THEN 0 ELSE p - 1) + q /\ q \in Nat /\ r \in Int
    BY <1>6, <1>7, <1>8, <2>6, <2>7
  <2>9. PICK cost : cost = more.cost
    OBVIOUS
  <2>10. \/ cost = 0 /\ q = 0
         \/ start - 1 > 0 /\ cost = 0 /\ q = 1
         \/ start - 1 > 0 /\ q \in 0..MaxIvars /\ cost = 1 + q
    BY <2>3, <2>4, <2>7, <2>9
  <2>11. /\ contents' \in Nat /\ limit' \in Int
         /\ contents' + r <= Depth - 1 + MaxIvars
         /\ limit' >= 2 => contents' + r <= Depth + 1 - limit'
         /\ limit' - r >= 0 - Depth - 2 * MaxIvars
    <3>1. contents' = before + 1 /\ limit' = start - 1 - cost
      BY <1>3, <2>1, <2>9
    <3>2. CASE new
      BY <1>5, <1>start, <1>before, <2>8, <2>10, <3>1, <3>2
    <3>3. CASE ~new
      <4>1. r = p - 1 + q /\ p \in Nat \ {0}
        BY <1>9, <2>8, <3>3
      <4>2. /\ q \in 0..MaxIvars /\ cost \in Nat
            /\ (cost = 0 /\ q = 0) \/ (start >= 2 /\ q <= 1 + cost /\ cost <= 1 + q)
        BY <1>5, <2>10
      <4> QED
        BY <1>5, <1>10, <3>1, <4>1, <4>2, PaidInAdvance
    <3> QED
      BY <3>2, <3>3
  <2>12. Limits'
    BY <2>7, <2>11 DEF Limits
  <2> QED
    BY <1>1, <2>1, <2>6, <2>12 DEF ReportInv, Working, IntrospectionGuarded
<1> QED
  BY <1>11, <1>12

-----------------------------------------------------------------------------
LEMMA ReportInvariant == Spec => []ReportInv
<1>1. Init => ReportInv
  BY InitReport
<1>2. ASSUME ReportInv, [Next]_vars PROVE ReportInv'
  <2>1. CASE UNCHANGED vars
    <3>1. UNCHANGED <<process, work, limit, contents>> /\ phase' = phase
      BY <2>1 DEF vars
    <3>2. phase' = "faulted" => phase = "faulted"
      BY <3>1
    <3> QED
      BY <1>2, <3>1, <3>2, Quietly
  <2>2. CASE \/ WriteReportInfo \/ WriteBinaryImages \/ WriteSystemInfo \/ WriteError
             \/ EndCrash \/ WriteUser \/ WriteDebugInfo \/ EndReport \/ Launch
    BY <1>2, <2>2, SectionStep
  <2>3. CASE Die \/ Recrash
    BY <1>2, <2>3, EndStep
  <2>4. CASE WriteProcessState
    BY <1>2, <2>4, BeginProcessState
  <2>5. CASE WriteAllThreads
    BY <1>2, <2>5, BeginThreads
  <2>6. CASE WriteScope
    BY <1>2, <2>6, BeginScope
  <2>7. CASE WriteBreadcrumbs
    BY <1>2, <2>7, BeginBreadcrumbs
  <2>8. CASE WriteThread
    BY <1>2, <2>8, ThreadStep
  <2>9. CASE WriteValue \/ WriteClose
    BY <1>2, <2>9, ValueStep
  <2>10. CASE WriteIfNotable
    BY <1>2, <2>10, PlaceStep
  <2>11. CASE WriteMemoryContents
    BY <1>2, <2>11, MemoryStep
  <2>12. CASE WriteIvar
    BY <1>2, <2>12, IvarStep
  <2> QED
    BY <1>2, <2>1, <2>2, <2>3, <2>4, <2>5, <2>6, <2>7, <2>8, <2>9, <2>10, <2>11, <2>12 DEF Next
<1> QED
  BY <1>1, <1>2, PTL DEF Spec

\* sentrycrashobjc_objectType, containsValidIvarData and what reads strings and arrays, in
\* memory damaged in any way: the writer faults only where the code does not look first.
THEOREM FaultsAreGuarded == Spec => []IntrospectionGuarded
<1>1. ReportInv => IntrospectionGuarded
  BY DEF ReportInv
<1> QED
  BY <1>1, ReportInvariant, PTL

\* writeMemoryContents and its limit, for every depth and every memory, cyclic or not: one
\* address leads to fewer than Depth + MaxIvars descriptions, and the limit stays bounded.
THEOREM DescriptionsAreBounded == Spec => []MemoryBounded
<1>1. ASSUME ReportInv PROVE MemoryBounded
  <2>1. PICK S : work \in Seq(S)
    BY <1>1 DEF ReportInv, Working, Jobs
  <2>2. Pending(work) \in Nat
    BY <2>1, PendingFinite
  <2> QED
    BY <1>1, <2>2, ReportAssumption DEF ReportInv, Limits, MemoryBounded
<1> QED
  BY <1>1, ReportInvariant, PTL

-----------------------------------------------------------------------------
\* Induction, as a fact about sets.

\* A set of natural numbers has a least one.
LEMMA LeastOf == ASSUME NEW S \in SUBSET Nat, S # {} PROVE \E n \in S : \A m \in S : n <= m
<1>1. PICK n \in S : \A m \in S : ~ (<<m, n>> \in OpToRel(<, Nat))
  BY NatLessThanWellFounded, WFMin
<1>2. ASSUME NEW m \in S PROVE n <= m
  <2>1. m \in Nat /\ n \in Nat OBVIOUS
  <2>2. ASSUME m < n PROVE FALSE
    <3>1. <<m, n>> \in OpToRel(<, Nat) BY <2>1, <2>2, Zenon DEF OpToRel
    <3>. QED BY <1>1, <3>1
  <2>. QED BY <2>1, <2>2
<1>. QED BY <1>2

LEMMA Induction ==
  ASSUME NEW S \in SUBSET Nat, 0 \in S, \A n \in S : n + 1 \in S
  PROVE  S = Nat
<1>1. SUFFICES ASSUME Nat \ S # {} PROVE FALSE OBVIOUS
<1>. DEFINE R == Nat \ S
<1>2. R \in SUBSET Nat /\ R # {} BY <1>1
<1>. HIDE DEF R
<1>3. PICK n \in R : \A m \in R : n <= m BY <1>2, LeastOf
<1>4. n \in Nat /\ n \notin S /\ \A m \in Nat : m \notin S => n <= m BY <1>3 DEF R
<1>. QED BY <1>4

-----------------------------------------------------------------------------
\* Reading by the grammar, token by token and without an error, what the encoder can write.
Reading(text, run) ==
  /\ run[0] = Start
  /\ \A i \in 1..Len(text) : run[i] = Grammar(run[i - 1], text[i]) /\ run[i].want # "error" /\ text[i] # Control
Reads(text, s) ==
  /\ \E T : text \in Seq(T)
  /\ \E run : Reading(text, run) /\ run[Len(text)] = s

LEMMA ReadsNothing == Reads(<<>>, Start)
<1>. DEFINE run == [i \in {0} |-> Start]
<1>1. Reading(<<>>, run) /\ run[Len(<<>>)] = Start BY DEF Reading
<1>2. <<>> \in Seq({}) OBVIOUS
<1>. QED BY <1>1, <1>2 DEF Reads

LEMMA ReadsOne ==
  ASSUME NEW text, NEW s, NEW t, t # Control, Reads(text, s), Grammar(s, t).want # "error"
  PROVE  Reads(text \o <<t>>, Grammar(s, t))
<1>1. PICK T : text \in Seq(T) BY DEF Reads
<1>2. PICK run : Reading(text, run) /\ run[Len(text)] = s BY DEF Reads
<1>3. PICK r : r = Grammar(s, t) OBVIOUS
<1>4. PICK long : long = text \o <<t>> OBVIOUS
<1>5. /\ long \in Seq(T \cup {t}) /\ Len(long) = Len(text) + 1 /\ Len(text) \in Nat
      /\ \A i \in 1..Len(text) : long[i] = text[i]
      /\ long[Len(text) + 1] = t
  BY <1>1, <1>4
<1>. DEFINE more == [i \in 0..Len(text) + 1 |-> IF i = Len(text) + 1 THEN r ELSE run[i]]
<1>6. more[Len(long)] = r /\ more[0] = run[0] BY <1>5
<1>7. ASSUME NEW i \in 1..Len(long)
      PROVE  more[i] = Grammar(more[i - 1], long[i]) /\ more[i].want # "error" /\ long[i] # Control
  <2>1. CASE i = Len(text) + 1 BY <2>1, <1>5, <1>2, <1>3
  <2>2. CASE i # Len(text) + 1
    <3>1. i \in 1..Len(text) /\ i - 1 \in 0..Len(text) /\ i \in 0..Len(text) + 1 /\ i - 1 # Len(text) + 1
      BY <2>2, <1>5
    <3>2. more[i] = run[i] /\ more[i - 1] = run[i - 1] BY <3>1, <2>2
    <3>. QED BY <3>1, <3>2, <1>2, <1>5 DEF Reading
  <2>. QED BY <2>1, <2>2
<1>. HIDE DEF more
<1>8. Reading(long, more) BY <1>2, <1>6, <1>7 DEF Reading
<1>. QED BY <1>3, <1>4, <1>5, <1>6, <1>8 DEF Reads

-----------------------------------------------------------------------------
\* Sequences, and stacks of marks.
LEMMA JoinedToNothing == ASSUME NEW T, NEW s \in Seq(T) PROVE s \o <<>> = s
OBVIOUS

LEMMA AppendedPair ==
  ASSUME NEW S, NEW s \in Seq(S), NEW a \in S, NEW b \in S
  PROVE  Append(Append(s, a), b) = s \o <<a, b>>
OBVIOUS

LEMMA AppendedTwice ==
  ASSUME NEW T, NEW s \in Seq(T), NEW a, NEW b
  PROVE  (s \o <<a>>) \o <<b>> = s \o <<a, b>>
<1>1. PICK S : S = T \cup {a, b} OBVIOUS
<1>2. Len(s) \in Nat /\ \A i \in 1..Len(s) : s[i] \in S BY <1>1
<1>3. s \in Seq(S) BY <1>1, <1>2
<1>4. a \in S /\ b \in S BY <1>1
<1>5. ASSUME NEW x \in S, NEW y \in S PROVE (s \o <<x>>) \o <<y>> = s \o <<x, y>>
  <2>1. s \o <<x>> = Append(s, x) BY <1>3
  <2>2. Append(s, x) \in Seq(S) BY <1>3
  <2>3. (s \o <<x>>) \o <<y>> = Append(Append(s, x), y) BY <2>1, <2>2
  <2>. QED BY <2>3, <1>3, AppendedPair
<1>. QED BY <1>4, <1>5

LEMMA OneIsSome == ASSUME NEW o \in Seq(Marks) PROVE Len(o) = 1 => o # <<>>
OBVIOUS

LEMMA Pushed ==
  ASSUME NEW o \in Seq(Marks), NEW m \in Marks
  PROVE  /\ Append(o, m) \in Seq(Marks) /\ Append(o, m) # <<>> /\ Len(Append(o, m)) = Len(o) + 1
         /\ Last(Append(o, m)) = m /\ Front(Append(o, m)) = o
<1>1. PICK p : p = Append(o, m) OBVIOUS
<1>2. p \in Seq(Marks) /\ Len(p) = Len(o) + 1 /\ Len(o) \in Nat /\ p[Len(o) + 1] = m
      /\ \A i \in 1..Len(o) : p[i] = o[i]
  BY <1>1
<1>3. p # <<>> /\ Last(p) = m BY <1>2 DEF Last
<1>4. Front(p) = SubSeq(p, 1, Len(o)) BY <1>2 DEF Front
<1>5. SubSeq(p, 1, Len(o)) = o BY <1>2
<1>. QED BY <1>1, <1>2, <1>3, <1>4, <1>5

LEMMA Popped ==
  ASSUME NEW o \in Seq(Marks), o # <<>>
  PROVE  /\ Front(o) \in Seq(Marks) /\ Last(o) \in Marks /\ Append(Front(o), Last(o)) = o
         /\ Len(Front(o)) = Len(o) - 1 /\ Len(o) \in Nat \ {0}
<1>1. Len(o) \in Nat \ {0} OBVIOUS
<1>2. PICK f : f = SubSeq(o, 1, Len(o) - 1) OBVIOUS
<1>3. f \in Seq(Marks) /\ Len(f) = Len(o) - 1 /\ \A i \in 1..Len(o) - 1 : f[i] = o[i]
  <2>1. PICK n \in Nat : n = Len(o) - 1 BY <1>1
  <2>2. f = SubSeq(o, 1, n) /\ n \in 0..Len(o) BY <1>1, <1>2, <2>1
  <2>3. f = [i \in 1..n |-> o[i]] BY <2>2
  <2>4. \A i \in 1..n : o[i] \in Marks BY <2>2
  <2>. QED BY <2>1, <2>3, <2>4
<1>4. Front(o) = f BY <1>2 DEF Front
<1>5. Last(o) = o[Len(o)] BY DEF Last
<1>6. Append(f, o[Len(o)]) = o BY <1>1, <1>3
<1>. QED BY <1>1, <1>3, <1>4, <1>5, <1>6

-----------------------------------------------------------------------------
\* What the encoder has written: a text the grammar has read up to where the encoder is.
Want(c) ==
  IF c.open = <<>> THEN (IF c.first = TRUE THEN "value" ELSE "end")
  ELSE IF c.first # TRUE THEN "after"
  ELSE IF Last(c.open) = "{" THEN "first name" ELSE "first value"
IsEncoder(c) == c \in [open : {c.open}, first : {c.first}, out : {c.out}, ok : {c.ok}]
At(c, open, keys) ==
  /\ IsEncoder(c) /\ c.open = open /\ open \in Seq(Marks) /\ c.first \in BOOLEAN
  /\ Reads(c.out, State(open, Want(c), keys))

LEMMA Emitted ==
  ASSUME NEW c, IsEncoder(c), NEW t
  PROVE  /\ IsEncoder(Emit(c, t)) /\ Emit(c, t).out = c.out \o t
         /\ Emit(c, t).open = c.open /\ Emit(c, t).first = c.first /\ Emit(c, t).ok = c.ok
BY DEF IsEncoder, Emit

LEMMA FirstCleared ==
  ASSUME NEW c, IsEncoder(c), NEW d, d = [c EXCEPT !.first = FALSE]
  PROVE  IsEncoder(d) /\ d.open = c.open /\ d.first = FALSE /\ d.out = c.out /\ d.ok = c.ok
BY DEF IsEncoder

LEMMA OkSet ==
  ASSUME NEW c, IsEncoder(c), NEW d, d = [c EXCEPT !.ok = TRUE]
  PROVE  IsEncoder(d) /\ d.open = c.open /\ d.first = c.first /\ d.out = c.out /\ d.ok = TRUE
BY DEF IsEncoder

\* A name is a key of the outermost object if that is what is open.
KeysAt(o, name, keys) == IF Len(o) = 1 /\ Last(o) = "{" THEN Append(keys, name) ELSE keys
\* An element can follow, under that name.
Writable(t)        == Strings(t) /\ t # Control
InAnObject(o)      == o # <<>> /\ Last(o) = "{"
Fits(c, o, name)   == (o # <<>> \/ c.first = TRUE) /\ (InAnObject(o) => Writable(name))
Started(d, o, keys) ==
  /\ IsEncoder(d) /\ d.open = o /\ d.first = FALSE /\ d.ok = TRUE
  /\ \E w \in {"value", "first value"} : Reads(d.out, State(o, w, keys))

LEMMA MarksWritten == \A t \in Punctuation : t # Control
BY DEF Punctuation, Control

LEMMA CommaReads ==
  ASSUME NEW c, NEW o, NEW keys, At(c, o, keys), NEW name, Fits(c, o, name), NEW u,
         u = c.out \o (IF c.first = TRUE THEN <<>> ELSE <<",">>)
  PROVE  \E w : /\ Reads(u, State(o, w, keys))
                /\ w \in (IF InAnObject(o) THEN {"first name", "name"} ELSE {"first value", "value"})
<1>1. o \in Seq(Marks) /\ c.open = o /\ c.first \in BOOLEAN /\ Reads(c.out, State(o, Want(c), keys))
  BY DEF At
<1>2. CASE c.first = TRUE
  <2>1. PICK T : c.out \in Seq(T) BY <1>1 DEF Reads
  <2>2. u = c.out \o <<>> BY <1>2
  <2>3. u = c.out BY <2>1, <2>2, JoinedToNothing
  <2>4. PICK w : w = Want(c) OBVIOUS
  <2>5. w \in (IF InAnObject(o) THEN {"first name"} ELSE {"first value", "value"})
    BY <2>4, <1>1, <1>2 DEF Want, InAnObject
  <2>. QED BY <2>3, <2>4, <2>5, <1>1
<1>3. CASE c.first # TRUE
  <2>1. u = c.out \o <<",">> BY <1>3
  <2>2. o # <<>> BY <1>3 DEF Fits
  <2>3. Want(c) = "after" BY <1>1, <1>3, <2>2 DEF Want
  <2>4. Last(o) \in Marks BY <1>1, <2>2, Popped
  <2>5. PICK w : w = IF Last(o) = "{" THEN "name" ELSE "value" OBVIOUS
  <2>6. Grammar(State(o, "after", keys), ",") = State(o, w, keys)
    BY <2>2, <2>4, <2>5 DEF Grammar, Closes, Closer, State, Marks
  <2>7. State(o, w, keys).want # "error" BY <2>5 DEF State
  <2>9. "," # Control BY MarksWritten DEF Punctuation
  <2>8. Reads(u, State(o, w, keys)) BY <1>1, <2>1, <2>3, <2>6, <2>7, <2>9, ReadsOne
  <2>. QED BY <2>2, <2>5, <2>8 DEF InAnObject
<1>. QED BY <1>2, <1>3

LEMMA NameReads ==
  ASSUME NEW u, NEW o, NEW keys, NEW w \in {"name", "first name"}, Reads(u, State(o, w, keys)),
         InAnObject(o), NEW name, Writable(name)
  PROVE  Reads(u \o <<name, ":">>, State(o, "value", KeysAt(o, name, keys)))
<1>1. PICK k : k = KeysAt(o, name, keys) OBVIOUS
<1>2. Last(o) = "{" /\ name # "}" /\ Strings(name) /\ name # Control
  BY DEF InAnObject, Writable, Strings, NotStrings, Punctuation
<1>3. Grammar(State(o, w, keys), name) = State(o, "colon", k)
  BY <1>1, <1>2 DEF Grammar, Closes, Closer, State, KeysAt, Marks
<1>4. State(o, "colon", k).want # "error" BY DEF State
<1>5. Reads(u \o <<name>>, State(o, "colon", k)) BY <1>2, <1>3, <1>4, ReadsOne
<1>6. Grammar(State(o, "colon", k), ":") = State(o, "value", k)
  BY <1>2 DEF Grammar, Closes, Closer, State, Marks
<1>7. State(o, "value", k).want # "error" BY DEF State
<1>11. ":" # Control BY MarksWritten DEF Punctuation
<1>8. Reads((u \o <<name>>) \o <<":">>, State(o, "value", k)) BY <1>5, <1>6, <1>7, <1>11, ReadsOne
<1>9. PICK T : u \in Seq(T) BY DEF Reads
<1>10. (u \o <<name>>) \o <<":">> = u \o <<name, ":">> BY <1>9, AppendedTwice
<1>. QED BY <1>1, <1>8, <1>10

LEMMA BeginElementReads ==
  ASSUME NEW c, NEW o, NEW keys, At(c, o, keys), NEW name, Fits(c, o, name)
  PROVE  Started(BeginElement(c, name), o, KeysAt(o, name, keys))
<1>1. PICK t : t = IF c.first = TRUE THEN <<>> ELSE <<",">> OBVIOUS
<1>2. PICK b : b = [c EXCEPT !.first = FALSE] OBVIOUS
<1>3. PICK d : d = Emit(b, t) OBVIOUS
<1>4. IsEncoder(c) /\ c.open = o /\ c.first \in BOOLEAN /\ o \in Seq(Marks) BY DEF At
<1>5. IsEncoder(b) /\ b.open = o /\ b.first = FALSE /\ b.out = c.out BY <1>2, <1>4, FirstCleared
<1>6. IsEncoder(d) /\ d.open = o /\ d.first = FALSE /\ d.out = c.out \o t BY <1>3, <1>5, Emitted
<1>7. t = IF c.first THEN <<>> ELSE <<",">> BY <1>1, <1>4
<1>8. PICK w : /\ Reads(d.out, State(o, w, keys))
               /\ w \in (IF InAnObject(o) THEN {"first name", "name"} ELSE {"first value", "value"})
  BY <1>1, <1>6, CommaReads
<1>9. InObject(c) <=> InAnObject(o) BY <1>4 DEF InObject, InAnObject
<1>10. PICK e : e = BeginElement(c, name) OBVIOUS
<1>11. CASE ~InAnObject(o)
  <2>1. e = [d EXCEPT !.ok = TRUE] BY <1>2, <1>3, <1>7, <1>9, <1>10, <1>11 DEF BeginElement
  <2>2. IsEncoder(e) /\ e.open = o /\ e.first = FALSE /\ e.out = d.out /\ e.ok = TRUE BY <1>6, <2>1, OkSet
  <2>3. KeysAt(o, name, keys) = keys BY <1>4, <1>11, OneIsSome DEF KeysAt, InAnObject
  <2>. QED BY <1>8, <1>10, <1>11, <2>2, <2>3 DEF Started
<1>12. CASE InAnObject(o)
  <2>1. Writable(name) BY <1>12 DEF Fits
  <2>2. name # Null /\ name # Control BY <2>1 DEF Writable, Strings, NotStrings
  <2>3. PICK f : f = Emit(d, <<name, ":">>) OBVIOUS
  <2>4. e = [f EXCEPT !.ok = TRUE] BY <1>2, <1>3, <1>7, <1>9, <1>10, <1>12, <2>2, <2>3 DEF BeginElement
  <2>5. IsEncoder(f) /\ f.open = o /\ f.first = FALSE /\ f.out = d.out \o <<name, ":">>
    BY <1>6, <2>3, Emitted
  <2>6. IsEncoder(e) /\ e.open = o /\ e.first = FALSE /\ e.out = f.out /\ e.ok = TRUE BY <2>4, <2>5, OkSet
  <2>7. Reads(f.out, State(o, "value", KeysAt(o, name, keys))) BY <1>8, <1>12, <2>1, <2>5, NameReads
  <2>. QED BY <1>10, <2>6, <2>7 DEF Started
<1>. QED BY <1>11, <1>12

\* An element is written in its place, and leaves what is open as it is.
LEMMA AddElementWrites ==
  ASSUME NEW c, NEW o, NEW keys, At(c, o, keys), NEW name, Fits(c, o, name), NEW value, Scalar(value)
  PROVE  At(AddElement(c, name, value), o, KeysAt(o, name, keys))
<1>1. PICK d : d = BeginElement(c, name) OBVIOUS
<1>2. PICK k : k = KeysAt(o, name, keys) OBVIOUS
<1>3. Started(d, o, k) BY <1>1, <1>2, BeginElementReads
<1>4. IsEncoder(d) /\ d.open = o /\ d.first = FALSE /\ d.ok = TRUE BY <1>3 DEF Started
<1>5. PICK w \in {"value", "first value"} : Reads(d.out, State(o, w, k)) BY <1>3 DEF Started
<1>6. PICK v : v = IF value = Control THEN "cut" ELSE value OBVIOUS
<1>7. Scalar(v) /\ v # Control
  BY <1>6 DEF Scalar, Strings, NotStrings, Punctuation, Numbers, Number, Now, Literal, Junk, Null, Control
<1>8. PICK b : b = Emit(d, <<v>>) OBVIOUS
<1>9. PICK e : e = AddElement(c, name, value) OBVIOUS
<1>10. \E x \in BOOLEAN : e = [b EXCEPT !.ok = x] BY <1>1, <1>4, <1>6, <1>8, <1>9 DEF AddElement
<1>11. IsEncoder(b) /\ b.open = o /\ b.first = FALSE /\ b.out = d.out \o <<v>> BY <1>4, <1>8, Emitted
<1>12. IsEncoder(e) /\ e.open = o /\ e.first = FALSE /\ e.out = d.out \o <<v>> BY <1>10, <1>11 DEF IsEncoder
<1>13. v \notin {"{", "[", "]", "}"}
  BY <1>7 DEF Scalar, Strings, NotStrings, Punctuation, Numbers, Number, Now, Literal
<1>14. Grammar(State(o, w, k), v) = State(o, IF o = <<>> THEN "end" ELSE "after", k)
  BY <1>7, <1>13 DEF Grammar, Closes, Closer, State, After, Marks
<1>15. Want(e) = IF o = <<>> THEN "end" ELSE "after" BY <1>12 DEF Want
<1>16. State(o, Want(e), k).want # "error" BY <1>15 DEF State
<1>17. Reads(e.out, State(o, Want(e), k)) BY <1>5, <1>7, <1>12, <1>14, <1>15, <1>16, ReadsOne
<1>18. o \in Seq(Marks) BY DEF At
<1>. QED BY <1>2, <1>9, <1>12, <1>17, <1>18 DEF At

\* A container is opened in its place.
LEMMA BeginContainerWrites ==
  ASSUME NEW c, NEW o, NEW keys, At(c, o, keys), NEW name, Fits(c, o, name), NEW m \in Marks
  PROVE  At(BeginContainer(c, name, m), Append(o, m), KeysAt(o, name, keys))
<1>1. PICK d : d = BeginElement(c, name) OBVIOUS
<1>2. PICK k : k = KeysAt(o, name, keys) OBVIOUS
<1>3. Started(d, o, k) BY <1>1, <1>2, BeginElementReads
<1>4. IsEncoder(d) /\ d.open = o /\ d.first = FALSE /\ d.ok = TRUE BY <1>3 DEF Started
<1>5. PICK w \in {"value", "first value"} : Reads(d.out, State(o, w, k)) BY <1>3 DEF Started
<1>6. PICK b : b = [d EXCEPT !.open = Append(@, m), !.first = TRUE] OBVIOUS
<1>7. PICK e : e = BeginContainer(c, name, m) OBVIOUS
<1>8. e = Emit(b, <<m>>) BY <1>1, <1>4, <1>6, <1>7 DEF BeginContainer
<1>9. PICK p : p = Append(o, m) OBVIOUS
<1>10. IsEncoder(b) /\ b.open = p /\ b.first = TRUE /\ b.out = d.out BY <1>4, <1>6, <1>9 DEF IsEncoder
<1>11. IsEncoder(e) /\ e.open = p /\ e.first = TRUE /\ e.out = d.out \o <<m>> BY <1>8, <1>10, Emitted
<1>12. o \in Seq(Marks) BY DEF At
<1>13. p \in Seq(Marks) /\ p # <<>> /\ Last(p) = m BY <1>9, <1>12, Pushed
<1>14. m = "{" \/ m = "[" BY DEF Marks
<1>15. Want(e) = IF m = "{" THEN "first name" ELSE "first value" BY <1>11, <1>13, <1>14 DEF Want
<1>16. Grammar(State(o, w, k), m) = State(p, IF m = "{" THEN "first name" ELSE "first value", k)
  BY <1>9, <1>14 DEF Grammar, Closes, Closer, State, After, Marks, Scalar, Strings
<1>17. State(p, Want(e), k).want # "error" BY <1>15 DEF State
<1>19. m # Control BY MarksWritten DEF Marks, Punctuation
<1>18. Reads(e.out, State(p, Want(e), k)) BY <1>5, <1>11, <1>15, <1>16, <1>17, <1>19, ReadsOne
<1>. QED BY <1>2, <1>7, <1>9, <1>11, <1>13, <1>18 DEF At

\* The innermost container is closed.
LEMMA EndContainerWrites ==
  ASSUME NEW c, NEW o, NEW keys, At(c, o, keys), o # <<>>
  PROVE  At(EndContainer(c), Front(o), keys)
<1>1. IsEncoder(c) /\ c.open = o /\ o \in Seq(Marks) /\ c.first \in BOOLEAN
      /\ Reads(c.out, State(o, Want(c), keys))
  BY DEF At
<1>2. PICK m : m = Last(o) OBVIOUS
<1>3. PICK p : p = Front(o) OBVIOUS
<1>4. m \in Marks /\ p \in Seq(Marks) BY <1>1, <1>2, <1>3, Popped
<1>5. PICK b : b = [c EXCEPT !.open = Front(@), !.first = FALSE, !.ok = TRUE] OBVIOUS
<1>6. PICK e : e = EndContainer(c) OBVIOUS
<1>7. e = Emit(b, <<Closer(m)>>) BY <1>1, <1>2, <1>5, <1>6 DEF EndContainer
<1>8. IsEncoder(b) /\ b.open = p /\ b.first = FALSE /\ b.out = c.out BY <1>1, <1>3, <1>5 DEF IsEncoder
<1>9. IsEncoder(e) /\ e.open = p /\ e.first = FALSE /\ e.out = c.out \o <<Closer(m)>>
  BY <1>7, <1>8, Emitted
<1>10. PICK w : w = Want(c) OBVIOUS
<1>11. w = "after" \/ (w = "first name" /\ m = "{") \/ (w = "first value" /\ m = "[")
  BY <1>1, <1>2, <1>4, <1>10 DEF Want, Marks
<1>12. Closes(State(o, w, keys), Closer(m)) BY <1>2, <1>11 DEF Closes, Closer, State
<1>13. Grammar(State(o, w, keys), Closer(m)) = State(p, IF p = <<>> THEN "end" ELSE "after", keys)
  BY <1>3, <1>12 DEF Grammar, Closes, Closer, State, After, Marks, Scalar, Strings
<1>14. Want(e) = IF p = <<>> THEN "end" ELSE "after" BY <1>9 DEF Want
<1>15. State(p, Want(e), keys).want # "error" BY <1>14 DEF State
<1>17. Closer(m) # Control BY MarksWritten DEF Closer, Punctuation
<1>16. Reads(e.out, State(p, Want(e), keys)) BY <1>1, <1>9, <1>10, <1>13, <1>14, <1>15, <1>17, ReadsOne
<1>. QED BY <1>3, <1>4, <1>6, <1>9, <1>16 DEF At

-----------------------------------------------------------------------------
\* Within a container that is not the outermost: its keys are nobody's concern.
Inside(o) == o \in Seq(Marks) /\ o # <<>>
NameIn(m, name) == m = "{" => Writable(name)
Within(c, o, m, keys) == At(c, Append(o, m), keys) /\ Inside(o) /\ m \in Marks

LEMMA Deepened ==
  ASSUME NEW o, Inside(o), NEW m \in Marks
  PROVE  Inside(Append(o, m)) /\ Front(Append(o, m)) = o /\ Last(Append(o, m)) = m
<1>1. o \in Seq(Marks) BY DEF Inside
<1>. QED BY <1>1, Pushed DEF Inside

LEMMA KeysWithin ==
  ASSUME NEW o, Inside(o), NEW m \in Marks, NEW name, NEW keys
  PROVE  KeysAt(Append(o, m), name, keys) = keys
<1>1. o \in Seq(Marks) /\ Len(o) \in Nat \ {0} BY DEF Inside
<1>2. PICK p : p = Append(o, m) OBVIOUS
<1>3. Len(p) = Len(o) + 1 BY <1>1, <1>2, Pushed
<1>4. ~(Len(p) = 1) BY <1>1, <1>3
<1>5. KeysAt(p, name, keys) = keys BY <1>4, Zenon DEF KeysAt
<1>. QED BY <1>2, <1>5

LEMMA FitsWithin ==
  ASSUME NEW o, Inside(o), NEW m \in Marks, NEW c, NEW name, NameIn(m, name)
  PROVE  Fits(c, Append(o, m), name)
<1>1. PICK p : p = Append(o, m) OBVIOUS
<1>2. p # <<>> /\ Last(p) = m BY <1>1, Deepened DEF Inside
<1>3. Fits(c, p, name) BY <1>2, Zenon DEF Fits, InAnObject, NameIn
<1>. QED BY <1>1, <1>3

LEMMA Enter ==
  ASSUME NEW c, NEW o, NEW keys, At(c, o, keys), Inside(o), NEW name, Writable(name), NEW m \in Marks
  PROVE  Within(BeginContainer(c, name, m), o, m, KeysAt(o, name, keys))
<1>1. Fits(c, o, name) BY DEF Fits, Inside
<1>. QED BY <1>1, BeginContainerWrites DEF Within

LEMMA PutWithin ==
  ASSUME NEW c, NEW o, NEW m, NEW keys, Within(c, o, m, keys), NEW name, NameIn(m, name),
         NEW value, Scalar(value)
  PROVE  Within(AddElement(c, name, value), o, m, keys)
<1>1. Inside(o) /\ At(c, Append(o, m), keys) /\ m \in Marks BY DEF Within
<1>2. Fits(c, Append(o, m), name) BY <1>1, FitsWithin
<1>3. KeysAt(Append(o, m), name, keys) = keys BY <1>1, KeysWithin
<1>4. At(AddElement(c, name, value), Append(o, m), KeysAt(Append(o, m), name, keys))
  BY <1>1, <1>2, AddElementWrites
<1>. QED BY <1>1, <1>3, <1>4 DEF Within

LEMMA Put ==
  ASSUME NEW c, NEW o, NEW keys, Within(c, o, "{", keys), NEW name, Writable(name), NEW value, Scalar(value)
  PROVE  Within(AddElement(c, name, value), o, "{", keys)
<1>1. NameIn("{", name) BY DEF NameIn
<1>. QED BY <1>1, PutWithin

LEMMA PutInArray ==
  ASSUME NEW c, NEW o, NEW keys, Within(c, o, "[", keys), NEW name, NEW value, Scalar(value)
  PROVE  Within(AddElement(c, name, value), o, "[", keys)
<1>1. NameIn("[", name) BY DEF NameIn
<1>. QED BY <1>1, PutWithin

LEMMA Deeper ==
  ASSUME NEW c, NEW o, NEW m, NEW keys, Within(c, o, m, keys), NEW name, NameIn(m, name),
         NEW n \in Marks
  PROVE  Within(BeginContainer(c, name, n), Append(o, m), n, keys)
<1>1. Inside(o) /\ At(c, Append(o, m), keys) /\ m \in Marks BY DEF Within
<1>2. Fits(c, Append(o, m), name) BY <1>1, FitsWithin
<1>3. KeysAt(Append(o, m), name, keys) = keys BY <1>1, KeysWithin
<1>4. At(BeginContainer(c, name, n), Append(Append(o, m), n), KeysAt(Append(o, m), name, keys))
  BY <1>1, <1>2, BeginContainerWrites
<1>5. Inside(Append(o, m)) BY <1>1, Deepened
<1>. QED BY <1>3, <1>4, <1>5 DEF Within

LEMMA Leave ==
  ASSUME NEW c, NEW o, NEW m, NEW keys, Within(c, o, m, keys)
  PROVE  At(EndContainer(c), o, keys)
<1>1. Inside(o) /\ m \in Marks /\ At(c, Append(o, m), keys) BY DEF Within
<1>2. Inside(Append(o, m)) /\ Front(Append(o, m)) = o BY <1>1, Deepened
<1>. QED BY <1>1, <1>2, EndContainerWrites DEF Inside

LEMMA Back ==
  ASSUME NEW c, NEW o, NEW m, NEW n, NEW keys, Within(c, Append(o, m), n, keys),
         Inside(o), m \in Marks
  PROVE  Within(EndContainer(c), o, m, keys)
<1>1. At(EndContainer(c), Append(o, m), keys) BY Leave
<1>. QED BY <1>1 DEF Within

\* Tokens that are written as they stand.
LEMMA Constants ==
  /\ \A t \in {"text", "id", "type", "name", "value", "class", "address", "error", "json_data",
               "standard", "minimal"} : Writable(t) /\ Scalar(t)
  /\ Scalar(Number) /\ Scalar(Now) /\ Scalar(Literal)
BY DEF Writable, Control, Strings, Scalar, NotStrings, Punctuation, Numbers, Number, Now, Literal, Junk, Null

LEMMA ReportInfoWrites ==
  ASSUME NEW c, NEW o, NEW keys, At(c, o, keys), Inside(o), NEW type, Scalar(type)
  PROVE  At(ReportInfo(c, type), o, KeysAt(o, "report", keys))
<1>1. \A t \in {"report", "id", "timestamp", "type"} : Writable(t)
  BY DEF Writable, Control, Strings, NotStrings, Punctuation, Numbers, Number, Now, Literal, Junk, Null
<1>2. PICK k : k = KeysAt(o, "report", keys) OBVIOUS
<1>3. PICK c1 : c1 = BeginContainer(c, "report", "{") OBVIOUS
<1>4. Within(c1, o, "{", k) BY <1>1, <1>2, <1>3, Enter DEF Marks
<1>5. PICK c2 : c2 = AddElement(c1, "id", "text") OBVIOUS
<1>6. Within(c2, o, "{", k) BY <1>1, <1>4, <1>5, Put, Constants
<1>7. PICK c3 : c3 = AddElement(c2, "timestamp", Now) OBVIOUS
<1>8. Within(c3, o, "{", k) BY <1>1, <1>6, <1>7, Put, Constants
<1>9. Within(AddElement(c3, "type", type), o, "{", k) BY <1>1, <1>8, Put, Constants
<1>10. ReportInfo(c, type) = EndContainer(AddElement(c3, "type", type))
  BY <1>3, <1>5, <1>7 DEF ReportInfo, Wrapped, Object, Text
<1>. QED BY <1>2, <1>9, <1>10, Leave

-----------------------------------------------------------------------------
\* The sections.
Named1 ==
  {"report", "id", "timestamp", "type", "binary_images", "image_addr", "name", "crash_info_message",
   "crash_info_message2", "process_state", "last_dealloced_nsexception", "reason", "system",
   "system_name", "cpu_type", "memory", "size", "application_stats", "application_active",
   "sessions_since_launch", "crash", "error", "mach", "code", "signal", "address", "cpp_exception",
   "nsexception", "object_name", "object_addr", "symbol_name", "symbol_addr", "instruction_addr"}
Named2 ==
  {"contents", "backtrace", "skipped", "registers", "basic", "pc", "exception", "far", "index",
   "crashed", "stack", "stack_pointer", "notable_addresses", "threads", "crashed_thread",
   "recrash_report", "debug", "console_log", "value", "class", "ivars", "tagged_payload", "ivar", "long",
   "huge", "place", "first_object", "referenced_object", "sentry_sdk_scope", "breadcrumbs", "crumb", "user",
   "json_data", "text", "standard", "minimal"}
AllNames == Named1 \cup Named2 \cup Kinds
LEMMA NamesAreStrings == \A t \in AllNames : Writable(t) /\ Scalar(t)
<1>1. \A t \in Named1 : Writable(t)
  BY DEF Named1, Writable, Control, Strings, NotStrings, Punctuation, Numbers, Number, Now, Literal, Junk, Null
<1>2. \A t \in Named2 : Writable(t)
  BY DEF Named2, Writable, Control, Strings, NotStrings, Punctuation, Numbers, Number, Now, Literal, Junk, Null
<1>3. \A t \in Kinds : Writable(t)
  BY DEF Kinds, Writable, Control, Strings, NotStrings, Punctuation, Numbers, Number, Now, Literal, Junk, Null
<1>. QED BY <1>1, <1>2, <1>3 DEF AllNames, Scalar, Writable

LEMMA TextPut ==
  ASSUME NEW c, NEW o, NEW k, Within(c, o, "{", k), NEW name \in AllNames
  PROVE  Within(Text(c, name), o, "{", k)
<1>1. "text" \in AllNames BY DEF AllNames, Named2
<1>. QED BY <1>1, NamesAreStrings, Put DEF Text

LEMMA NumericPut ==
  ASSUME NEW c, NEW o, NEW k, Within(c, o, "{", k), NEW name \in AllNames
  PROVE  Within(Numeric(c, name), o, "{", k)
BY Constants, NamesAreStrings, Put DEF Numeric

LEMMA LiteralPut ==
  ASSUME NEW c, NEW o, NEW k, Within(c, o, "{", k), NEW name \in AllNames
  PROVE  Within(AddElement(c, name, Literal), o, "{", k)
BY Constants, NamesAreStrings, Put

LEMMA Objects ==
  ASSUME NEW c, NEW o, NEW k, NEW name \in AllNames
  PROVE  /\ At(c, o, k) /\ Inside(o) => Within(Object(c, name), o, "{", KeysAt(o, name, k))
         /\ At(c, o, k) /\ Inside(o) => Within(Array(c, name), o, "[", KeysAt(o, name, k))
         /\ Within(c, o, "{", k) => Within(Object(c, name), Append(o, "{"), "{", k)
         /\ Within(c, o, "{", k) => Within(Array(c, name), Append(o, "{"), "[", k)
<1>1. Writable(name) /\ NameIn("{", name) BY NamesAreStrings DEF NameIn
<1>2. "{" \in Marks /\ "[" \in Marks BY DEF Marks
<1>3. ASSUME At(c, o, k), Inside(o)
      PROVE  /\ Within(BeginContainer(c, name, "{"), o, "{", KeysAt(o, name, k))
             /\ Within(BeginContainer(c, name, "["), o, "[", KeysAt(o, name, k))
  BY <1>1, <1>2, <1>3, Enter
<1>4. ASSUME Within(c, o, "{", k)
      PROVE  /\ Within(BeginContainer(c, name, "{"), Append(o, "{"), "{", k)
             /\ Within(BeginContainer(c, name, "["), Append(o, "{"), "[", k)
  BY <1>1, <1>2, <1>4, Deeper
<1>. QED BY <1>3, <1>4 DEF Object, Array

LEMMA ObjectInArray ==
  ASSUME NEW c, NEW o, NEW k, Within(c, o, "[", k), NEW name
  PROVE  Within(Object(c, name), Append(o, "["), "{", k)
<1>1. NameIn("[", name) /\ "{" \in Marks BY DEF NameIn, Marks
<1>. QED BY <1>1, Deeper DEF Object

LEMMA BackToObject ==
  ASSUME NEW c, NEW o, NEW m, NEW k, Within(c, Append(o, "{"), m, k), Inside(o)
  PROVE  Within(EndContainer(c), o, "{", k)
<1>1. "{" \in Marks BY DEF Marks
<1>. QED BY <1>1, Back

LEMMA BackToArray ==
  ASSUME NEW c, NEW o, NEW m, NEW k, Within(c, Append(o, "["), m, k), Inside(o)
  PROVE  Within(EndContainer(c), o, "[", k)
<1>1. "[" \in Marks BY DEF Marks
<1>. QED BY <1>1, Back

\* An object of one number, and of one text.
LEMMA OneField ==
  ASSUME NEW c, NEW o, NEW k, Within(c, o, "{", k), NEW name \in AllNames, NEW field \in AllNames
  PROVE  /\ Within(EndContainer(Numeric(Object(c, name), field)), o, "{", k)
         /\ Within(EndContainer(Text(Object(c, name), field)), o, "{", k)
<1>1. Inside(o) BY DEF Within
<1>2. PICK d : d = Object(c, name) OBVIOUS
<1>3. Within(d, Append(o, "{"), "{", k) BY <1>2, Objects
<1>4. Within(Numeric(d, field), Append(o, "{"), "{", k) /\ Within(Text(d, field), Append(o, "{"), "{", k)
  BY <1>3, NumericPut, TextPut
<1>. QED BY <1>1, <1>2, <1>4, BackToObject

LEMMA SystemInfoWrites ==
  ASSUME NEW c, NEW o, NEW keys, At(c, o, keys), Inside(o)
  PROVE  At(SystemInfo(c), o, KeysAt(o, "system", keys))
<1>1. {"system", "system_name", "cpu_type", "memory", "size", "application_stats", "application_active",
       "sessions_since_launch"} \subseteq AllNames
  BY DEF AllNames, Named1
<1>. DEFINE k  == KeysAt(o, "system", keys)
            d1 == Object(c, "system")
            d2 == Text(d1, "system_name")
            d3 == Numeric(d2, "cpu_type")
            d4 == EndContainer(Numeric(Object(d3, "memory"), "size"))
            d5 == Object(d4, "application_stats")
            d6 == AddElement(d5, "application_active", Literal)
            d7 == Numeric(d6, "sessions_since_launch")
            d8 == EndContainer(d7)
<1>2. SystemInfo(c) = EndContainer(d8) BY DEF SystemInfo, Wrapped
<1>. HIDE DEF k, d1, d2, d3, d4, d5, d6, d7, d8
<1>3. Within(d1, o, "{", k) BY <1>1, Objects DEF d1, k
<1>4. Within(d2, o, "{", k) BY <1>1, <1>3, TextPut DEF d2
<1>5. Within(d3, o, "{", k) BY <1>1, <1>4, NumericPut DEF d3
<1>6. Within(d4, o, "{", k) BY <1>1, <1>5, OneField DEF d4
<1>7. Within(d5, Append(o, "{"), "{", k) BY <1>1, <1>6, Objects DEF d5
<1>8. Within(d6, Append(o, "{"), "{", k) BY <1>1, <1>7, LiteralPut DEF d6
<1>9. Within(d7, Append(o, "{"), "{", k) BY <1>1, <1>8, NumericPut DEF d7
<1>10. Within(d8, o, "{", k) BY <1>9, BackToObject DEF d8
<1>. QED BY <1>2, <1>10, Leave DEF k

LEMMA DebugInfoWrites ==
  ASSUME NEW c, NEW o, NEW keys, At(c, o, keys), Inside(o)
  PROVE  At(DebugInfo(c), o, KeysAt(o, "debug", keys))
<1>1. {"debug", "console_log", "text"} \subseteq AllNames BY DEF AllNames, Named2
<1>. DEFINE k  == KeysAt(o, "debug", keys)
            d1 == Object(c, "debug")
            d2 == Array(d1, "console_log")
            d3 == Text(d2, Null)
<1>2. DebugInfo(c) = EndContainer(IF process.log THEN EndContainer(d3) ELSE d1) BY DEF DebugInfo, Wrapped
<1>. HIDE DEF k, d1, d2, d3
<1>3. Within(d1, o, "{", k) BY <1>1, Objects DEF d1, k
<1>4. Within(d2, Append(o, "{"), "[", k) BY <1>1, <1>3, Objects DEF d2
<1>5. Within(d3, Append(o, "{"), "[", k) BY <1>1, <1>4, PutInArray, NamesAreStrings DEF d3, Text
<1>6. Within(EndContainer(d3), o, "{", k) BY <1>5, BackToObject
<1>7. CASE process.log BY <1>2, <1>6, <1>7, Leave DEF k
<1>8. CASE ~process.log BY <1>2, <1>3, <1>8, Leave DEF k
<1>. QED BY <1>7, <1>8

LEMMA ReasonWrites ==
  ASSUME process \in Processes, NEW c, NEW o, NEW k, Within(c, o, "{", k)
  PROVE  Within(Reason(c), o, "{", k)
<1>1. process.reason = Null \/ Strings(process.reason) BY TextAssumption DEF Strings
<1>2. "reason" \in AllNames BY DEF AllNames, Named1
<1>3. PICK r : r = process.reason OBVIOUS
<1>4. CASE r = Null BY <1>3, <1>4 DEF Reason
<1>5. CASE r # Null
  <2>1. Scalar(r) BY <1>1, <1>3, <1>5 DEF Scalar
  <2>2. Reason(c) = AddElement(c, "reason", r) BY <1>3, <1>5 DEF Reason
  <2>. QED BY <1>2, <2>1, <2>2, NamesAreStrings, Put
<1>. QED BY <1>4, <1>5

LEMMA ErrorWrites ==
  ASSUME process \in Processes, NEW c, NEW o, NEW k, Within(c, o, "{", k)
  PROVE  Within(Error(c), o, "{", k)
<1>1. {"error", "mach", "code", "signal", "name", "address", "type", "cpp_exception", "nsexception"}
        \cup Kinds \subseteq AllNames
  BY DEF AllNames, Named1
<1>2. Inside(o) BY DEF Within
<1>. DEFINE d1 == Object(c, "error")
            d2 == EndContainer(Numeric(Object(d1, "mach"), "code"))
            d3 == EndContainer(Text(Object(d2, "signal"), "name"))
            d4 == Numeric(d3, "address")
            d5 == Reason(d4)
            d6 == AddElement(d5, "type", process.error)
            d7 == EndContainer(Text(Object(d6, "cpp_exception"), "name"))
            d8 == Text(Object(d6, "nsexception"), "name")
            d9 == EndContainer(Reason(d8))
<1>3. Error(c) = EndContainer(IF process.error = "cpp" THEN d7 ELSE IF process.error = "objc" THEN d9 ELSE d6)
  BY DEF Error, Wrapped
<1>. DEFINE p == Append(o, "{")
<1>. HIDE DEF d1, d2, d3, d4, d5, d6, d7, d8, d9, p
<1>4. Within(d1, p, "{", k) BY <1>1, Objects DEF d1, p
<1>5. Within(d2, p, "{", k) BY <1>1, <1>4, OneField DEF d2
<1>6. Within(d3, p, "{", k) BY <1>1, <1>5, OneField DEF d3
<1>7. Within(d4, p, "{", k) BY <1>1, <1>6, NumericPut DEF d4
<1>8. Within(d5, p, "{", k) BY <1>7, ReasonWrites DEF d5
<1>9. process.error \in Kinds BY TextAssumption
<1>10. Within(d6, p, "{", k)
  <2>1. PICK e : e = process.error OBVIOUS
  <2>. QED BY <1>1, <1>8, <1>9, <2>1, Put, NamesAreStrings DEF d6
<1>11. Within(d7, p, "{", k) BY <1>1, <1>10, OneField DEF d7
<1>12. Within(d9, p, "{", k)
  <2>1. PICK d : d = Object(d6, "nsexception") OBVIOUS
  <2>2. Within(d, Append(p, "{"), "{", k) BY <1>1, <1>10, <2>1, Objects
  <2>3. Within(d8, Append(p, "{"), "{", k) BY <1>1, <2>1, <2>2, TextPut DEF d8
  <2>4. Within(Reason(d8), Append(p, "{"), "{", k) BY <2>3, ReasonWrites
  <2>5. Inside(p) BY <1>4 DEF Within
  <2>. QED BY <2>4, <2>5, BackToObject DEF d9
<1>13. PICK d \in {d6, d7, d9} : Error(c) = EndContainer(d) BY <1>3
<1>14. Within(d, p, "{", k) BY <1>10, <1>11, <1>12, <1>13
<1>. QED BY <1>2, <1>13, <1>14, BackToObject DEF p

\* Induction up to a bound.
LEMMA Upward ==
  ASSUME NEW n \in Nat, NEW S, 0 \in S, \A i \in 0..n : i \in S /\ i < n => i + 1 \in S
  PROVE  \A i \in 0..n : i \in S
<1>. DEFINE Z == {i \in Nat : i <= n => i \in S}
<1>1. Z \in SUBSET Nat /\ 0 \in Z OBVIOUS
<1>2. ASSUME NEW i \in Z PROVE i + 1 \in Z
  <2>1. CASE i + 1 <= n
    <3>1. i \in 0..n /\ i < n /\ i \in S BY <2>1
    <3>. QED BY <3>1
  <2>2. CASE ~(i + 1 <= n) BY <2>2
  <2>. QED BY <2>1, <2>2
<1>. HIDE DEF Z
<1>3. Z = Nat BY <1>1, <1>2, Induction
<1>. QED BY <1>3 DEF Z

LEMMA StackEntryWrites ==
  ASSUME NEW c, NEW o, NEW k, Within(c, o, "[", k), NEW return
  PROVE  Within(StackEntry(c, return), o, "[", k)
<1>1. {"object_name", "object_addr", "symbol_name", "symbol_addr", "instruction_addr"} \subseteq AllNames
  BY DEF AllNames, Named1
<1>. DEFINE d1 == Object(c, Null)
            d2 == Text(d1, "object_name")
            d3 == Numeric(d2, "object_addr")
            d4 == Text(d3, "symbol_name")
            found == Symbolicate(process.images, process.dyld, return)
            d5 == IF found.symbol.named THEN d4 ELSE d3
            d6 == Numeric(d5, "symbol_addr")
            d7 == IF found.ok THEN d6 ELSE d1
            d8 == Numeric(d7, "instruction_addr")
<1>2. StackEntry(c, return) = EndContainer(d8) BY DEF StackEntry, Wrapped
<1>. HIDE DEF found
<1>3. d5 \in {d3, d4} /\ d7 \in {d6, d1} OBVIOUS
<1>. DEFINE p == Append(o, "[")
<1>. HIDE DEF d1, d2, d3, d4, d5, d6, d7, d8, p
<1>4. Within(d1, p, "{", k) BY ObjectInArray DEF d1, p
<1>5. Within(d2, p, "{", k) BY <1>1, <1>4, TextPut DEF d2
<1>6. Within(d3, p, "{", k) BY <1>1, <1>5, NumericPut DEF d3
<1>7. Within(d4, p, "{", k) BY <1>1, <1>6, TextPut DEF d4
<1>8. Within(d5, p, "{", k) BY <1>3, <1>6, <1>7
<1>9. Within(d6, p, "{", k) BY <1>1, <1>8, NumericPut DEF d6
<1>10. Within(d7, p, "{", k) BY <1>3, <1>4, <1>9
<1>11. Within(d8, p, "{", k) BY <1>1, <1>10, NumericPut DEF d8
<1>12. Inside(o) BY DEF Within
<1>. QED BY <1>2, <1>11, <1>12, BackToArray DEF p

InArray(c, o, k) == Within(c, o, "[", k)
Entries(start, frames, n, f) == f[0] = start /\ \A i \in 1..n : f[i] = StackEntry(f[i - 1], frames[i])

\* The entries of a stack, one after the other.
StackSoFar(c, frames, n, f) ==
  f = [i \in 0..n |-> IF i = 0 THEN Array(c, "contents") ELSE StackEntry(f[i - 1], frames[i])]

LEMMA StackBuilt ==
  ASSUME NEW c, NEW frames, NEW n \in Nat PROVE \E f : StackSoFar(c, frames, n, f)
<1>. DEFINE S == {m \in Nat : \E f : StackSoFar(c, frames, m, f)}
<1>1. 0 \in S
  <2>. DEFINE f == [i \in 0..0 |-> Array(c, "contents")]
  <2>1. StackSoFar(c, frames, 0, f) BY DEF StackSoFar
  <2>. QED BY <2>1
<1>2. ASSUME NEW m \in S PROVE m + 1 \in S
  <2>1. PICK f : StackSoFar(c, frames, m, f) OBVIOUS
  <2>. DEFINE g == [i \in 0..m + 1 |-> IF i = m + 1 THEN StackEntry(f[m], frames[m + 1]) ELSE f[i]]
  <2>2. ASSUME NEW i \in 0..m + 1
        PROVE  g[i] = IF i = 0 THEN Array(c, "contents") ELSE StackEntry(g[i - 1], frames[i])
    BY <2>1 DEF StackSoFar
  <2>3. StackSoFar(c, frames, m + 1, g) BY <2>2 DEF StackSoFar
  <2>. QED BY <2>3
<1>. HIDE DEF S
<1>3. S \in SUBSET Nat BY DEF S
<1>4. S = Nat BY <1>1, <1>2, <1>3, Induction
<1>. QED BY <1>4 DEF S

LEMMA StackSteps ==
  ASSUME NEW c, NEW frames, NEW n \in Nat, NEW f, StackSoFar(c, frames, n, f)
  PROVE  Entries(Array(c, "contents"), frames, n, f)
<1>1. f[0] = Array(c, "contents")
  <2>1. 0 \in 0..n OBVIOUS
  <2>. QED BY <2>1 DEF StackSoFar
<1>2. ASSUME NEW i \in 1..n PROVE f[i] = StackEntry(f[i - 1], frames[i])
  <2>1. i \in 0..n /\ i # 0 OBVIOUS
  <2>. QED BY <2>1 DEF StackSoFar
<1>. QED BY <1>1, <1>2 DEF Entries

LEMMA StackIs ==
  ASSUME NEW c, NEW frames, NEW n \in Nat, n = Len(frames)
  PROVE  \E f : StackSoFar(c, frames, n, f) /\ Stack(c, frames) = EndContainer(f[n])
<1>. DEFINE F == CHOOSE f : f = [i \in 0..n |-> IF i = 0 THEN Array(c, "contents") ELSE StackEntry(f[i - 1], frames[i])]
<1>1. Stack(c, frames) = EndContainer(F[n]) BY DEF Stack
<1>2. \E f : f = [i \in 0..n |-> IF i = 0 THEN Array(c, "contents") ELSE StackEntry(f[i - 1], frames[i])]
  <2>1. PICK f : StackSoFar(c, frames, n, f) BY StackBuilt
  <2>. QED BY <2>1 DEF StackSoFar
<1>3. F = [i \in 0..n |-> IF i = 0 THEN Array(c, "contents") ELSE StackEntry(F[i - 1], frames[i])] BY <1>2
<1>. HIDE DEF F
<1>4. StackSoFar(c, frames, n, F) BY <1>3 DEF StackSoFar
<1>. QED BY <1>1, <1>4

LEMMA EntriesWrite ==
  ASSUME NEW start, NEW p, NEW k, InArray(start, p, k), NEW frames, NEW n \in Nat, NEW f,
         Entries(start, frames, n, f)
  PROVE  InArray(f[n], p, k)
<1>. DEFINE S == {i \in 0..n : InArray(f[i], p, k)}
<1>. HIDE DEF S
<1>3. 0 \in S BY DEF S, Entries
<1>4. ASSUME NEW i \in 0..n, i \in S, i < n PROVE i + 1 \in S
  <2>1. i + 1 \in 1..n /\ (i + 1) - 1 = i BY <1>4
  <2>2. f[i + 1] = StackEntry(f[i], frames[i + 1]) BY <2>1 DEF Entries
  <2>3. InArray(f[i], p, k) BY <1>4 DEF S
  <2>4. InArray(f[i + 1], p, k) BY <2>2, <2>3, StackEntryWrites DEF InArray
  <2>. QED BY <2>1, <2>4 DEF S
<1>5. \A i \in 0..n : i \in S BY <1>3, <1>4, Upward
<1>6. n \in 0..n OBVIOUS
<1>. QED BY <1>5, <1>6 DEF S

LEMMA StackWrites ==
  ASSUME NEW c, NEW o, NEW k, Within(c, o, "{", k), NEW frames, NEW n \in Nat, n = Len(frames)
  PROVE  Within(Stack(c, frames), o, "{", k)
<1>1. PICK f : StackSoFar(c, frames, n, f) /\ Stack(c, frames) = EndContainer(f[n]) BY StackIs
<1>2. Within(f[n], Append(o, "{"), "[", k)
  <2>1. "contents" \in AllNames BY DEF AllNames, Named2
  <2>2. InArray(Array(c, "contents"), Append(o, "{"), k) BY <2>1, Objects DEF InArray
  <2>3. Entries(Array(c, "contents"), frames, n, f) BY <1>1, StackSteps
  <2>4. InArray(f[n], Append(o, "{"), k) BY <2>2, <2>3, EntriesWrite
  <2>. QED BY <2>4 DEF InArray
<1>3. Inside(o) BY DEF Within
<1>. QED BY <1>1, <1>2, <1>3, BackToObject

\* A thread's stack has entries of a number.
LEMMA Shorter ==
  ASSUME NEW S, S \in SUBSET Nat, S # {} PROVE Min(S) \in S /\ \A i \in S : Min(S) <= i
<1>1. \E n \in S : \A m \in S : n <= m BY LeastOf
<1>. QED BY <1>1 DEF Min

LEMMA Cut ==
  ASSUME NEW T, NEW s \in Seq(T), NEW n \in Nat, n <= Len(s) PROVE Len(SubSeq(s, 1, n)) \in Nat
OBVIOUS

Path(m, t, W, entry) ==
  LET stack == (IF t.lr = Nil THEN <<t.pc>> ELSE <<t.pc, t.lr>>)
                 \o [i \in 1..Cardinality(W) |-> m[entry[i]].return] IN
  IF t.pc = Nil THEN <<>> ELSE SubSeq(stack, 1, Min({MaxFrames, Len(stack)}))
LEMMA WalkedIs ==
  ASSUME NEW m, NEW t
  PROVE  \E W \in SUBSET (1..MaxFrames) : \E entry : Walked(m, t) = Path(m, t, W, entry)
<1>. DEFINE entry == CHOOSE e : e = [i \in 1..MaxFrames |->
                       IF i = 1 THEN t.fp ELSE IF Frame(m, e[i - 1]) THEN m[e[i - 1]].previous ELSE Nil]
            W == {i \in 1..MaxFrames : Frame(m, entry[i])}
<1>1. Walked(m, t) = Path(m, t, W, entry) BY DEF Walked, Path
<1>2. W \in SUBSET (1..MaxFrames) OBVIOUS
<1>. HIDE DEF W, entry
<1>. QED BY <1>1, <1>2

LEMMA AnySequence == ASSUME NEW n \in Nat, NEW f, f = [i \in 1..n |-> f[i]] PROVE \E T : f \in Seq(T)
<1>1. DOMAIN f = 1..n OBVIOUS
<1>. QED BY <1>1, AsSeq

LEMMA WalkedLength == ASSUME NEW m, NEW t PROVE Len(Walked(m, t)) \in Nat
<1>1. PICK W \in SUBSET (1..MaxFrames) : \E entry : Walked(m, t) = Path(m, t, W, entry) BY WalkedIs
<1>. PICK entry : Walked(m, t) = Path(m, t, W, entry) BY <1>1
<1>2. MaxFrames \in Nat BY TextAssumption
<1>3. IsFiniteSet(1..MaxFrames) BY <1>2, FS_Interval
<1>4. PICK k \in Nat : k = Cardinality(W) BY <1>1, <1>3, FS_Subset, FS_CardinalityType
<1>5. PICK head : head = IF t.lr = Nil THEN <<t.pc>> ELSE <<t.pc, t.lr>> OBVIOUS
<1>6. PICK chain : chain = [i \in 1..k |-> m[entry[i]].return] OBVIOUS
<1>7. PICK stack : stack = head \o chain OBVIOUS
<1>8. Walked(m, t) = IF t.pc = Nil THEN <<>> ELSE SubSeq(stack, 1, Min({MaxFrames, Len(stack)}))
  BY <1>1, <1>4, <1>5, <1>6, <1>7 DEF Path
<1>9. \E T : chain \in Seq(T)
  <2>1. chain = [i \in 1..k |-> chain[i]] BY <1>6
  <2>. QED BY <1>4, <2>1, AnySequence
<1>10. \E T : head \in Seq(T)
  <2>1. <<t.pc>> \in Seq({t.pc}) /\ <<t.pc, t.lr>> \in Seq({t.pc, t.lr}) OBVIOUS
  <2>. QED BY <1>5, <2>1
<1>11. PICK S, T : head \in Seq(S) /\ chain \in Seq(T) BY <1>9, <1>10
<1>12. stack \in Seq(S \cup T) BY <1>7, <1>11, Joined
<1>13. Len(stack) \in Nat BY <1>12
<1>14. PICK n : n = Min({MaxFrames, Len(stack)}) OBVIOUS
<1>15. n \in Nat /\ n <= Len(stack)
  <2>1. {MaxFrames, Len(stack)} \in SUBSET Nat /\ {MaxFrames, Len(stack)} # {} BY <1>2, <1>13
  <2>. QED BY <1>14, <2>1, Shorter
<1>16. Len(SubSeq(stack, 1, n)) \in Nat BY <1>12, <1>15, Cut
<1>17. CASE t.pc = Nil
  <2>1. Walked(m, t) = <<>> BY <1>8, <1>17
  <2>. QED BY <2>1
<1>18. CASE t.pc # Nil
  <2>1. Walked(m, t) = SubSeq(stack, 1, n) BY <1>8, <1>14, <1>18
  <2>. QED BY <1>16, <2>1
<1>. QED BY <1>17, <1>18

LEMMA CapturedLength == ASSUME NEW S, NEW trace \in Seq(S) PROVE Len(Captured(trace)) \in Nat
<1>1. PICK A : A = {Len(trace)} \cup {i - 1 : i \in {j \in DOMAIN trace : trace[j] <= 1}} OBVIOUS
<1>2. A \in SUBSET Nat /\ A # {} /\ Len(trace) \in A BY <1>1
<1>3. PICK n : n = Min(A) OBVIOUS
<1>4. n \in Nat /\ n <= Len(trace) BY <1>2, <1>3, Shorter
<1>5. Len(SubSeq(trace, 1, n)) \in Nat BY <1>4, Cut
<1>. QED BY <1>1, <1>3, <1>5 DEF Captured

LEMMA FramesLength ==
  ASSUME NEW m, NEW t \in ThreadStates PROVE Len(Frames(m, t)) \in Nat
<1>1. t.trace \in Seq(Addresses) BY DEF ThreadStates
<1>. QED BY <1>1, WalkedLength, CapturedLength DEF Frames

LEMMA ThreadBeginWrites ==
  ASSUME NEW c, NEW name, NEW q, NEW k, Within(Object(c, name), q, "{", k),
         NEW thread \in ThreadStates
  PROVE  Within(ThreadBegin(c, name, thread), q, "{", k)
<1>1. {"backtrace", "skipped", "registers", "basic", "pc", "exception", "far", "index", "name",
       "crashed", "stack", "stack_pointer", "contents"} \subseteq AllNames
  BY DEF AllNames, Named1, Named2
<1>2. Inside(q) BY DEF Within
<1>. DEFINE d1 == Object(Object(c, name), "backtrace")
            frames == Frames(process.heap, thread)
            d2 == Stack(d1, frames)
            d3 == Numeric(d2, "skipped")
            d4 == EndContainer(d3)
            d5 == Object(d4, "registers")
            d6 == EndContainer(Numeric(Object(d5, "basic"), "pc"))
            d7 == EndContainer(Numeric(Object(d6, "exception"), "far"))
            d8 == IF thread.crashed THEN d7 ELSE d6
            d9 == IF ~thread.state THEN d4 ELSE EndContainer(d8)
            d10 == Numeric(d9, "index")
            d11 == IF thread.named THEN Text(d10, "name") ELSE d10
            d12 == AddElement(d11, "crashed", Literal)
            d13 == Numeric(Object(d12, "stack"), "stack_pointer")
            d14 == EndContainer(Text(d13, "contents"))
<1>3. ThreadBegin(c, name, thread) = IF thread.crashed THEN d14 ELSE d12
  BY DEF ThreadBegin, Wrapped
<1>4. d8 \in {d6, d7} /\ d9 \in {d4, EndContainer(d8)} /\ d11 \in {d10, Text(d10, "name")}
      /\ ThreadBegin(c, name, thread) \in {d12, d14}
  <2>. HIDE DEF d4, d6, d7, d10, d12, d14
  <2>. QED BY <1>3
<1>. DEFINE p == Append(q, "{")
<1>. HIDE DEF d1, d2, d3, d4, d5, d6, d7, d8, d9, d10, d11, d12, d13, d14, p, frames
<1>5. Within(d1, p, "{", k) BY <1>1, Objects DEF d1, p
<1>6. Within(d2, p, "{", k)
  <2>1. PICK n \in Nat : n = Len(frames) BY FramesLength DEF frames
  <2>. QED BY <1>5, <2>1, StackWrites DEF d2
<1>7. Within(d3, p, "{", k) BY <1>1, <1>6, NumericPut DEF d3
<1>8. Within(d4, q, "{", k) BY <1>2, <1>7, BackToObject DEF d4, p
<1>9. Within(d5, p, "{", k) BY <1>1, <1>8, Objects DEF d5, p
<1>10. Within(d6, p, "{", k) BY <1>1, <1>9, OneField DEF d6
<1>11. Within(d7, p, "{", k) BY <1>1, <1>10, OneField DEF d7
<1>12. Within(d8, p, "{", k) BY <1>4, <1>10, <1>11
<1>13. Within(EndContainer(d8), q, "{", k) BY <1>2, <1>12, BackToObject DEF p
<1>14. Within(d9, q, "{", k) BY <1>4, <1>8, <1>13
<1>15. Within(d10, q, "{", k) BY <1>1, <1>14, NumericPut DEF d10
<1>16. Within(Text(d10, "name"), q, "{", k) BY <1>1, <1>15, TextPut
<1>17. Within(d11, q, "{", k) BY <1>4, <1>15, <1>16
<1>18. Within(d12, q, "{", k) BY <1>1, <1>17, LiteralPut DEF d12
<1>19. Within(Object(d12, "stack"), p, "{", k) BY <1>1, <1>18, Objects DEF p
<1>20. Within(d13, p, "{", k)
  <2>1. PICK d : d = Object(d12, "stack") OBVIOUS
  <2>. QED BY <1>1, <1>19, <2>1, NumericPut DEF d13
<1>21. Within(Text(d13, "contents"), p, "{", k) BY <1>1, <1>20, TextPut
<1>22. Within(d14, q, "{", k) BY <1>2, <1>21, BackToObject DEF d14, p
<1>. QED BY <1>4, <1>18, <1>22

LEMMA BinaryImageWrites ==
  ASSUME NEW c, NEW o, NEW k, InArray(c, o, k), NEW image
  PROVE  InArray(BinaryImage(c, image), o, k)
<1>1. {"image_addr", "name", "crash_info_message", "crash_info_message2"} \subseteq AllNames
  BY DEF AllNames, Named1
<1>2. Within(c, o, "[", k) /\ Inside(o) BY DEF InArray, Within
<1>. DEFINE d1 == Object(c, Null)
            d2 == Numeric(d1, "image_addr")
            d3 == Text(d2, "name")
            d4 == Text(d3, "crash_info_message")
            d5 == IF Told(image.info, 1) THEN d4 ELSE d3
            d6 == Text(d5, "crash_info_message2")
            d7 == IF Told(image.info, 2) THEN d6 ELSE d5
            p == Append(o, "[")
<1>3. BinaryImage(c, image) = EndContainer(d7) BY DEF BinaryImage
<1>4. d5 \in {d3, d4} /\ d7 \in {d5, d6}
  <2>. HIDE DEF d3, d4, d6
  <2>. QED OBVIOUS
<1>. HIDE DEF d1, d2, d3, d4, d5, d6, d7, p
<1>5. Within(d1, p, "{", k) BY <1>2, ObjectInArray DEF d1, p
<1>6. Within(d2, p, "{", k) BY <1>1, <1>5, NumericPut DEF d2
<1>7. Within(d3, p, "{", k) BY <1>1, <1>6, TextPut DEF d3
<1>8. Within(d4, p, "{", k) BY <1>1, <1>7, TextPut DEF d4
<1>9. Within(d5, p, "{", k) BY <1>4, <1>7, <1>8
<1>10. Within(d6, p, "{", k) BY <1>1, <1>9, TextPut DEF d6
<1>11. Within(d7, p, "{", k) BY <1>4, <1>9, <1>10
<1>. QED BY <1>2, <1>3, <1>11, BackToArray DEF p, InArray

ImagesSoFar(start, images, n, f) ==
  f = [i \in 0..n |-> IF i = 0 THEN start ELSE BinaryImage(f[i - 1], images[i])]

LEMMA ImagesBuilt ==
  ASSUME NEW start, NEW images, NEW n \in Nat PROVE \E f : ImagesSoFar(start, images, n, f)
<1>. DEFINE S == {m \in Nat : \E f : ImagesSoFar(start, images, m, f)}
<1>1. 0 \in S
  <2>. DEFINE f == [i \in 0..0 |-> start]
  <2>1. ImagesSoFar(start, images, 0, f) BY DEF ImagesSoFar
  <2>. QED BY <2>1
<1>2. ASSUME NEW m \in S PROVE m + 1 \in S
  <2>1. PICK f : ImagesSoFar(start, images, m, f) OBVIOUS
  <2>. DEFINE g == [i \in 0..m + 1 |-> IF i = m + 1 THEN BinaryImage(f[m], images[m + 1]) ELSE f[i]]
  <2>2. ASSUME NEW i \in 0..m + 1
        PROVE  g[i] = IF i = 0 THEN start ELSE BinaryImage(g[i - 1], images[i])
    BY <2>1 DEF ImagesSoFar
  <2>3. ImagesSoFar(start, images, m + 1, g) BY <2>2 DEF ImagesSoFar
  <2>. QED BY <2>3
<1>. HIDE DEF S
<1>3. S \in SUBSET Nat BY DEF S
<1>4. S = Nat BY <1>1, <1>2, <1>3, Induction
<1>. QED BY <1>4 DEF S

LEMMA ImagesWrite ==
  ASSUME NEW start, NEW p, NEW k, InArray(start, p, k), NEW images, NEW n \in Nat, NEW f,
         ImagesSoFar(start, images, n, f)
  PROVE  InArray(f[n], p, k)
<1>1. f[0] = start
  <2>1. 0 \in 0..n OBVIOUS
  <2>. QED BY <2>1 DEF ImagesSoFar
<1>2. ASSUME NEW i \in 1..n PROVE f[i] = BinaryImage(f[i - 1], images[i])
  <2>1. i \in 0..n /\ i # 0 OBVIOUS
  <2>. QED BY <2>1 DEF ImagesSoFar
<1>. DEFINE S == {i \in 0..n : InArray(f[i], p, k)}
<1>. HIDE DEF S
<1>3. 0 \in S BY <1>1 DEF S
<1>4. ASSUME NEW i \in 0..n, i \in S, i < n PROVE i + 1 \in S
  <2>1. i + 1 \in 1..n /\ (i + 1) - 1 = i BY <1>4
  <2>2. f[i + 1] = BinaryImage(f[i], images[i + 1]) BY <1>2, <2>1
  <2>3. InArray(f[i], p, k) BY <1>4 DEF S
  <2>4. InArray(f[i + 1], p, k) BY <2>2, <2>3, BinaryImageWrites
  <2>. QED BY <2>1, <2>4 DEF S
<1>5. \A i \in 0..n : i \in S BY <1>3, <1>4, Upward
<1>6. n \in 0..n OBVIOUS
<1>. QED BY <1>5, <1>6 DEF S

LEMMA ImagesAre ==
  ASSUME NEW c, NEW n \in Nat, n = Len(process.images)
  PROVE  \E f : ImagesSoFar(Array(c, "binary_images"), process.images, n, f) /\ BinaryImages(c) = EndContainer(f[n])
<1>. DEFINE F == CHOOSE f : f = [i \in 0..n |-> IF i = 0 THEN Array(c, "binary_images") ELSE BinaryImage(f[i - 1], process.images[i])]
<1>1. BinaryImages(c) = EndContainer(F[n]) BY DEF BinaryImages
<1>2. \E f : f = [i \in 0..n |-> IF i = 0 THEN Array(c, "binary_images") ELSE BinaryImage(f[i - 1], process.images[i])]
  <2>1. PICK f : ImagesSoFar(Array(c, "binary_images"), process.images, n, f) BY ImagesBuilt
  <2>. QED BY <2>1 DEF ImagesSoFar
<1>3. F = [i \in 0..n |-> IF i = 0 THEN Array(c, "binary_images") ELSE BinaryImage(F[i - 1], process.images[i])]
  BY <1>2
<1>. HIDE DEF F
<1>4. ImagesSoFar(Array(c, "binary_images"), process.images, n, F) BY <1>3 DEF ImagesSoFar
<1>. QED BY <1>1, <1>4

LEMMA BinaryImagesWrite ==
  ASSUME process \in Processes, NEW c, NEW o, NEW keys, At(c, o, keys), Inside(o)
  PROVE  At(BinaryImages(c), o, KeysAt(o, "binary_images", keys))
<1>1. PICK n \in Nat : n = Len(process.images) BY TextAssumption
<1>2. PICK f : ImagesSoFar(Array(c, "binary_images"), process.images, n, f)
      /\ BinaryImages(c) = EndContainer(f[n])
  BY <1>1, ImagesAre
<1>3. "binary_images" \in AllNames BY DEF AllNames, Named1
<1>4. InArray(Array(c, "binary_images"), o, KeysAt(o, "binary_images", keys)) BY <1>3, Objects DEF InArray
<1>5. InArray(f[n], o, KeysAt(o, "binary_images", keys)) BY <1>2, <1>4, ImagesWrite
<1>. QED BY <1>2, <1>5, Leave DEF InArray

LEMMA DescribedWrites ==
  ASSUME NEW c, NEW o, NEW k, Within(c, o, "{", k), NEW a, NEW kind,
         kind \in {"date", "number"} => ~IsInfinite(process.heap, a)
  PROVE  Within(Described(c, a, kind), o, "{", k)
<1>1. {"address", "type", "class", "value"} \subseteq AllNames BY DEF AllNames, Named1, Named2
<1>. DEFINE d1 == Numeric(c, "address")
            d2 == Text(d1, "type")
            d3 == AddElement(d2, "class", Literal)
            d4 == Text(d2, "class")
            d5 == IF Tagged(a) /\ ~IsValidTaggedPointer(a) THEN d3 ELSE d4
            d6 == Text(d2, "value")
            d7 == Text(d5, "value")
            d8 == Numeric(d5, "value")
<1>2. Valued(d5, a, kind) \in {d5, d7, d8}
  <2>1. kind \in {"date", "number"} => Figure(d5, "value", IsInfinite(process.heap, a)) = d8
    BY DEF Figure, Numeric
  <2>2. PICK y : y = Figure(d5, "value", IsInfinite(process.heap, a)) OBVIOUS
  <2>3. PICK e : e = d5 OBVIOUS
  <2>4. Valued(e, a, kind) \in {e, Text(e, "value"), Figure(e, "value", IsInfinite(process.heap, a))}
        /\ (kind \notin {"date", "number"} => Valued(e, a, kind) \in {e, Text(e, "value")})
    BY DEF Valued
  <2>. HIDE DEF d5
  <2>. QED BY <2>1, <2>3, <2>4
<1>3. Described(c, a, kind) \in {d1, d2, d6, Valued(d5, a, kind)}
  <2>1. PICK v : v = Valued(d5, a, kind) OBVIOUS
  <2>2. Described(c, a, kind) = CASE kind = "fault" -> d1 [] kind \in {"null", "nothing"} -> d2
                                  [] kind = "cstring" -> d6 [] OTHER -> v
    BY <2>1 DEF Described
  <2>. HIDE DEF d1, d2, d5, d6
  <2>. QED BY <2>1, <2>2
<1>4. d5 \in {d3, d4}
  <2>. HIDE DEF d3, d4
  <2>. QED OBVIOUS
<1>. HIDE DEF d1, d2, d3, d4, d5, d6, d7, d8
<1>5. Within(d1, o, "{", k) BY <1>1, NumericPut DEF d1
<1>6. Within(d2, o, "{", k) BY <1>1, <1>5, TextPut DEF d2
<1>7. Within(d3, o, "{", k) BY <1>1, <1>6, LiteralPut DEF d3
<1>8. Within(d4, o, "{", k) BY <1>1, <1>6, TextPut DEF d4
<1>9. Within(d5, o, "{", k) BY <1>4, <1>7, <1>8
<1>10. Within(d6, o, "{", k) BY <1>1, <1>6, TextPut DEF d6
<1>11. Within(d7, o, "{", k) BY <1>1, <1>9, TextPut DEF d7
<1>12. Within(d8, o, "{", k) BY <1>1, <1>9, NumericPut DEF d8
<1>. QED BY <1>2, <1>3, <1>5, <1>6, <1>9, <1>10, <1>11, <1>12

LEMMA BegunWrites ==
  ASSUME NEW c, NEW o, NEW k, Within(c, o, "{", k), NEW a
  PROVE  Within(Begun(c, a), Append(o, "{"), "{", k)
<1>1. {"ivars", "tagged_payload"} \subseteq AllNames BY DEF AllNames, Named2
<1>2. PICK d : d = Object(c, "ivars") OBVIOUS
<1>3. Within(d, Append(o, "{"), "{", k) BY <1>1, <1>2, Objects
<1>4. Within(Numeric(d, "tagged_payload"), Append(o, "{"), "{", k) BY <1>1, <1>3, NumericPut
<1>. QED BY <1>2, <1>3, <1>4 DEF Begun

-----------------------------------------------------------------------------
\* Closing what is open.
ClosedSoFar(c, n, f) == f = [i \in 0..n |-> IF i = 0 THEN c ELSE EndContainer(f[i - 1])]

LEMMA ClosedBuilt == ASSUME NEW c, NEW n \in Nat PROVE \E f : ClosedSoFar(c, n, f)
<1>. DEFINE S == {m \in Nat : \E f : ClosedSoFar(c, m, f)}
<1>1. 0 \in S
  <2>. DEFINE f == [i \in 0..0 |-> c]
  <2>1. ClosedSoFar(c, 0, f) BY DEF ClosedSoFar
  <2>. QED BY <2>1
<1>2. ASSUME NEW m \in S PROVE m + 1 \in S
  <2>1. PICK f : ClosedSoFar(c, m, f) OBVIOUS
  <2>. DEFINE g == [i \in 0..m + 1 |-> IF i = m + 1 THEN EndContainer(f[m]) ELSE f[i]]
  <2>2. ASSUME NEW i \in 0..m + 1 PROVE g[i] = IF i = 0 THEN c ELSE EndContainer(g[i - 1])
    BY <2>1 DEF ClosedSoFar
  <2>3. ClosedSoFar(c, m + 1, g) BY <2>2 DEF ClosedSoFar
  <2>. QED BY <2>3
<1>. HIDE DEF S
<1>3. S \in SUBSET Nat BY DEF S
<1>4. S = Nat BY <1>1, <1>2, <1>3, Induction
<1>. QED BY <1>4 DEF S

LEMMA DownIs ==
  ASSUME NEW c, NEW n \in Nat, n = Len(c.open), NEW level
  PROVE  \E f : ClosedSoFar(c, n, f) /\ Down(c, level) = f[n - level]
<1>. DEFINE F == CHOOSE f : f = [i \in 0..n |-> IF i = 0 THEN c ELSE EndContainer(f[i - 1])]
<1>1. Down(c, level) = F[n - level] BY DEF Down
<1>2. \E f : f = [i \in 0..n |-> IF i = 0 THEN c ELSE EndContainer(f[i - 1])]
  <2>1. PICK f : ClosedSoFar(c, n, f) BY ClosedBuilt
  <2>. QED BY <2>1 DEF ClosedSoFar
<1>3. F = [i \in 0..n |-> IF i = 0 THEN c ELSE EndContainer(F[i - 1])] BY <1>2
<1>. HIDE DEF F
<1>4. ClosedSoFar(c, n, F) BY <1>3 DEF ClosedSoFar
<1>. QED BY <1>1, <1>4

\* A stack without its top is the stack up to there.
LEMMA FrontOfPart ==
  ASSUME NEW o \in Seq(Marks), NEW m \in 1..Len(o)
  PROVE  Front(SubSeq(o, 1, m)) = SubSeq(o, 1, m - 1) /\ SubSeq(o, 1, m) # <<>>
<1>1. PICK n \in Nat : n = Len(o) OBVIOUS
<1>2. PICK p : p = SubSeq(o, 1, m) OBVIOUS
<1>3. p \in Seq(Marks) /\ Len(p) = m /\ \A i \in 1..m : p[i] = o[i]
  <2>1. p = [i \in 1..m |-> o[i]] BY <1>1, <1>2
  <2>2. \A i \in 1..m : o[i] \in Marks BY <1>1
  <2>. QED BY <1>1, <2>1, <2>2
<1>4. Front(p) = SubSeq(p, 1, m - 1) BY <1>3 DEF Front
<1>5. SubSeq(p, 1, m - 1) = SubSeq(o, 1, m - 1) BY <1>1, <1>3
<1>. QED BY <1>1, <1>2, <1>3, <1>4, <1>5

LEMMA WholePart == ASSUME NEW o \in Seq(Marks) PROVE SubSeq(o, 1, Len(o)) = o /\ Len(o) \in Nat
OBVIOUS

\* closed[i] has the first n - i of the containers open.
LEMMA ClosedWrites ==
  ASSUME NEW c, NEW o \in Seq(Marks), NEW keys, At(c, o, keys), NEW n \in Nat, n = Len(o),
         NEW f, ClosedSoFar(c, n, f)
  PROVE  \A i \in 0..n : At(f[i], SubSeq(o, 1, n - i), keys)
<1>1. f[0] = c
  <2>1. 0 \in 0..n OBVIOUS
  <2>. QED BY <2>1 DEF ClosedSoFar
<1>2. ASSUME NEW i \in 1..n PROVE f[i] = EndContainer(f[i - 1])
  <2>1. i \in 0..n /\ i # 0 OBVIOUS
  <2>. QED BY <2>1 DEF ClosedSoFar
<1>. DEFINE S == {i \in 0..n : At(f[i], SubSeq(o, 1, n - i), keys)}
<1>. HIDE DEF S
<1>3. 0 \in S
  <2>1. 0 \in 0..n /\ n - 0 = n OBVIOUS
  <2>2. SubSeq(o, 1, n - 0) = o BY <2>1, WholePart
  <2>. QED BY <1>1, <2>1, <2>2 DEF S
<1>4. ASSUME NEW i \in 0..n, i \in S, i < n PROVE i + 1 \in S
  <2>1. i + 1 \in 1..n /\ (i + 1) - 1 = i /\ i + 1 \in 0..n BY <1>4
  <2>2. f[i + 1] = EndContainer(f[i]) BY <1>2, <2>1
  <2>3. At(f[i], SubSeq(o, 1, n - i), keys) BY <1>4 DEF S
  <2>4. PICK m \in 1..n : m = n - i BY <1>4
  <2>5. Front(SubSeq(o, 1, m)) = SubSeq(o, 1, m - 1) /\ SubSeq(o, 1, m) # <<>> BY <2>4, FrontOfPart
  <2>6. At(f[i + 1], Front(SubSeq(o, 1, m)), keys) BY <2>2, <2>3, <2>4, <2>5, EndContainerWrites
  <2>7. m - 1 = n - (i + 1) BY <2>4
  <2>8. At(f[i + 1], SubSeq(o, 1, n - (i + 1)), keys) BY <2>5, <2>6, <2>7
  <2>. QED BY <2>1, <2>8 DEF S
<1>5. \A i \in 0..n : i \in S BY <1>3, <1>4, Upward
<1>. QED BY <1>5 DEF S

\* Down to a level, and to the end.
LEMMA DownWrites ==
  ASSUME NEW c, NEW o, NEW keys, At(c, o, keys), NEW level \in Nat, level <= Len(o)
  PROVE  At(Down(c, level), SubSeq(o, 1, level), keys)
<1>1. o \in Seq(Marks) /\ c.open = o BY DEF At
<1>2. PICK n \in Nat : n = Len(o) BY <1>1
<1>3. PICK f : ClosedSoFar(c, n, f) /\ Down(c, level) = f[n - level] BY <1>1, <1>2, DownIs
<1>4. \A i \in 0..n : At(f[i], SubSeq(o, 1, n - i), keys) BY <1>1, <1>2, <1>3, ClosedWrites
<1>5. n - level \in 0..n /\ n - (n - level) = level BY <1>2
<1>. QED BY <1>3, <1>4, <1>5

LEMMA NoneOpen == ASSUME NEW o \in Seq(Marks), Len(o) = 0 PROVE o = <<>>
OBVIOUS

LEMMA NotFirst ==
  ASSUME NEW c, NEW o, NEW keys, At(c, o, keys), o # <<>> PROVE EndContainer(c).first = FALSE
<1>1. IsEncoder(c) /\ c.open = o BY DEF At
<1>2. PICK b : b = [c EXCEPT !.open = Front(@), !.first = FALSE, !.ok = TRUE] OBVIOUS
<1>3. PICK m : m = Last(o) OBVIOUS
<1>4. EndContainer(c) = Emit(b, <<Closer(m)>>) BY <1>1, <1>2, <1>3 DEF EndContainer
<1>5. IsEncoder(b) /\ b.first = FALSE BY <1>1, <1>2 DEF IsEncoder
<1>. QED BY <1>4, <1>5, Emitted

\* What is written when everything is closed is a whole text.
Whole(c, keys) == At(c, <<>>, keys) /\ c.first = FALSE
LEMMA EndEncodeWrites ==
  ASSUME NEW c, NEW o, NEW keys, At(c, o, keys), o # <<>> \/ c.first = FALSE
  PROVE  Whole(EndEncode(c), keys)
<1>1. o \in Seq(Marks) /\ c.open = o BY DEF At
<1>2. PICK n \in Nat : n = Len(o) BY <1>1
<1>3. PICK f : ClosedSoFar(c, n, f) /\ Down(c, 0) = f[n - 0] BY <1>1, <1>2, DownIs
<1>4. PICK e : e = EndEncode(c) OBVIOUS
<1>5. e = f[n] BY <1>2, <1>3, <1>4 DEF EndEncode
<1>6. \A i \in 0..n : At(f[i], SubSeq(o, 1, n - i), keys) BY <1>1, <1>2, <1>3, ClosedWrites
<1>7. At(e, SubSeq(o, 1, n - n), keys) /\ n - n = 0 BY <1>2, <1>5, <1>6
<1>8. SubSeq(o, 1, 0) = <<>> BY <1>1
<1>9. At(e, <<>>, keys) BY <1>7, <1>8
<1>10. CASE n = 0
  <2>1. o = <<>> BY <1>1, <1>2, <1>10, NoneOpen
  <2>2. e = c
    <3>1. 0 \in 0..0 OBVIOUS
    <3>. QED BY <1>3, <1>5, <1>10, <3>1 DEF ClosedSoFar
  <2>. QED BY <1>4, <1>9, <2>1, <2>2 DEF Whole
<1>11. CASE n # 0
  <2>1. n \in 0..n /\ n - 1 \in 0..n /\ n - (n - 1) = 1 /\ 1 \in 1..n BY <1>2, <1>11
  <2>2. f[n] = EndContainer(f[n - 1]) BY <1>3, <1>11, <2>1 DEF ClosedSoFar
  <2>3. At(f[n - 1], SubSeq(o, 1, 1), keys) BY <1>6, <2>1
  <2>4. SubSeq(o, 1, 1) # <<>> BY <1>1, <1>2, <2>1, FrontOfPart
  <2>5. e.first = FALSE BY <1>5, <2>2, <2>3, <2>4, NotFirst
  <2>. QED BY <1>4, <1>9, <2>5 DEF Whole
<1>. QED BY <1>10, <1>11

-----------------------------------------------------------------------------
\* The reader, which is the grammar token by token: it comes to where a run of the grammar does.
Passing(text, tr) == tr[0] = Outset /\ \A i \in 1..Len(text) : tr[i] = Pass(tr[i - 1], text[i])
Reached(text, run, tr, k) == [text |-> text, at |-> k, state |-> run[k], place |-> tr[k]]
Nearer(n, k, m) == IF k + m <= n THEN k + m ELSE n

LEMMA NearerThere == ASSUME NEW n \in Nat, NEW k \in 0..n, NEW m \in Nat PROVE Nearer(n, k, m) \in 0..n
BY DEF Nearer

LEMMA ReadsOn ==
  ASSUME NEW text, NEW run, NEW n \in Nat, n = Len(text), Reading(text, run),
         NEW tr, Passing(text, tr), NEW k \in 0..n, k < n
  PROVE  Read(Reached(text, run, tr, k)) = Reached(text, run, tr, k + 1)
<1>1. k + 1 \in 1..n /\ (k + 1) - 1 = k OBVIOUS
<1>2. run[k + 1] = Grammar(run[k], text[k + 1]) BY <1>1 DEF Reading
<1>3. tr[k + 1] = Pass(tr[k], text[k + 1]) BY <1>1 DEF Passing
<1>. QED BY <1>2, <1>3 DEF Read, Reached

LEMMA LeftIs ==
  ASSUME NEW text, NEW run, NEW tr, NEW n \in Nat, n = Len(text), NEW k \in 0..n
  PROVE  Left(Reached(text, run, tr, k)) <=> k < n
BY DEF Left, Reached

Reads1(r, n, f) ==
  f = [i \in 0..n |-> IF i = 0 THEN r ELSE IF Left(f[i - 1]) THEN Read(f[i - 1]) ELSE f[i - 1]]

LEMMA Reads1Exist == ASSUME NEW r, NEW n \in Nat PROVE \E f : Reads1(r, n, f)
<1>. DEFINE S == {m \in Nat : \E f : Reads1(r, m, f)}
<1>1. 0 \in S
  <2>. DEFINE f == [i \in 0..0 |-> r]
  <2>1. Reads1(r, 0, f) BY DEF Reads1
  <2>. QED BY <2>1
<1>2. ASSUME NEW m \in S PROVE m + 1 \in S
  <2>1. PICK f : Reads1(r, m, f) OBVIOUS
  <2>. DEFINE g == [i \in 0..m + 1 |-> IF i = m + 1 THEN IF Left(f[m]) THEN Read(f[m]) ELSE f[m] ELSE f[i]]
  <2>2. ASSUME NEW i \in 0..m + 1
        PROVE  g[i] = IF i = 0 THEN r ELSE IF Left(g[i - 1]) THEN Read(g[i - 1]) ELSE g[i - 1]
    BY <2>1 DEF Reads1
  <2>3. Reads1(r, m + 1, g) BY <2>2 DEF Reads1
  <2>. QED BY <2>3
<1>. HIDE DEF S
<1>3. S \in SUBSET Nat BY DEF S
<1>4. S = Nat BY <1>1, <1>2, <1>3, Induction
<1>. QED BY <1>4 DEF S

LEMMA Reads1Step ==
  ASSUME NEW r, NEW n \in Nat, NEW f, Reads1(r, n, f)
  PROVE  f[0] = r /\ \A i \in 0..n : i < n => f[i + 1] = IF Left(f[i]) THEN Read(f[i]) ELSE f[i]
<1>1. f[0] = r
  <2>1. 0 \in 0..n OBVIOUS
  <2>. QED BY <2>1 DEF Reads1
<1>2. ASSUME NEW i \in 0..n, i < n PROVE f[i + 1] = IF Left(f[i]) THEN Read(f[i]) ELSE f[i]
  <2>1. i + 1 \in 0..n /\ i + 1 # 0 /\ (i + 1) - 1 = i BY <1>2
  <2>. QED BY <2>1 DEF Reads1
<1>. QED BY <1>1, <1>2

LEMMA Read8Is == ASSUME NEW r PROVE \E f : Reads1(r, 8, f) /\ Read8(r) = f[8]
<1>. DEFINE F == CHOOSE f : f = [i \in 0..8 |->
                   IF i = 0 THEN r ELSE IF Left(f[i - 1]) THEN Read(f[i - 1]) ELSE f[i - 1]]
<1>1. Read8(r) = F[8] BY DEF Read8, Loop
<1>2. \E f : f = [i \in 0..8 |->
                   IF i = 0 THEN r ELSE IF Left(f[i - 1]) THEN Read(f[i - 1]) ELSE f[i - 1]]
  <2>1. PICK f : Reads1(r, 8, f) BY Reads1Exist
  <2>. QED BY <2>1 DEF Reads1
<1>3. F = [i \in 0..8 |->
                   IF i = 0 THEN r ELSE IF Left(F[i - 1]) THEN Read(F[i - 1]) ELSE F[i - 1]] BY <1>2
<1>. HIDE DEF F
<1>4. Reads1(r, 8, F) BY <1>3 DEF Reads1
<1>. QED BY <1>1, <1>4

LEMMA Reads1Reach ==
  ASSUME NEW text, NEW run, NEW n \in Nat, n = Len(text), Reading(text, run),
         NEW tr, Passing(text, tr), NEW k \in 0..n,
         NEW times \in Nat, NEW f, Reads1(Reached(text, run, tr, k), times, f)
  PROVE  \A i \in 0..times : f[i] = Reached(text, run, tr, Nearer(n, k, 1 * i))
<1>1. f[0] = Reached(text, run, tr, k)
      /\ \A i \in 0..times : i < times => f[i + 1] = IF Left(f[i]) THEN Read(f[i]) ELSE f[i]
  BY Reads1Step
<1>. DEFINE S == {i \in 0..times : f[i] = Reached(text, run, tr, Nearer(n, k, 1 * i))}
<1>. HIDE DEF S
<1>2. 0 \in S
  <2>1. Nearer(n, k, 1 * 0) = k /\ 0 \in 0..times BY DEF Nearer
  <2>. QED BY <1>1, <2>1 DEF S
<1>3. ASSUME NEW i \in 0..times, i \in S, i < times PROVE i + 1 \in S
  <2>1. f[i] = Reached(text, run, tr, Nearer(n, k, 1 * i)) BY <1>3 DEF S
  <2>2. PICK j : j = Nearer(n, k, 1 * i) OBVIOUS
  <2>3. j \in 0..n BY <2>2, NearerThere
  <2>4. f[i + 1] = IF Left(f[i]) THEN Read(f[i]) ELSE f[i] BY <1>1, <1>3
  <2>5. Left(Reached(text, run, tr, j)) <=> j < n BY <2>3, LeftIs
  <2>6. i + 1 \in 0..times BY <1>3
  <2>7. CASE j < n
    <3>1. f[i + 1] = Read(Reached(text, run, tr, j)) BY <2>1, <2>2, <2>4, <2>5, <2>7
    <3>2. Read(Reached(text, run, tr, j)) = Reached(text, run, tr, j + 1) BY <2>3, <2>7, ReadsOn
    <3>3. j + 1 = Nearer(n, k, 1 * (i + 1)) BY <2>2, <2>7 DEF Nearer
    <3>4. f[i + 1] = Reached(text, run, tr, Nearer(n, k, 1 * (i + 1))) BY <3>1, <3>2, <3>3
    <3>. QED BY <2>6, <3>4 DEF S
  <2>8. CASE ~(j < n)
    <3>1. f[i + 1] = Reached(text, run, tr, j) BY <2>1, <2>2, <2>4, <2>5, <2>8
    <3>2. j = Nearer(n, k, 1 * (i + 1)) BY <2>2, <2>3, <2>8 DEF Nearer
    <3>3. f[i + 1] = Reached(text, run, tr, Nearer(n, k, 1 * (i + 1))) BY <3>1, <3>2
    <3>. QED BY <2>6, <3>3 DEF S
  <2>. QED BY <2>7, <2>8
<1>4. \A i \in 0..times : i \in S BY <1>2, <1>3, Upward
<1>. QED BY <1>4 DEF S

LEMMA Read8Reaches ==
  ASSUME NEW text, NEW run, NEW n \in Nat, n = Len(text), Reading(text, run),
         NEW tr, Passing(text, tr), NEW k \in 0..n
  PROVE  Read8(Reached(text, run, tr, k)) = Reached(text, run, tr, Nearer(n, k, 8))
<1>1. PICK f : Reads1(Reached(text, run, tr, k), 8, f) /\ Read8(Reached(text, run, tr, k)) = f[8] BY Read8Is
<1>2. \A i \in 0..8 : f[i] = Reached(text, run, tr, Nearer(n, k, 1 * i)) BY <1>1, Reads1Reach
<1>. QED BY <1>1, <1>2

Reads8(r, n, f) ==
  f = [i \in 0..n |-> IF i = 0 THEN r ELSE IF Left(f[i - 1]) THEN Read8(f[i - 1]) ELSE f[i - 1]]

LEMMA Reads8Exist == ASSUME NEW r, NEW n \in Nat PROVE \E f : Reads8(r, n, f)
<1>. DEFINE S == {m \in Nat : \E f : Reads8(r, m, f)}
<1>1. 0 \in S
  <2>. DEFINE f == [i \in 0..0 |-> r]
  <2>1. Reads8(r, 0, f) BY DEF Reads8
  <2>. QED BY <2>1
<1>2. ASSUME NEW m \in S PROVE m + 1 \in S
  <2>1. PICK f : Reads8(r, m, f) OBVIOUS
  <2>. DEFINE g == [i \in 0..m + 1 |-> IF i = m + 1 THEN IF Left(f[m]) THEN Read8(f[m]) ELSE f[m] ELSE f[i]]
  <2>2. ASSUME NEW i \in 0..m + 1
        PROVE  g[i] = IF i = 0 THEN r ELSE IF Left(g[i - 1]) THEN Read8(g[i - 1]) ELSE g[i - 1]
    BY <2>1 DEF Reads8
  <2>3. Reads8(r, m + 1, g) BY <2>2 DEF Reads8
  <2>. QED BY <2>3
<1>. HIDE DEF S
<1>3. S \in SUBSET Nat BY DEF S
<1>4. S = Nat BY <1>1, <1>2, <1>3, Induction
<1>. QED BY <1>4 DEF S

LEMMA Reads8Step ==
  ASSUME NEW r, NEW n \in Nat, NEW f, Reads8(r, n, f)
  PROVE  f[0] = r /\ \A i \in 0..n : i < n => f[i + 1] = IF Left(f[i]) THEN Read8(f[i]) ELSE f[i]
<1>1. f[0] = r
  <2>1. 0 \in 0..n OBVIOUS
  <2>. QED BY <2>1 DEF Reads8
<1>2. ASSUME NEW i \in 0..n, i < n PROVE f[i + 1] = IF Left(f[i]) THEN Read8(f[i]) ELSE f[i]
  <2>1. i + 1 \in 0..n /\ i + 1 # 0 /\ (i + 1) - 1 = i BY <1>2
  <2>. QED BY <2>1 DEF Reads8
<1>. QED BY <1>1, <1>2

LEMMA Read64Is == ASSUME NEW r PROVE \E f : Reads8(r, 8, f) /\ Read64(r) = f[8]
<1>. DEFINE F == CHOOSE f : f = [i \in 0..8 |->
                   IF i = 0 THEN r ELSE IF Left(f[i - 1]) THEN Read8(f[i - 1]) ELSE f[i - 1]]
<1>1. Read64(r) = F[8] BY DEF Read64, Loop
<1>2. \E f : f = [i \in 0..8 |->
                   IF i = 0 THEN r ELSE IF Left(f[i - 1]) THEN Read8(f[i - 1]) ELSE f[i - 1]]
  <2>1. PICK f : Reads8(r, 8, f) BY Reads8Exist
  <2>. QED BY <2>1 DEF Reads8
<1>3. F = [i \in 0..8 |->
                   IF i = 0 THEN r ELSE IF Left(F[i - 1]) THEN Read8(F[i - 1]) ELSE F[i - 1]] BY <1>2
<1>. HIDE DEF F
<1>4. Reads8(r, 8, F) BY <1>3 DEF Reads8
<1>. QED BY <1>1, <1>4

LEMMA Reads8Reach ==
  ASSUME NEW text, NEW run, NEW n \in Nat, n = Len(text), Reading(text, run),
         NEW tr, Passing(text, tr), NEW k \in 0..n,
         NEW times \in Nat, NEW f, Reads8(Reached(text, run, tr, k), times, f)
  PROVE  \A i \in 0..times : f[i] = Reached(text, run, tr, Nearer(n, k, 8 * i))
<1>1. f[0] = Reached(text, run, tr, k)
      /\ \A i \in 0..times : i < times => f[i + 1] = IF Left(f[i]) THEN Read8(f[i]) ELSE f[i]
  BY Reads8Step
<1>. DEFINE S == {i \in 0..times : f[i] = Reached(text, run, tr, Nearer(n, k, 8 * i))}
<1>. HIDE DEF S
<1>2. 0 \in S
  <2>1. Nearer(n, k, 8 * 0) = k /\ 0 \in 0..times BY DEF Nearer
  <2>. QED BY <1>1, <2>1 DEF S
<1>3. ASSUME NEW i \in 0..times, i \in S, i < times PROVE i + 1 \in S
  <2>1. f[i] = Reached(text, run, tr, Nearer(n, k, 8 * i)) BY <1>3 DEF S
  <2>2. PICK j : j = Nearer(n, k, 8 * i) OBVIOUS
  <2>3. j \in 0..n BY <2>2, NearerThere
  <2>4. f[i + 1] = IF Left(f[i]) THEN Read8(f[i]) ELSE f[i] BY <1>1, <1>3
  <2>5. Left(Reached(text, run, tr, j)) <=> j < n BY <2>3, LeftIs
  <2>6. i + 1 \in 0..times BY <1>3
  <2>7. CASE j < n
    <3>1. f[i + 1] = Read8(Reached(text, run, tr, j)) BY <2>1, <2>2, <2>4, <2>5, <2>7
    <3>2. Read8(Reached(text, run, tr, j)) = Reached(text, run, tr, Nearer(n, j, 8)) BY <2>3, <2>7, Read8Reaches
    <3>3. Nearer(n, j, 8) = Nearer(n, k, 8 * (i + 1)) BY <2>2, <2>7 DEF Nearer
    <3>4. f[i + 1] = Reached(text, run, tr, Nearer(n, k, 8 * (i + 1))) BY <3>1, <3>2, <3>3
    <3>. QED BY <2>6, <3>4 DEF S
  <2>8. CASE ~(j < n)
    <3>1. f[i + 1] = Reached(text, run, tr, j) BY <2>1, <2>2, <2>4, <2>5, <2>8
    <3>2. j = Nearer(n, k, 8 * (i + 1)) BY <2>2, <2>3, <2>8 DEF Nearer
    <3>3. f[i + 1] = Reached(text, run, tr, Nearer(n, k, 8 * (i + 1))) BY <3>1, <3>2
    <3>. QED BY <2>6, <3>3 DEF S
  <2>. QED BY <2>7, <2>8
<1>4. \A i \in 0..times : i \in S BY <1>2, <1>3, Upward
<1>. QED BY <1>4 DEF S

LEMMA Read64Reaches ==
  ASSUME NEW text, NEW run, NEW n \in Nat, n = Len(text), Reading(text, run),
         NEW tr, Passing(text, tr), NEW k \in 0..n
  PROVE  Read64(Reached(text, run, tr, k)) = Reached(text, run, tr, Nearer(n, k, 64))
<1>1. PICK f : Reads8(Reached(text, run, tr, k), 8, f) /\ Read64(Reached(text, run, tr, k)) = f[8] BY Read64Is
<1>2. \A i \in 0..8 : f[i] = Reached(text, run, tr, Nearer(n, k, 8 * i)) BY <1>1, Reads8Reach
<1>. QED BY <1>1, <1>2

Reads64(r, n, f) ==
  f = [i \in 0..n |-> IF i = 0 THEN r ELSE IF Left(f[i - 1]) THEN Read64(f[i - 1]) ELSE f[i - 1]]

LEMMA Reads64Exist == ASSUME NEW r, NEW n \in Nat PROVE \E f : Reads64(r, n, f)
<1>. DEFINE S == {m \in Nat : \E f : Reads64(r, m, f)}
<1>1. 0 \in S
  <2>. DEFINE f == [i \in 0..0 |-> r]
  <2>1. Reads64(r, 0, f) BY DEF Reads64
  <2>. QED BY <2>1
<1>2. ASSUME NEW m \in S PROVE m + 1 \in S
  <2>1. PICK f : Reads64(r, m, f) OBVIOUS
  <2>. DEFINE g == [i \in 0..m + 1 |-> IF i = m + 1 THEN IF Left(f[m]) THEN Read64(f[m]) ELSE f[m] ELSE f[i]]
  <2>2. ASSUME NEW i \in 0..m + 1
        PROVE  g[i] = IF i = 0 THEN r ELSE IF Left(g[i - 1]) THEN Read64(g[i - 1]) ELSE g[i - 1]
    BY <2>1 DEF Reads64
  <2>3. Reads64(r, m + 1, g) BY <2>2 DEF Reads64
  <2>. QED BY <2>3
<1>. HIDE DEF S
<1>3. S \in SUBSET Nat BY DEF S
<1>4. S = Nat BY <1>1, <1>2, <1>3, Induction
<1>. QED BY <1>4 DEF S

LEMMA Reads64Step ==
  ASSUME NEW r, NEW n \in Nat, NEW f, Reads64(r, n, f)
  PROVE  f[0] = r /\ \A i \in 0..n : i < n => f[i + 1] = IF Left(f[i]) THEN Read64(f[i]) ELSE f[i]
<1>1. f[0] = r
  <2>1. 0 \in 0..n OBVIOUS
  <2>. QED BY <2>1 DEF Reads64
<1>2. ASSUME NEW i \in 0..n, i < n PROVE f[i + 1] = IF Left(f[i]) THEN Read64(f[i]) ELSE f[i]
  <2>1. i + 1 \in 0..n /\ i + 1 # 0 /\ (i + 1) - 1 = i BY <1>2
  <2>. QED BY <2>1 DEF Reads64
<1>. QED BY <1>1, <1>2

LEMMA Reads64Reach ==
  ASSUME NEW text, NEW run, NEW n \in Nat, n = Len(text), Reading(text, run),
         NEW tr, Passing(text, tr), NEW k \in 0..n,
         NEW times \in Nat, NEW f, Reads64(Reached(text, run, tr, k), times, f)
  PROVE  \A i \in 0..times : f[i] = Reached(text, run, tr, Nearer(n, k, 64 * i))
<1>1. f[0] = Reached(text, run, tr, k)
      /\ \A i \in 0..times : i < times => f[i + 1] = IF Left(f[i]) THEN Read64(f[i]) ELSE f[i]
  BY Reads64Step
<1>. DEFINE S == {i \in 0..times : f[i] = Reached(text, run, tr, Nearer(n, k, 64 * i))}
<1>. HIDE DEF S
<1>2. 0 \in S
  <2>1. Nearer(n, k, 64 * 0) = k /\ 0 \in 0..times BY DEF Nearer
  <2>. QED BY <1>1, <2>1 DEF S
<1>3. ASSUME NEW i \in 0..times, i \in S, i < times PROVE i + 1 \in S
  <2>1. f[i] = Reached(text, run, tr, Nearer(n, k, 64 * i)) BY <1>3 DEF S
  <2>2. PICK j : j = Nearer(n, k, 64 * i) OBVIOUS
  <2>3. j \in 0..n BY <2>2, NearerThere
  <2>4. f[i + 1] = IF Left(f[i]) THEN Read64(f[i]) ELSE f[i] BY <1>1, <1>3
  <2>5. Left(Reached(text, run, tr, j)) <=> j < n BY <2>3, LeftIs
  <2>6. i + 1 \in 0..times BY <1>3
  <2>7. CASE j < n
    <3>1. f[i + 1] = Read64(Reached(text, run, tr, j)) BY <2>1, <2>2, <2>4, <2>5, <2>7
    <3>2. Read64(Reached(text, run, tr, j)) = Reached(text, run, tr, Nearer(n, j, 64)) BY <2>3, <2>7, Read64Reaches
    <3>3. Nearer(n, j, 64) = Nearer(n, k, 64 * (i + 1)) BY <2>2, <2>7 DEF Nearer
    <3>4. f[i + 1] = Reached(text, run, tr, Nearer(n, k, 64 * (i + 1))) BY <3>1, <3>2, <3>3
    <3>. QED BY <2>6, <3>4 DEF S
  <2>8. CASE ~(j < n)
    <3>1. f[i + 1] = Reached(text, run, tr, j) BY <2>1, <2>2, <2>4, <2>5, <2>8
    <3>2. j = Nearer(n, k, 64 * (i + 1)) BY <2>2, <2>3, <2>8 DEF Nearer
    <3>3. f[i + 1] = Reached(text, run, tr, Nearer(n, k, 64 * (i + 1))) BY <3>1, <3>2
    <3>. QED BY <2>6, <3>3 DEF S
  <2>. QED BY <2>7, <2>8
<1>4. \A i \in 0..times : i \in S BY <1>2, <1>3, Upward
<1>. QED BY <1>4 DEF S

LEMMA ParsedIs == ASSUME NEW text, NEW rounds \in Nat, rounds = Len(text) \div 64 + 1
  PROVE \E f : Reads64(Reader(text), rounds, f) /\ Parsed(text) = f[rounds]
<1>. DEFINE F == CHOOSE f : f = [i \in 0..rounds |->
                   IF i = 0 THEN Reader(text) ELSE IF Left(f[i - 1]) THEN Read64(f[i - 1]) ELSE f[i - 1]]
<1>1. Parsed(text) = F[rounds] BY DEF Parsed, Loop
<1>2. \E f : f = [i \in 0..rounds |->
                   IF i = 0 THEN Reader(text) ELSE IF Left(f[i - 1]) THEN Read64(f[i - 1]) ELSE f[i - 1]]
  <2>1. PICK f : Reads64(Reader(text), rounds, f) BY Reads64Exist
  <2>. QED BY <2>1 DEF Reads64
<1>3. F = [i \in 0..rounds |->
                   IF i = 0 THEN Reader(text) ELSE IF Left(F[i - 1]) THEN Read64(F[i - 1]) ELSE F[i - 1]] BY <1>2
<1>. HIDE DEF F
<1>4. Reads64(Reader(text), rounds, F) BY <1>3 DEF Reads64
<1>. QED BY <1>1, <1>4

LEMMA Enough == ASSUME NEW n \in Nat PROVE n \div 64 + 1 \in Nat /\ Nearer(n, 0, 64 * (n \div 64 + 1)) = n
BY DEF Nearer

LEMMA PassingExists == ASSUME NEW text, Len(text) \in Nat PROVE \E tr : Passing(text, tr)
<1>. DEFINE So(m, f) == f[0] = Outset /\ \A i \in 1..m : f[i] = Pass(f[i - 1], text[i])
<1>. DEFINE S == {m \in Nat : \E f : So(m, f)}
<1>1. 0 \in S
  <2>. DEFINE f == [i \in 0..0 |-> Outset]
  <2>1. So(0, f) OBVIOUS
  <2>. QED BY <2>1
<1>2. ASSUME NEW m \in S PROVE m + 1 \in S
  <2>1. PICK f : So(m, f) OBVIOUS
  <2>. DEFINE g == [i \in 0..m + 1 |-> IF i = m + 1 THEN Pass(f[m], text[m + 1]) ELSE f[i]]
  <2>2. g[0] = Outset BY <2>1
  <2>3. ASSUME NEW i \in 1..m + 1 PROVE g[i] = Pass(g[i - 1], text[i])
    <3>1. i \in 0..m + 1 /\ i - 1 \in 0..m + 1 /\ i - 1 # m + 1 BY <2>3
    <3>2. g[i - 1] = f[i - 1] BY <3>1
    <3>3. CASE i = m + 1 BY <3>1, <3>2, <3>3
    <3>4. CASE i # m + 1
      <4>1. i \in 1..m /\ g[i] = f[i] BY <3>1, <3>4
      <4>. QED BY <2>1, <3>2, <4>1
    <3>. QED BY <3>3, <3>4
  <2>4. So(m + 1, g) BY <2>2, <2>3
  <2>. HIDE DEF So
  <2>. QED BY <2>4
<1>. HIDE DEF S
<1>3. S \in SUBSET Nat BY DEF S
<1>4. S = Nat BY <1>1, <1>2, <1>3, Induction
<1>. QED BY <1>4 DEF S, Passing

LEMMA ParsedReads ==
  ASSUME NEW text, Len(text) \in Nat, NEW run, Reading(text, run), NEW tr, Passing(text, tr)
  PROVE  Parsed(text) = Reached(text, run, tr, Len(text))
<1>1. PICK n \in Nat : n = Len(text) OBVIOUS
<1>2. PICK rounds \in Nat : rounds = Len(text) \div 64 + 1 BY <1>1, Enough
<1>3. PICK f : Reads64(Reader(text), rounds, f) /\ Parsed(text) = f[rounds] BY <1>2, ParsedIs
<1>4. Reader(text) = Reached(text, run, tr, 0) BY DEF Reader, Reached, Reading, Passing
<1>5. f[rounds] = Reached(text, run, tr, Nearer(n, 0, 64 * rounds))
  <2>1. 0 \in 0..n BY <1>1
  <2>2. Reads64(Reached(text, run, tr, 0), rounds, f) BY <1>3, <1>4
  <2>3. \A i \in 0..rounds : f[i] = Reached(text, run, tr, Nearer(n, 0, 64 * i))
    BY <1>1, <1>2, <2>1, <2>2, Reads64Reach
  <2>. QED BY <1>2, <2>3
<1>6. Nearer(n, 0, 64 * rounds) = n BY <1>1, <1>2, Enough
<1>. QED BY <1>1, <1>3, <1>5, <1>6

\* What has been read to the end is a text, its keys are those that were met, and its copy is
\* what the reader passed.
LEMMA WholeIsJSON ==
  ASSUME NEW c, NEW keys, Whole(c, keys) PROVE IsJSON(c.out) /\ RootKeys(c.out) = keys
<1>1. Want(c) = "end" BY DEF Whole, At, Want
<1>2. PICK text : text = c.out OBVIOUS
<1>3. Reads(text, State(<<>>, "end", keys)) BY <1>1, <1>2 DEF Whole, At
<1>4. PICK run : Reading(text, run) /\ run[Len(text)] = State(<<>>, "end", keys) BY <1>3 DEF Reads
<1>5. Len(text) \in Nat BY <1>3 DEF Reads
<1>6. PICK tr : Passing(text, tr) BY <1>5, PassingExists
<1>7. Parsed(text).state = State(<<>>, "end", keys) BY <1>4, <1>5, <1>6, ParsedReads DEF Reached
<1>. QED BY <1>2, <1>7 DEF IsJSON, RootKeys, State

-----------------------------------------------------------------------------
\* The decoder's fields.
IsDecoder(d) ==
  d \in [buf : {d.buf}, pos : {d.pos}, file : {d.file}, eof : {d.eof}, window : {d.window}, top : {d.top},
         enc : {d.enc}, close : {d.close}, fix : {d.fix}, path : {d.path}, stack : {d.stack}, result : {d.result}]
\* e goes on from d.
GoesOn(d, e) == IsDecoder(e) /\ e.top = d.top /\ e.close = d.close /\ e.fix = d.fix
Same(d, e)   == GoesOn(d, e) /\ e.enc = d.enc /\ e.stack = d.stack /\ e.result = d.result

LEMMA SkipIs == ASSUME NEW d, IsDecoder(d), NEW n, NEW e, e = Skip(d, n) PROVE Same(d, e)
BY DEF IsDecoder, Skip, Same, GoesOn

LEMMA StopIs ==
  ASSUME NEW d, IsDecoder(d), NEW r, NEW e, e = Stop(d, r)
  PROVE  GoesOn(d, e) /\ e.enc = d.enc /\ e.stack = d.stack /\ e.result = r
BY DEF IsDecoder, Stop, GoesOn

LEMMA RefillIs == ASSUME NEW d, IsDecoder(d), NEW e, e = Refill(d) PROVE Same(d, e)
<1>1. PICK buf, pos, f, eof : e = d \/ e = [d EXCEPT !.buf = buf, !.pos = pos, !.file = f, !.eof = eof]
  BY DEF Refill
<1>. QED BY <1>1 DEF IsDecoder, Same, GoesOn

LEMMA NewEncIs ==
  ASSUME NEW d, IsDecoder(d), NEW c, NEW e, e = [d EXCEPT !.enc = c]
  PROVE  GoesOn(d, e) /\ e.enc = c /\ e.stack = d.stack /\ e.result = d.result
BY DEF IsDecoder, GoesOn

-----------------------------------------------------------------------------
\* What is open: what was open before, and what the text has opened.
LEMMA JoinedStack ==
  ASSUME NEW o \in Seq(Marks), NEW s \in Seq(Marks)
  PROVE  /\ o \o s \in Seq(Marks) /\ o \o <<>> = o
         /\ \A m \in Marks : Append(s, m) \in Seq(Marks) /\ Append(o \o s, m) = o \o Append(s, m)
OBVIOUS

LEMMA JoinedOn ==
  ASSUME NEW o \in Seq(Marks), NEW f \in Seq(Marks), NEW m \in Marks, NEW t, t = o \o Append(f, m)
  PROVE  Last(t) = m /\ Front(t) = o \o f /\ Inside(t)
<1>. PICK j : j = o \o f OBVIOUS
<1>1. j \in Seq(Marks) /\ t = Append(j, m) OBVIOUS
<1>. QED BY <1>1, Pushed DEF Inside

LEMMA Topped ==
  ASSUME NEW s, Inside(s)
  PROVE  Front(s) \in Seq(Marks) /\ Last(s) \in Marks /\ Append(Front(s), Last(s)) = s /\ Len(s) \in Nat \ {0}
<1>1. s \in Seq(Marks) /\ s # <<>> BY DEF Inside
<1>. QED BY <1>1, Popped

JoinedTo(o, s) == o \o s
LEMMA JoinedPush ==
  ASSUME NEW o \in Seq(Marks), NEW f \in Seq(Marks), NEW m \in Marks
  PROVE  /\ Last(JoinedTo(o, Append(f, m))) = m /\ Front(JoinedTo(o, Append(f, m))) = o \o f
         /\ Inside(JoinedTo(o, Append(f, m)))
BY JoinedOn DEF JoinedTo

LEMMA JoinedTop ==
  ASSUME NEW o \in Seq(Marks), NEW s, Inside(s)
  PROVE  /\ Last(o \o s) = Last(s) /\ Front(o \o s) = o \o Front(s) /\ Inside(o \o s)
         /\ Len(o \o s) = Len(o) + Len(s) /\ Len(o) \in Nat /\ Len(s) \in Nat \ {0}
<1>1. Front(s) \in Seq(Marks) /\ Last(s) \in Marks /\ Append(Front(s), Last(s)) = s BY Topped
<1>2. /\ Last(JoinedTo(o, Append(Front(s), Last(s)))) = Last(s)
      /\ Front(JoinedTo(o, Append(Front(s), Last(s)))) = o \o Front(s)
      /\ Inside(JoinedTo(o, Append(Front(s), Last(s))))
  BY <1>1, JoinedPush
<1>3. /\ Last(JoinedTo(o, s)) = Last(s) /\ Front(JoinedTo(o, s)) = o \o Front(s) /\ Inside(JoinedTo(o, s))
  BY <1>1, <1>2, Zenon
<1>4. s \in Seq(Marks) BY DEF Inside
<1>5. Len(o \o s) = Len(o) + Len(s) /\ Len(o) \in Nat /\ Len(s) \in Nat \ {0} BY <1>4, Topped
<1>. QED BY <1>3, <1>5 DEF JoinedTo

\* What the decoder reads has no name that the encoder would refuse; in what it reads
\* through a window nothing has what such a name has.
Mute(s)  == \A i \in 1..Len(s) : s[i] # Control
Sound(s) == (\E T : s \in Seq(T)) /\ Mute(s)
Clear(d) == /\ d.pos \in 0..Len(d.buf) /\ \E T : d.buf \in Seq(T)
            /\ (d.window = FALSE /\ Speakable(d.buf)) \/ (Sound(d.buf) /\ Sound(d.file))

LEMMA PartOf ==
  ASSUME NEW S, NEW s \in Seq(S), NEW m \in Nat \ {0}, NEW n \in Nat, n <= Len(s)
  PROVE  SubSeq(s, m, n) \in Seq(S)
<1>1. CASE m > n
  <2>1. SubSeq(s, m, n) = <<>> BY <1>1
  <2>. QED BY <2>1
<1>2. CASE m <= n
  <2>1. m \in 1..Len(s) + 1 /\ n \in m - 1..Len(s) BY <1>2
  <2>. QED BY <2>1, SubSeqProperties
<1>. QED BY <1>1, <1>2

LEMMA SoundPart ==
  ASSUME NEW s, Sound(s), NEW m \in Nat \ {0}, NEW n \in Nat, n <= Len(s)
  PROVE  Sound(SubSeq(s, m, n))
<1>1. PICK T : s \in Seq(T) BY DEF Sound
<1>2. Len(s) \in Nat /\ \A i \in 1..Len(s) : s[i] \in T \ {Control} BY <1>1 DEF Sound, Mute
<1>3. s \in Seq(T \ {Control}) BY <1>1, <1>2
<1>4. SubSeq(s, m, n) \in Seq(T \ {Control}) BY <1>3, PartOf
<1>. QED BY <1>4 DEF Sound, Mute

LEMMA SoundJoined == ASSUME NEW s, Sound(s), NEW t, Sound(t) PROVE Sound(s \o t)
<1>1. PICK S : s \in Seq(S) BY DEF Sound
<1>2. PICK T : t \in Seq(T) BY DEF Sound
<1>3. PICK A : A = (S \cup T) \ {Control} OBVIOUS
<1>4. /\ Len(s) \in Nat /\ \A i \in 1..Len(s) : s[i] \in A
      /\ Len(t) \in Nat /\ \A i \in 1..Len(t) : t[i] \in A
  BY <1>1, <1>2, <1>3 DEF Sound, Mute
<1>5. s \in Seq(A) /\ t \in Seq(A) BY <1>1, <1>2, <1>4
<1>6. s \o t \in Seq(A) BY <1>5
<1>. QED BY <1>3, <1>6 DEF Sound, Mute

\* It stays so where the decoder reads on, stops, or writes.
LEMMA ClearStays ==
  ASSUME NEW d, Clear(d), NEW e, e.buf = d.buf, e.window = d.window, e.file = d.file, e.pos = d.pos
  PROVE  Clear(e)
BY DEF Clear

LEMMA ClearRefill == ASSUME NEW d, IsDecoder(d), Clear(d) PROVE Clear(Refill(d))
<1>1. CASE d.window = FALSE
  <2>1. Refill(d) = d BY <1>1 DEF Refill
  <2>. QED BY <2>1
<1>2. CASE Sound(d.buf) /\ Sound(d.file)
  <2>1. PICK size : size = Len(d.buf) OBVIOUS
  <2>2. PICK room : room = size - (size - d.pos) OBVIOUS
  <2>3. size \in Nat /\ d.pos \in 0..size /\ Len(d.file) \in Nat BY <1>2, <2>1 DEF Clear, Sound
  <2>4. PICK got : got = IF room < Len(d.file) THEN room ELSE Len(d.file) OBVIOUS
  <2>5. got \in Nat /\ got <= Len(d.file) /\ size - d.pos \in Nat BY <2>2, <2>3, <2>4
  <2>6. PICK all : all = SubSeq(d.buf, d.pos + 1, size) \o SubSeq(d.file, 1, got)
                           \o SubSeq(d.buf, (size - d.pos) + got + 1, size)
    OBVIOUS
  <2>7. PICK rest : rest = SubSeq(d.file, got + 1, Len(d.file)) OBVIOUS
  <2>8. Sound(all)
    <3>1. Sound(SubSeq(d.buf, d.pos + 1, size)) BY <1>2, <2>1, <2>3, SoundPart
    <3>2. Sound(SubSeq(d.file, 1, got)) BY <1>2, <2>5, SoundPart
    <3>3. Sound(SubSeq(d.buf, (size - d.pos) + got + 1, size)) BY <1>2, <2>1, <2>3, <2>5, SoundPart
    <3>. QED BY <2>6, <3>1, <3>2, <3>3, SoundJoined
  <2>9. Sound(rest) BY <1>2, <2>3, <2>5, <2>7, SoundPart
  <2>10. PICK eof : eof = (got < room) OBVIOUS
  <2>11. PICK e : e = Refill(d) OBVIOUS
  <2>12. e = d \/ e = [d EXCEPT !.buf = all, !.pos = 0, !.file = rest, !.eof = eof]
    BY <2>1, <2>2, <2>4, <2>6, <2>7, <2>10, <2>11 DEF Refill
  <2>13. CASE e = d BY <2>11, <2>13
  <2>14. CASE e = [d EXCEPT !.buf = all, !.pos = 0, !.file = rest, !.eof = eof]
    <3>1. e.buf = all /\ e.file = rest /\ e.pos = 0 BY <2>14 DEF IsDecoder
    <3>2. Len(all) \in Nat /\ \E T : all \in Seq(T) BY <2>8 DEF Sound
    <3>. QED BY <2>8, <2>9, <2>11, <3>1, <3>2 DEF Clear
  <2>. QED BY <2>12, <2>13, <2>14
<1>. QED BY <1>1, <1>2 DEF Clear

LEMMA ClearStop == ASSUME NEW d, IsDecoder(d), Clear(d), NEW r PROVE Clear(Stop(d, r))
<1>1. PICK e : e = Stop(d, r) OBVIOUS
<1>2. e.buf = d.buf /\ e.window = d.window /\ e.file = d.file /\ e.pos = d.pos BY <1>1 DEF Stop, IsDecoder
<1>. QED BY <1>1, <1>2, ClearStays

LEMMA ClearSkip ==
  ASSUME NEW d, IsDecoder(d), Clear(d), NEW n \in {1, 2}, IF n = 1 THEN ~AtEnd(d) ELSE ~(d.pos + 2 >= Len(d.buf))
  PROVE  Clear(Skip(d, n))
<1>1. PICK e : e = Skip(d, n) OBVIOUS
<1>2. e.buf = d.buf /\ e.window = d.window /\ e.file = d.file /\ e.pos = d.pos + n BY <1>1 DEF Skip, IsDecoder
<1>3. Len(d.buf) \in Nat /\ d.pos \in 0..Len(d.buf) BY DEF Clear
<1>4. e.pos \in 0..Len(d.buf) BY <1>2, <1>3 DEF AtEnd
<1>. QED BY <1>1, <1>2, <1>4 DEF Clear

LEMMA NotControl ==
  ASSUME NEW d, Clear(d), ~(d.pos + 1 >= Len(d.buf)), d.buf[d.pos + 2] = ":"
  PROVE  d.buf[d.pos + 1] # Control
<1>1. Len(d.buf) \in Nat /\ d.pos \in 0..Len(d.buf) BY DEF Clear
<1>2. d.pos + 1 \in 1..Len(d.buf) - 1 /\ (d.pos + 1) + 1 = d.pos + 2 BY <1>1
<1>3. CASE Speakable(d.buf) BY <1>2, <1>3 DEF Speakable
<1>4. CASE Sound(d.buf) BY <1>1, <1>2, <1>4 DEF Sound, Mute
<1>. QED BY <1>3, <1>4 DEF Clear

\* The decoder between two steps, and when it has stopped; q has what it was told of closing.
LeftOpen(o, close) == Len(o) = 1 /\ ~close
Begins0(d, o)  == LeftOpen(o, d.close) => ~AtEnd(d) /\ Token(d) \in Marks
Underway(d, o, k, keys) ==
  IF d.stack = <<>> THEN At(d.enc, o, k) /\ Begins0(d, o) ELSE At(d.enc, o \o d.stack, keys)
Done(d, o, keys) ==
  IF LeftOpen(o, d.close) THEN \E m \in Marks : At(d.enc, Append(o, m), keys) ELSE At(d.enc, o, keys)
Failed(d, o, k, keys) ==
  \E x \in Seq(Marks) : /\ LeftOpen(o, d.close) => x # <<>>
                        /\ At(d.enc, o \o x, k) \/ At(d.enc, o \o x, keys)
Decoding(d, o, name, k, q) ==
  /\ IsDecoder(d) /\ d.top = name /\ d.fix = FALSE /\ d.close \in BOOLEAN /\ d.close \in q
     /\ d.stack \in Seq(Marks) /\ Clear(d)
  /\ IF d.result = "running" THEN Underway(d, o, k, KeysAt(o, name, k))
     ELSE IF d.result = "ok" THEN Done(d, o, KeysAt(o, name, k))
     ELSE Failed(d, o, k, KeysAt(o, name, k))

\* It may give up wherever there is no container to be opened first.
LEMMA GivesUpHere ==
  ASSUME NEW d, NEW o, NEW name, NEW k, NEW q, Decoding(d, o, name, k, q), d.result = "running", Inside(o),
         NEW r, r \notin {"running", "ok"}, d.stack # <<>> \/ ~LeftOpen(o, d.close)
  PROVE  Decoding(Stop(d, r), o, name, k, q)
<1>1. IsDecoder(d) /\ d.top = name /\ d.fix = FALSE /\ d.close \in BOOLEAN /\ d.close \in q
      /\ d.stack \in Seq(Marks) /\ Clear(d)
      /\ Underway(d, o, k, KeysAt(o, name, k))
  BY DEF Decoding
<1>2. PICK e : e = Stop(d, r) OBVIOUS
<1>3. GoesOn(d, e) /\ e.enc = d.enc /\ e.stack = d.stack /\ e.result = r BY <1>1, <1>2, StopIs
<1>4. o \in Seq(Marks) BY DEF Inside
<1>5. Failed(e, o, k, KeysAt(o, name, k))
  <2>1. o \o <<>> = o /\ <<>> \in Seq(Marks) BY <1>1, <1>4, JoinedStack
  <2>. QED BY <1>1, <1>3, <2>1 DEF Underway, Failed, GoesOn
<1>6. Clear(e) BY <1>1, <1>2, ClearStop
<1>. QED BY <1>1, <1>2, <1>3, <1>5, <1>6 DEF Decoding, GoesOn

\* What follows an element.
LEMMA AfterElementKeeps ==
  ASSUME NEW d, NEW o, NEW name, NEW k, NEW q, Inside(o), IsDecoder(d), d.top = name, d.fix = FALSE,
         d.close \in BOOLEAN /\ d.close \in q, Clear(d),
         d.stack \in Seq(Marks), d.result = "running",
         IF d.stack = <<>> THEN Done(d, o, KeysAt(o, name, k)) ELSE At(d.enc, o \o d.stack, KeysAt(o, name, k))
  PROVE  Decoding(AfterElement(d), o, name, k, q)
<1>1. o \in Seq(Marks) BY DEF Inside
<1>2. PICK keys : keys = KeysAt(o, name, k) OBVIOUS
<1>3. CASE ~d.enc.ok
  <2>1. PICK e : e = Stop(d, "refused") OBVIOUS
  <2>2. GoesOn(d, e) /\ e.enc = d.enc /\ e.stack = d.stack /\ e.result = "refused" BY <2>1, StopIs
  <2>3. Failed(e, o, k, keys)
    <3>1. CASE d.stack # <<>> BY <1>2, <2>2, <3>1 DEF Failed, GoesOn
    <3>2. CASE d.stack = <<>> /\ ~LeftOpen(o, d.close)
      <4>1. o \o <<>> = o /\ <<>> \in Seq(Marks) BY <1>1, JoinedStack
      <4>. QED BY <1>2, <2>2, <3>2, <4>1 DEF Failed, Done, GoesOn
    <3>3. CASE d.stack = <<>> /\ LeftOpen(o, d.close)
      <4>1. PICK m \in Marks : At(d.enc, Append(o, m), keys) BY <1>2, <3>3 DEF Done
      <4>2. Append(o, m) = o \o <<m>> /\ <<m>> \in Seq(Marks) /\ <<m>> # <<>> BY <1>1, <4>1
      <4>. QED BY <2>2, <4>1, <4>2 DEF Failed
    <3>. QED BY <3>1, <3>2, <3>3
  <2>4. AfterElement(d) = e BY <1>3, <2>1 DEF AfterElement
  <2>5. Clear(e) BY <2>1, ClearStop
  <2>. QED BY <1>2, <2>2, <2>3, <2>4, <2>5 DEF Decoding, GoesOn
<1>4. CASE d.enc.ok /\ d.stack = <<>>
  <2>1. PICK e : e = Stop(d, "ok") OBVIOUS
  <2>2. GoesOn(d, e) /\ e.enc = d.enc /\ e.stack = d.stack /\ e.result = "ok" BY <2>1, StopIs
  <2>3. AfterElement(d) = e BY <1>4, <2>1 DEF AfterElement
  <2>4. Done(e, o, KeysAt(o, name, k)) BY <1>4, <2>2 DEF Done, GoesOn
  <2>5. Clear(e) BY <2>1, ClearStop
  <2>. QED BY <2>2, <2>3, <2>4, <2>5 DEF Decoding, GoesOn
<1>5. CASE d.enc.ok /\ d.stack # <<>>
  <2>1. PICK e : e = AfterElement(d) OBVIOUS
  <2>2. e = d \/ (~AtEnd(d) /\ e = Skip(d, 1)) BY <1>5, <2>1 DEF AfterElement
  <2>3. Same(d, e)
    <3>1. Same(d, d) BY DEF Same, GoesOn
    <3>2. Same(d, Skip(d, 1)) BY SkipIs
    <3>. QED BY <2>2, <3>1, <3>2
  <2>4. Clear(e) BY <2>2, ClearSkip
  <2>. QED BY <1>5, <2>1, <2>3, <2>4 DEF Decoding, Same, GoesOn, Underway
<1>. QED BY <1>3, <1>4, <1>5

\* The name an element may have.
NamedHere(d, name, n) == IF d.stack = <<>> THEN n = name ELSE NameIn(Last(d.stack), n)

LEMMA LongNoRoot ==
  ASSUME NEW p, NEW n \in Nat, NEW m \in Nat \ {0}, n # 0, Len(p) = n + m, NEW name, NEW keys
  PROVE  KeysAt(p, name, keys) = keys
<1>1. ~(Len(p) = 1) OBVIOUS
<1>. QED BY <1>1, Zenon DEF KeysAt

LEMMA InsideLong == ASSUME NEW o, Inside(o) PROVE Len(o) \in Nat \ {0} /\ o \in Seq(Marks) /\ o # <<>>
BY DEF Inside

LEMMA OpenHere ==
  ASSUME NEW d, NEW o, NEW name, NEW k, NEW q, Decoding(d, o, name, k, q), d.result = "running", Inside(o),
         Writable(name),
         NEW n, NamedHere(d, name, n)
  PROVE  \E l : /\ At(d.enc, o \o d.stack, l) /\ Fits(d.enc, o \o d.stack, n)
                /\ KeysAt(o \o d.stack, n, l) = KeysAt(o, name, k)
<1>1. d.stack \in Seq(Marks) /\ Underway(d, o, k, KeysAt(o, name, k)) BY DEF Decoding
<1>2. o \in Seq(Marks) /\ Len(o) \in Nat \ {0} /\ o # <<>> BY InsideLong
<1>3. CASE d.stack = <<>>
  <2>1. n = name BY <1>3 DEF NamedHere
  <2>2. At(d.enc, o, k) BY <1>1, <1>3 DEF Underway
  <2>3. o \o d.stack = o BY <1>2, <1>3
  <2>4. Fits(d.enc, o, n) BY <1>2, <2>1, Zenon DEF Fits
  <2>. QED BY <2>1, <2>2, <2>3, <2>4
<1>4. CASE d.stack # <<>>
  <2>1. Inside(d.stack) BY <1>1, <1>4 DEF Inside
  <2>2. NameIn(Last(d.stack), n) BY <1>4 DEF NamedHere
  <2>3. PICK p : p = o \o d.stack OBVIOUS
  <2>4. Last(p) = Last(d.stack) /\ Inside(p) /\ Len(p) = Len(o) + Len(d.stack) /\ Len(d.stack) \in Nat \ {0}
    BY <1>2, <2>1, <2>3, JoinedTop
  <2>5. PICK keys : keys = KeysAt(o, name, k) OBVIOUS
  <2>6. At(d.enc, p, keys) BY <1>1, <1>4, <2>3, <2>5 DEF Underway
  <2>7. Fits(d.enc, p, n)
    <3>1. p # <<>> BY <2>4, InsideLong
    <3>. QED BY <2>2, <2>4, <3>1, Zenon DEF Fits, InAnObject, NameIn
  <2>8. KeysAt(p, n, keys) = keys BY <1>2, <2>4, LongNoRoot
  <2>. QED BY <2>3, <2>5, <2>6, <2>7, <2>8
<1>. QED BY <1>3, <1>4

\* The decoder's branches for an element.
Began(d, n, t) == [Skip(d, 1) EXCEPT !.enc = BeginContainer(@, n, t), !.path = Append(@, n), !.stack = Append(@, t)]
Added(d, n, t) == [Skip(d, 1) EXCEPT !.enc = AddElement(@, n, t)]

LEMMA ElementIs ==
  ASSUME NEW d, d.fix = FALSE, NEW n, NEW t, t = Token(d)
  PROVE  \/ /\ t \in Marks
            /\ Element(d, n) = IF Refill(Began(d, n, t)).enc.ok THEN Refill(Began(d, n, t))
                               ELSE Stop(Refill(Began(d, n, t)), "refused")
         \/ t \notin Marks /\ \E r \in {"invalid", "too long", "incomplete"} : Element(d, n) = Stop(d, r)
         \/ t \notin Marks /\ Scalar(t) /\ Element(d, n) = AfterElement(Refill(Added(d, n, t)))
<1>1. Fixed(d, n, t) = t BY DEF Fixed
<1>2. PICK e : e = Refill(Began(d, n, t)) OBVIOUS
<1>3. PICK f : f = AfterElement(Refill(Added(d, n, t))) OBVIOUS
<1>4. e = Refill([Skip(d, 1) EXCEPT !.enc = BeginContainer(@, n, t), !.path = Append(@, n), !.stack = Append(@, t)])
  BY <1>2 DEF Began
<1>5. f = AfterElement(Refill([Skip(d, 1) EXCEPT !.enc = AddElement(@, n, Fixed(d, n, t))]))
  BY <1>1, <1>3, Zenon DEF Added
<1>. DEFINE E == LET x == Refill([Skip(d, 1) EXCEPT !.enc = BeginContainer(@, n, t),
                                            !.path = Append(@, n), !.stack = Append(@, t)]) IN
                 IF d.fix /\ Len(d.path) >= MaxDepth THEN Stop(x, "too long")
                 ELSE IF x.enc.ok THEN x ELSE Stop(x, "refused")
            F == AfterElement(Refill([Skip(d, 1) EXCEPT !.enc = AddElement(@, n, Fixed(d, n, t))]))
            S(r) == Stop(d, r)
<1>6. E = IF e.enc.ok THEN e ELSE Stop(e, "refused") BY <1>4
<1>7. F = f BY <1>5
<1>8. Element(d, n) = CASE t \in {"[", "{"} -> E
                        [] t \in {"]", "}", ",", ":", Junk, Null} -> S("invalid")
                        [] TooLong(d, t) -> S("too long")
                        [] t \in Numbers /\ d.pos + 1 >= Len(d.buf) -> S("incomplete")
                        [] OTHER -> F
  BY DEF Element
<1>9. \A r : S(r) = Stop(d, r) OBVIOUS
<1>. HIDE DEF E, F, S
<1>10. \/ t \in {"[", "{"} /\ Element(d, n) = E
       \/ t \notin {"[", "{"} /\ \E r \in {"invalid", "too long", "incomplete"} : Element(d, n) = S(r)
       \/ t \notin {"[", "{"} /\ t \notin {"]", "}", ",", ":", Junk, Null} /\ Element(d, n) = F
  <2>1. CASE t \in {"[", "{"} BY <1>8, <2>1 DEF Junk, Null, TooLong, Huge, Long, Numbers, Number, Now
  <2>2. CASE t \notin {"[", "{"}
    <3>1. \/ \E r \in {"invalid", "too long", "incomplete"} : Element(d, n) = S(r)
          \/ t \notin {"]", "}", ",", ":", Junk, Null} /\ Element(d, n) = F
      BY <1>8, <2>2
    <3>. QED BY <2>2, <3>1
  <2>. QED BY <2>1, <2>2
<1>11. CASE t \in {"[", "{"} /\ Element(d, n) = E
  BY <1>2, <1>6, <1>11 DEF Marks
<1>12. CASE t \notin {"[", "{"} /\ \E r \in {"invalid", "too long", "incomplete"} : Element(d, n) = S(r)
  BY <1>9, <1>12 DEF Marks
<1>13. CASE t \notin {"[", "{"} /\ t \notin {"]", "}", ",", ":", Junk, Null} /\ Element(d, n) = F
  <2>1. t \notin Marks /\ Scalar(t)
    BY <1>13 DEF Marks, Scalar, Strings, NotStrings, Punctuation, Numbers, Junk, Null, Literal, Number, Now
  <2>. QED BY <2>1, <1>3, <1>7, <1>13
<1>. QED BY <1>10, <1>11, <1>12, <1>13

LEMMA BeganIs ==
  ASSUME NEW d, IsDecoder(d), NEW n, NEW t, NEW e, e = Refill(Began(d, n, t))
  PROVE  GoesOn(d, e) /\ e.enc = BeginContainer(d.enc, n, t) /\ e.stack = Append(d.stack, t) /\ e.result = d.result
         /\ (Clear(d) /\ ~AtEnd(d) => Clear(e))
<1>1. PICK s : s = Skip(d, 1) OBVIOUS
<1>2. Same(d, s) BY <1>1, SkipIs
<1>3. PICK c : c = BeginContainer(d.enc, n, t) OBVIOUS
<1>4. PICK u : u = Append(d.stack, t) OBVIOUS
<1>5. PICK p : p = Append(s.path, n) OBVIOUS
<1>6. PICK b : b = [s EXCEPT !.enc = c, !.path = p, !.stack = u] OBVIOUS
<1>7. s.enc = d.enc /\ s.stack = d.stack BY <1>2 DEF Same
<1>8. b = Began(d, n, t) BY <1>1, <1>3, <1>4, <1>5, <1>6, <1>7 DEF Began
<1>9. IsDecoder(s) BY <1>2 DEF Same, GoesOn
<1>10. GoesOn(s, b) /\ b.enc = c /\ b.stack = u /\ b.result = s.result
  BY <1>6, <1>9 DEF IsDecoder, GoesOn
<1>11. Same(b, e) BY <1>8, <1>10, RefillIs DEF GoesOn
<1>12. ASSUME Clear(d), ~AtEnd(d) PROVE Clear(e)
  <2>1. Clear(s) BY <1>1, <1>12, ClearSkip
  <2>2. b.buf = s.buf /\ b.window = s.window /\ b.file = s.file /\ b.pos = s.pos BY <1>6, <1>9 DEF IsDecoder
  <2>3. Clear(b) BY <2>1, <2>2, ClearStays
  <2>. QED BY <1>8, <1>10, <2>3, ClearRefill DEF GoesOn
<1>. QED BY <1>2, <1>3, <1>4, <1>10, <1>11, <1>12 DEF Same, GoesOn

LEMMA AddedIs ==
  ASSUME NEW d, IsDecoder(d), NEW n, NEW t, NEW e, e = Refill(Added(d, n, t))
  PROVE  GoesOn(d, e) /\ e.enc = AddElement(d.enc, n, t) /\ e.stack = d.stack /\ e.result = d.result
         /\ (Clear(d) /\ ~AtEnd(d) => Clear(e))
<1>1. PICK s : s = Skip(d, 1) OBVIOUS
<1>2. Same(d, s) BY <1>1, SkipIs
<1>3. PICK c : c = AddElement(d.enc, n, t) OBVIOUS
<1>4. PICK b : b = [s EXCEPT !.enc = c] OBVIOUS
<1>5. s.enc = d.enc BY <1>2 DEF Same
<1>6. b = Added(d, n, t) BY <1>1, <1>3, <1>4, <1>5 DEF Added
<1>7. IsDecoder(s) BY <1>2 DEF Same, GoesOn
<1>8. GoesOn(s, b) /\ b.enc = c /\ b.stack = s.stack /\ b.result = s.result BY <1>4, <1>7, NewEncIs
<1>9. Same(b, e) BY <1>6, <1>8, RefillIs DEF GoesOn
<1>10. ASSUME Clear(d), ~AtEnd(d) PROVE Clear(e)
  <2>1. Clear(s) BY <1>1, <1>10, ClearSkip
  <2>2. b.buf = s.buf /\ b.window = s.window /\ b.file = s.file /\ b.pos = s.pos BY <1>4, <1>7 DEF IsDecoder
  <2>3. Clear(b) BY <2>1, <2>2, ClearStays
  <2>. QED BY <1>6, <1>8, <2>3, ClearRefill DEF GoesOn
<1>. QED BY <1>2, <1>3, <1>8, <1>9, <1>10 DEF Same, GoesOn

LEMMA PushedOn == ASSUME NEW s \in Seq(Marks), NEW m \in Marks
  PROVE Append(s, m) \in Seq(Marks) /\ Append(s, m) # <<>>
BY Pushed

\* An element is taken over in its place, or the decoder gives up.
LEMMA ElementKeeps ==
  ASSUME NEW d, NEW o, NEW name, NEW k, NEW q, Decoding(d, o, name, k, q), d.result = "running", Inside(o),
         Writable(name),
         NEW n, NamedHere(d, name, n), ~AtEnd(d)
  PROVE  Decoding(Element(d, n), o, name, k, q)
<1>1. /\ IsDecoder(d) /\ d.top = name /\ d.fix = FALSE /\ d.close \in BOOLEAN /\ d.close \in q
      /\ d.stack \in Seq(Marks) /\ Clear(d)
      /\ Underway(d, o, k, KeysAt(o, name, k))
  BY DEF Decoding
<1>2. PICK t : t = Token(d) OBVIOUS
<1>3. PICK keys : keys = KeysAt(o, name, k) OBVIOUS
<1>4. o \in Seq(Marks) BY DEF Inside
<1>5. PICK l : /\ At(d.enc, o \o d.stack, l) /\ Fits(d.enc, o \o d.stack, n) /\ KeysAt(o \o d.stack, n, l) = keys
  BY <1>3, OpenHere
<1>6. ASSUME t \in Marks PROVE /\ Decoding(Refill(Began(d, n, t)), o, name, k, q)
                               /\ Decoding(Stop(Refill(Began(d, n, t)), "refused"), o, name, k, q)
  <2>1. PICK e : e = Refill(Began(d, n, t)) OBVIOUS
  <2>2. GoesOn(d, e) /\ e.enc = BeginContainer(d.enc, n, t) /\ e.stack = Append(d.stack, t) /\ e.result = d.result
         /\ Clear(e)
    BY <1>1, <2>1, BeganIs
  <2>3. At(BeginContainer(d.enc, n, t), Append(o \o d.stack, t), KeysAt(o \o d.stack, n, l))
    BY <1>5, <1>6, BeginContainerWrites
  <2>4. Append(o \o d.stack, t) = o \o Append(d.stack, t) BY <1>1, <1>4, <1>6, JoinedStack
  <2>5. At(e.enc, o \o e.stack, keys) BY <1>5, <2>2, <2>3, <2>4
  <2>6. e.stack \in Seq(Marks) /\ e.stack # <<>> BY <1>1, <1>6, <2>2, PushedOn
  <2>7. Underway(e, o, k, keys) BY <2>5, <2>6 DEF Underway
  <2>8. Decoding(e, o, name, k, q) BY <1>1, <1>3, <2>2, <2>6, <2>7 DEF Decoding, GoesOn
  <2>9. Decoding(Stop(e, "refused"), o, name, k, q) BY <2>2, <2>8, GivesUpHere
  <2>. QED BY <2>1, <2>8, <2>9
<1>7. ASSUME t \notin Marks, NEW r \in {"invalid", "too long", "incomplete"}
      PROVE  Decoding(Stop(d, r), o, name, k, q)
  <2>1. r \notin {"running", "ok"} OBVIOUS
  <2>2. d.stack # <<>> \/ ~LeftOpen(o, d.close) BY <1>1, <1>2, <1>7 DEF Underway, Begins0
  <2>. QED BY <2>1, <2>2, GivesUpHere
<1>8. ASSUME t \notin Marks, Scalar(t) PROVE Decoding(AfterElement(Refill(Added(d, n, t))), o, name, k, q)
  <2>1. PICK e : e = Refill(Added(d, n, t)) OBVIOUS
  <2>2. GoesOn(d, e) /\ e.enc = AddElement(d.enc, n, t) /\ e.stack = d.stack /\ e.result = d.result
         /\ Clear(e)
    BY <1>1, <2>1, AddedIs
  <2>3. At(AddElement(d.enc, n, t), o \o d.stack, KeysAt(o \o d.stack, n, l)) BY <1>5, <1>8, AddElementWrites
  <2>4. At(e.enc, o \o e.stack, keys) BY <1>5, <2>2, <2>3
  <2>5. CASE d.stack = <<>>
    <3>1. ~LeftOpen(o, d.close) BY <1>1, <1>2, <1>8, <2>5 DEF Underway, Begins0
    <3>2. o \o e.stack = o BY <1>4, <2>2, <2>5, JoinedStack
    <3>3. Done(e, o, keys) BY <2>2, <2>4, <3>1, <3>2 DEF Done, GoesOn
    <3>4. Decoding(AfterElement(e), o, name, k, q)
      BY <1>1, <1>3, <2>2, <2>5, <3>3, AfterElementKeeps DEF GoesOn
    <3>. QED BY <2>1, <3>4
  <2>6. CASE d.stack # <<>>
    <3>1. Decoding(AfterElement(e), o, name, k, q)
      BY <1>1, <1>3, <2>2, <2>4, <2>6, AfterElementKeeps DEF GoesOn
    <3>. QED BY <2>1, <3>1
  <2>. QED BY <2>5, <2>6
<1>. PICK e : e = Element(d, n) OBVIOUS
<1>9. \/ t \in Marks /\ (e = Refill(Began(d, n, t)) \/ e = Stop(Refill(Began(d, n, t)), "refused"))
      \/ t \notin Marks /\ \E r \in {"invalid", "too long", "incomplete"} : e = Stop(d, r)
      \/ t \notin Marks /\ Scalar(t) /\ e = AfterElement(Refill(Added(d, n, t)))
  BY <1>1, <1>2, ElementIs
<1>10. Decoding(e, o, name, k, q) BY <1>6, <1>7, <1>8, <1>9
<1>. QED BY <1>10

LEMMA StillAt ==
  ASSUME NEW c, NEW o, NEW keys, At(c, o, keys), NEW d, d = [c EXCEPT !.ok = TRUE]
  PROVE  At(d, o, keys)
<1>1. IsEncoder(c) /\ c.open = o /\ o \in Seq(Marks) /\ c.first \in BOOLEAN
      /\ Reads(c.out, State(o, Want(c), keys))
  BY DEF At
<1>2. IsEncoder(d) /\ d.open = c.open /\ d.first = c.first /\ d.out = c.out BY <1>1, OkSet
<1>3. Want(d) = Want(c) BY <1>2 DEF Want
<1>. QED BY <1>1, <1>2, <1>3 DEF At

LEMMA OneLeft ==
  ASSUME NEW s, Inside(s)
  PROVE  /\ Len(s) \in Nat \ {0} /\ Front(s) \in Seq(Marks) /\ Last(s) \in Marks
         /\ Front(s) = <<>> <=> Len(s) = 1
         /\ Front(s) = <<>> => s = Append(<<>>, Last(s))
<1>1. Front(s) \in Seq(Marks) /\ Last(s) \in Marks /\ Append(Front(s), Last(s)) = s /\ Len(s) \in Nat \ {0}
  BY Topped
<1>2. Len(Front(s)) = Len(s) - 1
  <2>1. s \in Seq(Marks) /\ s # <<>> BY DEF Inside
  <2>. QED BY <2>1, Popped
<1>3. Front(s) = <<>> <=> Len(Front(s)) = 0 BY <1>1
<1>. QED BY <1>1, <1>2, <1>3

LEMMA FewOpen ==
  ASSUME NEW a \in Nat \ {0}, NEW b \in Nat \ {0}
  PROVE  a + b > 2 <=> ~(a = 1 /\ b = 1)
OBVIOUS

Ended(d) == IF d.close \/ Len(d.enc.open) > 2 THEN EndContainer(d.enc) ELSE [d.enc EXCEPT !.ok = TRUE]
LEMMA EndIs ==
  ASSUME NEW d, IsDecoder(d), d.fix = FALSE
  PROVE  \E e : /\ GoesOn(d, e) /\ e.enc = Ended(d) /\ e.stack = Front(d.stack) /\ e.result = d.result
                /\ (Clear(d) /\ ~AtEnd(d) => Clear(e)) /\ End(d) = AfterElement(e)
<1>1. PICK s : s = Skip(d, 1) OBVIOUS
<1>2. Same(d, s) BY <1>1, SkipIs
<1>3. PICK c : c = Ended(d) OBVIOUS
<1>4. PICK u : u = Front(d.stack) OBVIOUS
<1>5. PICK p : p = Front(s.path) OBVIOUS
<1>6. PICK b : b = [s EXCEPT !.enc = c, !.path = p, !.stack = u] OBVIOUS
<1>7. s.enc = d.enc /\ s.stack = d.stack BY <1>2 DEF Same
<1>8. End(d) = AfterElement(Refill(b)) BY <1>1, <1>3, <1>4, <1>5, <1>6, <1>7 DEF End, Ended
<1>9. IsDecoder(s) BY <1>2 DEF Same, GoesOn
<1>10. GoesOn(s, b) /\ b.enc = c /\ b.stack = u /\ b.result = s.result
  BY <1>6, <1>9 DEF IsDecoder, GoesOn
<1>11. PICK e : e = Refill(b) OBVIOUS
<1>12. Same(b, e) BY <1>10, <1>11, RefillIs DEF GoesOn
<1>13. ASSUME Clear(d), ~AtEnd(d) PROVE Clear(e)
  <2>1. Clear(s) BY <1>1, <1>13, ClearSkip
  <2>2. b.buf = s.buf /\ b.window = s.window /\ b.file = s.file /\ b.pos = s.pos BY <1>6, <1>9 DEF IsDecoder
  <2>3. Clear(b) BY <2>1, <2>2, ClearStays
  <2>. QED BY <1>10, <1>11, <2>3, ClearRefill DEF GoesOn
<1>. QED BY <1>2, <1>3, <1>4, <1>8, <1>10, <1>11, <1>12, <1>13 DEF Same, GoesOn

\* The end of a container is taken over, but for the outermost one that is to be left open.
LEMMA EndKeeps ==
  ASSUME NEW d, NEW o, NEW name, NEW k, NEW q, Decoding(d, o, name, k, q), d.result = "running", Inside(o),
         d.stack # <<>>, ~AtEnd(d)
  PROVE  Decoding(End(d), o, name, k, q)
<1>1. /\ IsDecoder(d) /\ d.top = name /\ d.fix = FALSE /\ d.close \in BOOLEAN /\ d.close \in q
      /\ d.stack \in Seq(Marks) /\ Clear(d)
      /\ Underway(d, o, k, KeysAt(o, name, k))
  BY DEF Decoding
<1>2. PICK keys : keys = KeysAt(o, name, k) OBVIOUS
<1>3. At(d.enc, o \o d.stack, keys) BY <1>1, <1>2 DEF Underway
<1>4. Inside(d.stack) BY <1>1 DEF Inside
<1>5. o \in Seq(Marks) /\ Len(o) \in Nat \ {0} BY InsideLong
<1>6. /\ Front(o \o d.stack) = o \o Front(d.stack) /\ Inside(o \o d.stack)
      /\ Len(o \o d.stack) = Len(o) + Len(d.stack) /\ Len(d.stack) \in Nat \ {0}
  BY <1>4, <1>5, JoinedTop
<1>7. d.enc.open = o \o d.stack BY <1>3 DEF At
<1>8. Len(d.enc.open) > 2 <=> ~(Len(o) = 1 /\ Len(d.stack) = 1) BY <1>5, <1>6, <1>7, FewOpen
<1>9. PICK e : /\ GoesOn(d, e) /\ e.enc = Ended(d) /\ e.stack = Front(d.stack) /\ e.result = d.result
               /\ Clear(e) /\ End(d) = AfterElement(e)
  BY <1>1, EndIs
<1>10. Front(d.stack) \in Seq(Marks) /\ (Front(d.stack) = <<>> <=> Len(d.stack) = 1) BY <1>4, OneLeft
<1>11. CASE LeftOpen(o, d.close) /\ Len(d.stack) = 1
  <2>1. Ended(d) = [d.enc EXCEPT !.ok = TRUE] BY <1>8, <1>11 DEF Ended, LeftOpen
  <2>2. At(e.enc, o \o d.stack, keys) BY <1>3, <1>9, <2>1, StillAt
  <2>3. d.stack = Append(<<>>, Last(d.stack)) /\ Last(d.stack) \in Marks BY <1>4, <1>10, <1>11, OneLeft
  <2>4. o \o d.stack = Append(o, Last(d.stack))
    <3>1. <<>> \in Seq(Marks) /\ o \o <<>> = o BY <1>5
    <3>2. Append(o \o <<>>, Last(d.stack)) = o \o Append(<<>>, Last(d.stack)) BY <1>5, <2>3, <3>1, JoinedStack
    <3>. QED BY <2>3, <3>1, <3>2
  <2>5. Done(e, o, keys) BY <1>9, <1>11, <2>2, <2>3, <2>4 DEF Done, GoesOn
  <2>6. Decoding(AfterElement(e), o, name, k, q)
    BY <1>1, <1>2, <1>9, <1>10, <1>11, <2>5, AfterElementKeeps DEF GoesOn
  <2>. QED BY <1>9, <2>6
<1>12. CASE ~(LeftOpen(o, d.close) /\ Len(d.stack) = 1)
  <2>1. Ended(d) = EndContainer(d.enc) BY <1>8, <1>12 DEF Ended, LeftOpen
  <2>2. At(e.enc, o \o e.stack, keys)
    <3>1. o \o d.stack # <<>> BY <1>6 DEF Inside
    <3>2. At(EndContainer(d.enc), Front(o \o d.stack), keys) BY <1>3, <3>1, EndContainerWrites
    <3>. QED BY <1>6, <1>9, <2>1, <3>2
  <2>3. e.stack = <<>> => Done(e, o, keys)
    <3>1. o \o <<>> = o BY <1>5
    <3>. QED BY <1>9, <1>10, <1>12, <2>2, <3>1 DEF Done, GoesOn
  <2>4. Decoding(AfterElement(e), o, name, k, q)
    BY <1>1, <1>2, <1>9, <1>10, <2>2, <2>3, AfterElementKeeps DEF GoesOn
  <2>. QED BY <1>9, <2>4
<1>. QED BY <1>11, <1>12

LEMMA NamedKeeps ==
  ASSUME NEW d, NEW o, NEW name, NEW k, NEW q, Decoding(d, o, name, k, q), d.result = "running", Inside(o),
         Writable(name),
         d.stack # <<>>
  PROVE  Decoding(Named(d), o, name, k, q)
<1>1. PICK t : t = Token(d) OBVIOUS
<1>2. PICK e : e = Named(d) OBVIOUS
<1>3. \/ \E r \in {"invalid", "too long", "incomplete"} : e = Stop(d, r)
      \/ /\ Strings(t) /\ ~(d.pos + 1 >= Len(d.buf)) /\ d.buf[d.pos + 2] = ":"
         /\ ~(d.pos + 2 >= Len(d.buf)) /\ e = Element(Skip(d, 2), t)
  BY <1>1, <1>2 DEF Named, Strings
<1>7. ASSUME Strings(t), ~(d.pos + 1 >= Len(d.buf)), d.buf[d.pos + 2] = ":" PROVE Writable(t)
  <2>1. Clear(d) BY DEF Decoding
  <2>2. d.buf[d.pos + 1] # Control BY <1>7, <2>1, NotControl
  <2>. QED BY <1>1, <1>7, <2>2 DEF Token, Writable
<1>4. ASSUME NEW r \in {"invalid", "too long", "incomplete"} PROVE Decoding(Stop(d, r), o, name, k, q)
  <2>1. r \notin {"running", "ok"} OBVIOUS
  <2>. QED BY <2>1, GivesUpHere
<1>5. ASSUME Writable(t), ~(d.pos + 2 >= Len(d.buf)) PROVE Decoding(Element(Skip(d, 2), t), o, name, k, q)
  <2>1. PICK s : s = Skip(d, 2) OBVIOUS
  <2>2. IsDecoder(d) BY DEF Decoding
  <2>3. Same(d, s) BY <2>1, <2>2, SkipIs
  <2>9. Clear(d) BY DEF Decoding
  <2>10. Clear(s) BY <1>5, <2>1, <2>2, <2>9, ClearSkip
  <2>4. Decoding(s, o, name, k, q) BY <2>3, <2>10 DEF Decoding, Same, GoesOn, Underway
  <2>5. NamedHere(s, name, t) BY <1>5, <2>3 DEF NamedHere, NameIn, Same
  <2>6. s.pos = d.pos + 2 /\ s.buf = d.buf BY <2>1, <2>2 DEF Skip, IsDecoder
  <2>7. ~AtEnd(s) BY <1>5, <2>6, Zenon DEF AtEnd
  <2>8. Decoding(Element(s, t), o, name, k, q) BY <2>3, <2>4, <2>5, <2>7, ElementKeeps DEF Same
  <2>. QED BY <2>1, <2>8
<1>6. Decoding(e, o, name, k, q) BY <1>3, <1>4, <1>5, <1>7
<1>. QED BY <1>2, <1>6

LEMMA DecodeStepKeeps ==
  ASSUME NEW d, NEW o, NEW name, NEW k, NEW q, Decoding(d, o, name, k, q), d.result = "running", Inside(o),
         Writable(name)
  PROVE  Decoding(DecodeStep(d), o, name, k, q)
<1>1. CASE AtEnd(d)
  <2>1. d.stack # <<>> \/ ~LeftOpen(o, d.close) BY <1>1 DEF Decoding, Underway, Begins0
  <2>2. Decoding(Stop(d, "incomplete"), o, name, k, q) BY <2>1, GivesUpHere
  <2>. QED BY <1>1, <2>2 DEF DecodeStep
<1>2. CASE ~AtEnd(d) /\ d.stack = <<>>
  <2>1. d.top = name BY DEF Decoding
  <2>2. NamedHere(d, name, name) BY <1>2 DEF NamedHere
  <2>3. Decoding(Element(d, name), o, name, k, q) BY <1>2, <2>2, ElementKeeps
  <2>. QED BY <1>2, <2>1, <2>3 DEF DecodeStep
<1>3. CASE ~AtEnd(d) /\ d.stack # <<>> /\ Token(d) = Closer(Last(d.stack))
  <2>1. Decoding(End(d), o, name, k, q) BY <1>3, EndKeeps
  <2>. QED BY <1>3, <2>1 DEF DecodeStep
<1>4. CASE ~AtEnd(d) /\ d.stack # <<>> /\ Token(d) # Closer(Last(d.stack)) /\ Last(d.stack) = "["
  <2>1. NamedHere(d, name, Null) BY <1>4 DEF NamedHere, NameIn
  <2>2. Decoding(Element(d, Null), o, name, k, q) BY <1>4, <2>1, ElementKeeps
  <2>. QED BY <1>4, <2>2 DEF DecodeStep
<1>5. CASE ~AtEnd(d) /\ d.stack # <<>> /\ Token(d) # Closer(Last(d.stack)) /\ Last(d.stack) # "["
  <2>1. Decoding(Named(d), o, name, k, q) BY <1>5, NamedKeeps
  <2>. QED BY <1>5, <2>1 DEF DecodeStep
<1>. QED BY <1>1, <1>2, <1>3, <1>4, <1>5

\* After a step it has begun with a container, or stopped.
Moving(d) == d.result # "running" \/ d.stack # <<>>
LEMMA AfterElementMoves == ASSUME NEW d, IsDecoder(d) PROVE Moving(AfterElement(d))
<1>1. PICK e : e = AfterElement(d) OBVIOUS
<1>2. e = Stop(d, "refused") \/ e = Stop(d, "ok") \/ (d.stack # <<>> /\ (e = d \/ e = Skip(d, 1)))
  BY <1>1 DEF AfterElement
<1>3. Stop(d, "refused").result # "running" /\ Stop(d, "ok").result # "running" BY DEF Stop, IsDecoder
<1>4. Skip(d, 1).stack = d.stack BY DEF Skip, IsDecoder
<1>. QED BY <1>1, <1>2, <1>3, <1>4 DEF Moving

LEMMA ElementMoves ==
  ASSUME NEW d, IsDecoder(d), d.fix = FALSE, d.stack \in Seq(Marks), NEW n PROVE Moving(Element(d, n))
<1>1. PICK t : t = Token(d) OBVIOUS
<1>2. ASSUME t \in Marks PROVE /\ Moving(Refill(Began(d, n, t)))
                               /\ Moving(Stop(Refill(Began(d, n, t)), "refused"))
  <2>1. PICK e : e = Refill(Began(d, n, t)) OBVIOUS
  <2>2. IsDecoder(e) /\ e.stack = Append(d.stack, t) BY <2>1, BeganIs DEF GoesOn
  <2>3. e.stack # <<>> BY <1>2, <2>2, PushedOn
  <2>4. Stop(e, "refused").result = "refused" BY <2>2 DEF Stop, IsDecoder
  <2>. QED BY <2>1, <2>3, <2>4 DEF Moving
<1>3. ASSUME NEW r \in {"invalid", "too long", "incomplete"} PROVE Moving(Stop(d, r))
  <2>1. Stop(d, r).result = r BY DEF Stop, IsDecoder
  <2>. QED BY <2>1 DEF Moving
<1>4. Moving(AfterElement(Refill(Added(d, n, t)))) BY AddedIs, AfterElementMoves DEF GoesOn
<1>5. PICK e : e = Element(d, n) OBVIOUS
<1>6. \/ t \in Marks /\ (e = Refill(Began(d, n, t)) \/ e = Stop(Refill(Began(d, n, t)), "refused"))
      \/ \E r \in {"invalid", "too long", "incomplete"} : e = Stop(d, r)
      \/ e = AfterElement(Refill(Added(d, n, t)))
  BY <1>1, <1>5, ElementIs
<1>7. Moving(e) BY <1>2, <1>3, <1>4, <1>6
<1>. QED BY <1>5, <1>7

LEMMA StepMoves ==
  ASSUME NEW d, IsDecoder(d), d.fix = FALSE, d.stack \in Seq(Marks) PROVE Moving(DecodeStep(d))
<1>1. ASSUME NEW r \in {"invalid", "too long", "incomplete"} PROVE Moving(Stop(d, r))
  <2>1. Stop(d, r).result = r BY DEF Stop, IsDecoder
  <2>. QED BY <2>1 DEF Moving
<1>2. \A n : Moving(Element(d, n)) BY ElementMoves
<1>3. Moving(End(d)) BY EndIs, AfterElementMoves DEF GoesOn
<1>4. Moving(Named(d))
  <2>1. PICK t : t = Token(d) OBVIOUS
  <2>2. PICK e : e = Named(d) OBVIOUS
  <2>3. (\E r \in {"invalid", "too long", "incomplete"} : e = Stop(d, r)) \/ e = Element(Skip(d, 2), t)
    BY <2>1, <2>2 DEF Named
  <2>4. PICK s : s = Skip(d, 2) OBVIOUS
  <2>5. Same(d, s) BY <2>4, SkipIs
  <2>6. Moving(Element(s, t)) BY <2>5, ElementMoves DEF Same, GoesOn
  <2>7. Moving(e) BY <1>1, <2>3, <2>4, <2>6
  <2>. QED BY <2>2, <2>7
<1>5. PICK e : e = DecodeStep(d) OBVIOUS
<1>6. e = Stop(d, "incomplete") \/ (\E n : e = Element(d, n)) \/ e = End(d) \/ e = Named(d)
  BY <1>5 DEF DecodeStep
<1>7. Moving(e) BY <1>1, <1>2, <1>3, <1>4, <1>6
<1>. QED BY <1>5, <1>7

-----------------------------------------------------------------------------
\* The rounds of the decoder.
Decodes1(r, n, f) ==
  f = [i \in 0..n |-> IF i = 0 THEN r ELSE IF Running(f[i - 1]) THEN DecodeStep(f[i - 1]) ELSE f[i - 1]]

LEMMA Decodes1Exist == ASSUME NEW r, NEW n \in Nat PROVE \E f : Decodes1(r, n, f)
<1>. DEFINE S == {m \in Nat : \E f : Decodes1(r, m, f)}
<1>1. 0 \in S
  <2>. DEFINE f == [i \in 0..0 |-> r]
  <2>1. Decodes1(r, 0, f) BY DEF Decodes1
  <2>. QED BY <2>1
<1>2. ASSUME NEW m \in S PROVE m + 1 \in S
  <2>1. PICK f : Decodes1(r, m, f) OBVIOUS
  <2>. DEFINE g == [i \in 0..m + 1 |-> IF i = m + 1 THEN IF Running(f[m]) THEN DecodeStep(f[m]) ELSE f[m] ELSE f[i]]
  <2>2. ASSUME NEW i \in 0..m + 1
        PROVE  g[i] = IF i = 0 THEN r ELSE IF Running(g[i - 1]) THEN DecodeStep(g[i - 1]) ELSE g[i - 1]
    BY <2>1 DEF Decodes1
  <2>3. Decodes1(r, m + 1, g) BY <2>2 DEF Decodes1
  <2>. QED BY <2>3
<1>. HIDE DEF S
<1>3. S \in SUBSET Nat BY DEF S
<1>4. S = Nat BY <1>1, <1>2, <1>3, Induction
<1>. QED BY <1>4 DEF S

LEMMA Decodes1Step ==
  ASSUME NEW r, NEW n \in Nat, NEW f, Decodes1(r, n, f)
  PROVE  f[0] = r /\ \A i \in 0..n : i < n => f[i + 1] = IF Running(f[i]) THEN DecodeStep(f[i]) ELSE f[i]
<1>1. f[0] = r
  <2>1. 0 \in 0..n OBVIOUS
  <2>. QED BY <2>1 DEF Decodes1
<1>2. ASSUME NEW i \in 0..n, i < n PROVE f[i + 1] = IF Running(f[i]) THEN DecodeStep(f[i]) ELSE f[i]
  <2>1. i + 1 \in 0..n /\ i + 1 # 0 /\ (i + 1) - 1 = i BY <1>2
  <2>. QED BY <2>1 DEF Decodes1
<1>. QED BY <1>1, <1>2

LEMMA Steps8Is == ASSUME NEW d PROVE \E f : Decodes1(d, 8, f) /\ Steps8(d) = f[8]
<1>. DEFINE F == CHOOSE f : f = [i \in 0..8 |->
                   IF i = 0 THEN d ELSE IF Running(f[i - 1]) THEN DecodeStep(f[i - 1]) ELSE f[i - 1]]
<1>1. Steps8(d) = F[8] BY DEF Steps8, Loop
<1>2. \E f : f = [i \in 0..8 |->
                   IF i = 0 THEN d ELSE IF Running(f[i - 1]) THEN DecodeStep(f[i - 1]) ELSE f[i - 1]]
  <2>1. PICK f : Decodes1(d, 8, f) BY Decodes1Exist
  <2>. QED BY <2>1 DEF Decodes1
<1>3. F = [i \in 0..8 |->
                   IF i = 0 THEN d ELSE IF Running(F[i - 1]) THEN DecodeStep(F[i - 1]) ELSE F[i - 1]] BY <1>2
<1>. HIDE DEF F
<1>4. Decodes1(d, 8, F) BY <1>3 DEF Decodes1
<1>. QED BY <1>1, <1>4

LEMMA Decodes1Keep ==
  ASSUME NEW d, NEW o, NEW name, NEW k, NEW q, Decoding(d, o, name, k, q), Inside(o), Writable(name),
         NEW times \in Nat \ {0}, NEW f, Decodes1(d, times, f)
  PROVE  Decoding(f[times], o, name, k, q) /\ Moving(f[times])
<1>1. f[0] = d /\ \A i \in 0..times : i < times => f[i + 1] = IF Running(f[i]) THEN DecodeStep(f[i]) ELSE f[i]
  BY Decodes1Step
<1>. DEFINE S == {i \in 0..times : Decoding(f[i], o, name, k, q) /\ (i # 0 => Moving(f[i]))}
<1>2. 0 \in S BY <1>1
<1>3. ASSUME NEW i \in 0..times, i \in S, i < times PROVE i + 1 \in S
  <2>1. f[i + 1] = IF Running(f[i]) THEN DecodeStep(f[i]) ELSE f[i] BY <1>1, <1>3
  <2>2. PICK e : e = f[i] OBVIOUS
  <2>3. Decoding(e, o, name, k, q) BY <1>3, <2>2
  <2>4. Running(e) => Decoding(DecodeStep(e), o, name, k, q) /\ Moving(DecodeStep(e))
    BY <2>3, DecodeStepKeeps, StepMoves DEF Running, Decoding
  <2>5. ~Running(e) => Moving(e) BY DEF Running, Moving
  <2>6. Decoding(f[i + 1], o, name, k, q) /\ Moving(f[i + 1]) BY <2>1, <2>2, <2>3, <2>4, <2>5
  <2>7. i + 1 \in 0..times BY <1>3
  <2>. QED BY <2>6, <2>7
<1>. HIDE DEF S
<1>4. \A i \in 0..times : i \in S BY <1>2, <1>3, Upward
<1>5. times \in S /\ times # 0 BY <1>4
<1>. QED BY <1>5 DEF S

LEMMA Steps8Keeps ==
  ASSUME NEW d, NEW o, NEW name, NEW k, NEW q, Decoding(d, o, name, k, q), Inside(o), Writable(name)
  PROVE  Decoding(Steps8(d), o, name, k, q) /\ Moving(Steps8(d))
<1>1. PICK f : Decodes1(d, 8, f) /\ Steps8(d) = f[8] BY Steps8Is
<1>2. Decoding(f[8], o, name, k, q) /\ Moving(f[8]) BY <1>1, Decodes1Keep
<1>. QED BY <1>1, <1>2

Decodes8(r, n, f) ==
  f = [i \in 0..n |-> IF i = 0 THEN r ELSE IF Running(f[i - 1]) THEN Steps8(f[i - 1]) ELSE f[i - 1]]

LEMMA Decodes8Exist == ASSUME NEW r, NEW n \in Nat PROVE \E f : Decodes8(r, n, f)
<1>. DEFINE S == {m \in Nat : \E f : Decodes8(r, m, f)}
<1>1. 0 \in S
  <2>. DEFINE f == [i \in 0..0 |-> r]
  <2>1. Decodes8(r, 0, f) BY DEF Decodes8
  <2>. QED BY <2>1
<1>2. ASSUME NEW m \in S PROVE m + 1 \in S
  <2>1. PICK f : Decodes8(r, m, f) OBVIOUS
  <2>. DEFINE g == [i \in 0..m + 1 |-> IF i = m + 1 THEN IF Running(f[m]) THEN Steps8(f[m]) ELSE f[m] ELSE f[i]]
  <2>2. ASSUME NEW i \in 0..m + 1
        PROVE  g[i] = IF i = 0 THEN r ELSE IF Running(g[i - 1]) THEN Steps8(g[i - 1]) ELSE g[i - 1]
    BY <2>1 DEF Decodes8
  <2>3. Decodes8(r, m + 1, g) BY <2>2 DEF Decodes8
  <2>. QED BY <2>3
<1>. HIDE DEF S
<1>3. S \in SUBSET Nat BY DEF S
<1>4. S = Nat BY <1>1, <1>2, <1>3, Induction
<1>. QED BY <1>4 DEF S

LEMMA Decodes8Step ==
  ASSUME NEW r, NEW n \in Nat, NEW f, Decodes8(r, n, f)
  PROVE  f[0] = r /\ \A i \in 0..n : i < n => f[i + 1] = IF Running(f[i]) THEN Steps8(f[i]) ELSE f[i]
<1>1. f[0] = r
  <2>1. 0 \in 0..n OBVIOUS
  <2>. QED BY <2>1 DEF Decodes8
<1>2. ASSUME NEW i \in 0..n, i < n PROVE f[i + 1] = IF Running(f[i]) THEN Steps8(f[i]) ELSE f[i]
  <2>1. i + 1 \in 0..n /\ i + 1 # 0 /\ (i + 1) - 1 = i BY <1>2
  <2>. QED BY <2>1 DEF Decodes8
<1>. QED BY <1>1, <1>2

LEMMA Steps64Is == ASSUME NEW d PROVE \E f : Decodes8(d, 8, f) /\ Steps64(d) = f[8]
<1>. DEFINE F == CHOOSE f : f = [i \in 0..8 |->
                   IF i = 0 THEN d ELSE IF Running(f[i - 1]) THEN Steps8(f[i - 1]) ELSE f[i - 1]]
<1>1. Steps64(d) = F[8] BY DEF Steps64, Loop
<1>2. \E f : f = [i \in 0..8 |->
                   IF i = 0 THEN d ELSE IF Running(f[i - 1]) THEN Steps8(f[i - 1]) ELSE f[i - 1]]
  <2>1. PICK f : Decodes8(d, 8, f) BY Decodes8Exist
  <2>. QED BY <2>1 DEF Decodes8
<1>3. F = [i \in 0..8 |->
                   IF i = 0 THEN d ELSE IF Running(F[i - 1]) THEN Steps8(F[i - 1]) ELSE F[i - 1]] BY <1>2
<1>. HIDE DEF F
<1>4. Decodes8(d, 8, F) BY <1>3 DEF Decodes8
<1>. QED BY <1>1, <1>4

LEMMA Decodes8Keep ==
  ASSUME NEW d, NEW o, NEW name, NEW k, NEW q, Decoding(d, o, name, k, q), Inside(o), Writable(name),
         NEW times \in Nat \ {0}, NEW f, Decodes8(d, times, f)
  PROVE  Decoding(f[times], o, name, k, q) /\ Moving(f[times])
<1>1. f[0] = d /\ \A i \in 0..times : i < times => f[i + 1] = IF Running(f[i]) THEN Steps8(f[i]) ELSE f[i]
  BY Decodes8Step
<1>. DEFINE S == {i \in 0..times : Decoding(f[i], o, name, k, q) /\ (i # 0 => Moving(f[i]))}
<1>2. 0 \in S BY <1>1
<1>3. ASSUME NEW i \in 0..times, i \in S, i < times PROVE i + 1 \in S
  <2>1. f[i + 1] = IF Running(f[i]) THEN Steps8(f[i]) ELSE f[i] BY <1>1, <1>3
  <2>2. PICK e : e = f[i] OBVIOUS
  <2>3. Decoding(e, o, name, k, q) BY <1>3, <2>2
  <2>4. Running(e) => Decoding(Steps8(e), o, name, k, q) /\ Moving(Steps8(e)) BY <2>3, Steps8Keeps
  <2>5. ~Running(e) => Moving(e) BY DEF Running, Moving
  <2>6. Decoding(f[i + 1], o, name, k, q) /\ Moving(f[i + 1]) BY <2>1, <2>2, <2>3, <2>4, <2>5
  <2>7. i + 1 \in 0..times BY <1>3
  <2>. QED BY <2>6, <2>7
<1>. HIDE DEF S
<1>4. \A i \in 0..times : i \in S BY <1>2, <1>3, Upward
<1>5. times \in S /\ times # 0 BY <1>4
<1>. QED BY <1>5 DEF S

LEMMA Steps64Keeps ==
  ASSUME NEW d, NEW o, NEW name, NEW k, NEW q, Decoding(d, o, name, k, q), Inside(o), Writable(name)
  PROVE  Decoding(Steps64(d), o, name, k, q) /\ Moving(Steps64(d))
<1>1. PICK f : Decodes8(d, 8, f) /\ Steps64(d) = f[8] BY Steps64Is
<1>2. Decoding(f[8], o, name, k, q) /\ Moving(f[8]) BY <1>1, Decodes8Keep
<1>. QED BY <1>1, <1>2

Decodes64(r, n, f) ==
  f = [i \in 0..n |-> IF i = 0 THEN r ELSE IF Running(f[i - 1]) THEN Steps64(f[i - 1]) ELSE f[i - 1]]

LEMMA Decodes64Exist == ASSUME NEW r, NEW n \in Nat PROVE \E f : Decodes64(r, n, f)
<1>. DEFINE S == {m \in Nat : \E f : Decodes64(r, m, f)}
<1>1. 0 \in S
  <2>. DEFINE f == [i \in 0..0 |-> r]
  <2>1. Decodes64(r, 0, f) BY DEF Decodes64
  <2>. QED BY <2>1
<1>2. ASSUME NEW m \in S PROVE m + 1 \in S
  <2>1. PICK f : Decodes64(r, m, f) OBVIOUS
  <2>. DEFINE g == [i \in 0..m + 1 |-> IF i = m + 1 THEN IF Running(f[m]) THEN Steps64(f[m]) ELSE f[m] ELSE f[i]]
  <2>2. ASSUME NEW i \in 0..m + 1
        PROVE  g[i] = IF i = 0 THEN r ELSE IF Running(g[i - 1]) THEN Steps64(g[i - 1]) ELSE g[i - 1]
    BY <2>1 DEF Decodes64
  <2>3. Decodes64(r, m + 1, g) BY <2>2 DEF Decodes64
  <2>. QED BY <2>3
<1>. HIDE DEF S
<1>3. S \in SUBSET Nat BY DEF S
<1>4. S = Nat BY <1>1, <1>2, <1>3, Induction
<1>. QED BY <1>4 DEF S

LEMMA Decodes64Step ==
  ASSUME NEW r, NEW n \in Nat, NEW f, Decodes64(r, n, f)
  PROVE  f[0] = r /\ \A i \in 0..n : i < n => f[i + 1] = IF Running(f[i]) THEN Steps64(f[i]) ELSE f[i]
<1>1. f[0] = r
  <2>1. 0 \in 0..n OBVIOUS
  <2>. QED BY <2>1 DEF Decodes64
<1>2. ASSUME NEW i \in 0..n, i < n PROVE f[i + 1] = IF Running(f[i]) THEN Steps64(f[i]) ELSE f[i]
  <2>1. i + 1 \in 0..n /\ i + 1 # 0 /\ (i + 1) - 1 = i BY <1>2
  <2>. QED BY <2>1 DEF Decodes64
<1>. QED BY <1>1, <1>2

LEMMA Decodes64Keep ==
  ASSUME NEW d, NEW o, NEW name, NEW k, NEW q, Decoding(d, o, name, k, q), Inside(o), Writable(name),
         NEW times \in Nat \ {0}, NEW f, Decodes64(d, times, f)
  PROVE  Decoding(f[times], o, name, k, q) /\ Moving(f[times])
<1>1. f[0] = d /\ \A i \in 0..times : i < times => f[i + 1] = IF Running(f[i]) THEN Steps64(f[i]) ELSE f[i]
  BY Decodes64Step
<1>. DEFINE S == {i \in 0..times : Decoding(f[i], o, name, k, q) /\ (i # 0 => Moving(f[i]))}
<1>2. 0 \in S BY <1>1
<1>3. ASSUME NEW i \in 0..times, i \in S, i < times PROVE i + 1 \in S
  <2>1. f[i + 1] = IF Running(f[i]) THEN Steps64(f[i]) ELSE f[i] BY <1>1, <1>3
  <2>2. PICK e : e = f[i] OBVIOUS
  <2>3. Decoding(e, o, name, k, q) BY <1>3, <2>2
  <2>4. Running(e) => Decoding(Steps64(e), o, name, k, q) /\ Moving(Steps64(e)) BY <2>3, Steps64Keeps
  <2>5. ~Running(e) => Moving(e) BY DEF Running, Moving
  <2>6. Decoding(f[i + 1], o, name, k, q) /\ Moving(f[i + 1]) BY <2>1, <2>2, <2>3, <2>4, <2>5
  <2>7. i + 1 \in 0..times BY <1>3
  <2>. QED BY <2>6, <2>7
<1>. HIDE DEF S
<1>4. \A i \in 0..times : i \in S BY <1>2, <1>3, Upward
<1>5. times \in S /\ times # 0 BY <1>4
<1>. QED BY <1>5 DEF S

LEMMA DecodeIs == ASSUME NEW d, NEW rounds \in Nat, rounds = (2 * Len(d.buf) + Len(d.file)) \div 64 + 1
  PROVE \E f : Decodes64(d, rounds, f) /\ Decode(d) = f[rounds]
<1>. DEFINE F == CHOOSE f : f = [i \in 0..rounds |->
                   IF i = 0 THEN d ELSE IF Running(f[i - 1]) THEN Steps64(f[i - 1]) ELSE f[i - 1]]
<1>1. Decode(d) = F[rounds] BY DEF Decode, Loop
<1>2. \E f : f = [i \in 0..rounds |->
                   IF i = 0 THEN d ELSE IF Running(f[i - 1]) THEN Steps64(f[i - 1]) ELSE f[i - 1]]
  <2>1. PICK f : Decodes64(d, rounds, f) BY Decodes64Exist
  <2>. QED BY <2>1 DEF Decodes64
<1>3. F = [i \in 0..rounds |->
                   IF i = 0 THEN d ELSE IF Running(F[i - 1]) THEN Steps64(F[i - 1]) ELSE F[i - 1]] BY <1>2
<1>. HIDE DEF F
<1>4. Decodes64(d, rounds, F) BY <1>3 DEF Decodes64
<1>. QED BY <1>1, <1>4

\* However long it takes, and wherever it stops.
LEMMA DecodeKeeps ==
  ASSUME NEW d, NEW o, NEW name, NEW k, NEW q, Decoding(d, o, name, k, q), Inside(o), Writable(name),
         (2 * Len(d.buf) + Len(d.file)) \div 64 + 1 \in Nat \ {0}
  PROVE  Decoding(Decode(d), o, name, k, q) /\ Moving(Decode(d))
<1>1. PICK rounds \in Nat \ {0} : rounds = (2 * Len(d.buf) + Len(d.file)) \div 64 + 1 OBVIOUS
<1>2. PICK f : Decodes64(d, rounds, f) /\ Decode(d) = f[rounds] BY <1>1, DecodeIs
<1>3. Decoding(f[rounds], o, name, k, q) /\ Moving(f[rounds]) BY <1>2, Decodes64Keep
<1>. QED BY <1>2, <1>3

\* A text that is embedded: what comes before it stays as it is, and if it is taken as a whole
\* it is in its place.
LEMMA DecodingBegins ==
  ASSUME NEW d, NEW o, NEW name, NEW k, NEW q, IsDecoder(d), d.top = name, d.fix = FALSE,
         d.close \in BOOLEAN /\ d.close \in q,
         d.stack = <<>>, d.result = "running", At(d.enc, o, k), Begins0(d, o), Clear(d)
  PROVE  Decoding(d, o, name, k, q)
BY DEF Decoding, Underway

Begun0(o, close, x) == LeftOpen(o, close) => x # <<>>
LEMMA NotTaken ==
  ASSUME NEW d, NEW o, NEW name, NEW k, NEW q, Decoding(d, o, name, k, q), d.result # "ok", Inside(o),
         Moving(d)
  PROVE  \E x \in Seq(Marks) : /\ Begun0(o, d.close, x)
                              /\ \E l \in {k, KeysAt(o, name, k)} : At(d.enc, o \o x, l)
<1>1. PICK keys : keys = KeysAt(o, name, k) OBVIOUS
<1>2. CASE d.result = "running"
  <2>1. Underway(d, o, k, keys) /\ d.stack \in Seq(Marks) BY <1>1, <1>2 DEF Decoding
  <2>. QED BY <1>1, <1>2, <2>1 DEF Underway, Moving, Begun0
<1>3. CASE d.result # "running"
  <2>1. Failed(d, o, k, keys) BY <1>1, <1>3 DEF Decoding
  <2>. QED BY <1>1, <2>1 DEF Failed, Begun0
<1>. QED BY <1>2, <1>3

LEMMA Taken ==
  ASSUME NEW d, NEW o, NEW name, NEW k, NEW q, Decoding(d, o, name, k, q), d.result = "ok"
  PROVE  Done(d, o, KeysAt(o, name, k))
BY DEF Decoding

LEMMA JoinedInside == ASSUME NEW o, Inside(o), NEW x \in Seq(Marks) PROVE Inside(o \o x)
<1>1. CASE x = <<>>
  <2>1. o \o x = o BY <1>1, InsideLong
  <2>. QED BY <2>1
<1>2. CASE x # <<>>
  <2>1. Inside(x) BY <1>2 DEF Inside
  <2>. QED BY <2>1, InsideLong, JoinedTop
<1>. QED BY <1>1, <1>2

\* Where a text begins with a container if it must.
Leads(text, o, close) == LeftOpen(o, close) => text # <<>> /\ text[1] \in Marks

LEMMA TextDecodes ==
  ASSUME NEW c, NEW o, NEW k, At(c, o, k), Inside(o), NEW name, Writable(name),
         NEW T, NEW text \in Seq(T), Speakable(text), Leads(text, o, FALSE)
  PROVE  Decoding(Decode(Decoder(text, 0, <<>>, FALSE, name, c, FALSE, FALSE)), o, name, k, {FALSE})
         /\ Moving(Decode(Decoder(text, 0, <<>>, FALSE, name, c, FALSE, FALSE)))
<1>1. PICK d : d = Decoder(text, 0, <<>>, FALSE, name, c, FALSE, FALSE) OBVIOUS
<1>2. /\ IsDecoder(d) /\ d.buf = text /\ d.pos = 0 /\ d.file = <<>> /\ d.top = name /\ d.enc = c /\ d.window = FALSE
      /\ d.close = FALSE /\ d.fix = FALSE /\ d.stack = <<>> /\ d.result = "running"
  BY <1>1 DEF Decoder, IsDecoder
<1>3. Begins0(d, o)
  <2>1. Token(d) = text[1] BY <1>2 DEF Token
  <2>2. text # <<>> => ~(0 >= Len(text)) OBVIOUS
  <2>. QED BY <1>2, <2>1, <2>2 DEF Begins0, Leads, AtEnd
<1>4. PICK q : q = {FALSE} OBVIOUS
<1>5. d.close \in BOOLEAN /\ d.close \in q BY <1>2, <1>4
<1>9. Clear(d) BY <1>2 DEF Clear
<1>6. Decoding(d, o, name, k, q) BY <1>2, <1>3, <1>5, <1>9, DecodingBegins
<1>7. (2 * Len(d.buf) + Len(d.file)) \div 64 + 1 \in Nat \ {0}
  <2>1. Len(text) \in Nat /\ Len(<<>>) = 0 OBVIOUS
  <2>. QED BY <1>2, <2>1
<1>8. Decoding(Decode(d), o, name, k, q) /\ Moving(Decode(d)) BY <1>6, <1>7, DecodeKeeps
<1>. QED BY <1>1, <1>4, <1>8

LEMMA QuotedIsString == ASSUME NEW text PROVE Scalar(Quoted(text))
BY DEF Quoted, Scalar, Strings, NotStrings, Punctuation, Numbers, Number, Now, Literal, Junk, Null, Huge

\* What an embedded text does to a report that has the keys k.
KeysAfter(o, name, k, p, l) ==
  \E u \in {k, KeysAt(o, name, k)} : l \in {u, KeysAt(p, name, u)}

Refusal(c, name, text) ==
  EndContainer(AddElement(AddElement(BeginContainer(c, name, "{"), "error", "text"), "json_data", Quoted(text)))
LEMMA DescriptionWrites ==
  ASSUME NEW c, NEW p, NEW u, At(c, p, u), Inside(p), NEW name, Writable(name), NEW text
  PROVE  At(Refusal(c, name, text), p, KeysAt(p, name, u))
<1>. DEFINE l  == KeysAt(p, name, u)
            d1 == Object(c, name)
            d2 == Text(d1, "error")
            d3 == AddElement(d2, "json_data", Quoted(text))
<1>1. Refusal(c, name, text) = EndContainer(d3)
  BY DEF Refusal, Object, Text
<1>2. "error" \in AllNames /\ "json_data" \in AllNames BY DEF AllNames, Named1, Named2
<1>3. "{" \in Marks BY DEF Marks
<1>4. Within(d1, p, "{", l) BY <1>3, Enter DEF Object
<1>. HIDE DEF d1
<1>5. Within(d2, p, "{", l) BY <1>2, <1>4, TextPut
<1>. HIDE DEF d2
<1>6. Within(d3, p, "{", l) BY <1>2, <1>5, NamesAreStrings, QuotedIsString, Put
<1>. HIDE DEF d3
<1>7. At(EndContainer(d3), p, l) BY <1>6, Leave
<1>. QED BY <1>1, <1>7

LEMMA TextWrites ==
  ASSUME NEW c, NEW o, NEW k, At(c, o, k), Inside(o), NEW name, Writable(name),
         NEW T, NEW text \in Seq(T), Speakable(text), Leads(text, o, FALSE)
  PROVE  \/ /\ ~Refused(c, name, text)
            /\ IF Len(o) = 1 THEN \E m \in Marks : At(AddText(c, name, text), Append(o, m), KeysAt(o, name, k))
               ELSE At(AddText(c, name, text), o, KeysAt(o, name, k))
         \/ /\ Refused(c, name, text)
            /\ \E x, l : /\ x \in Seq(Marks) /\ (Len(o) = 1 => x # <<>>)
                         /\ At(AddText(c, name, text), o \o x, l)
                         /\ KeysAfter(o, name, k, o \o x, l)
<1>1. PICK d : d = Decode(Decoder(text, 0, <<>>, FALSE, name, c, FALSE, FALSE)) OBVIOUS
<1>2. Decoding(d, o, name, k, {FALSE}) /\ Moving(d) BY <1>1, TextDecodes
<1>3. PICK r : r = AddJSON(c, name, text, FALSE) OBVIOUS
<1>4. r.enc = d.enc /\ r.result = d.result BY <1>1, <1>3 DEF AddJSON, Embedded
<1>5. d.close = FALSE BY <1>2 DEF Decoding
<1>6. Refused(c, name, text) <=> d.result # "ok" BY <1>3, <1>4 DEF Refused
<1>7. CASE d.result = "ok"
  <2>1. AddText(c, name, text) = d.enc BY <1>3, <1>4, <1>7 DEF AddText
  <2>2. Done(d, o, KeysAt(o, name, k)) BY <1>2, <1>7, Taken
  <2>. QED BY <1>5, <1>6, <1>7, <2>1, <2>2 DEF Done, LeftOpen
<1>8. CASE d.result # "ok"
  <2>1. PICK x \in Seq(Marks) : /\ Begun0(o, d.close, x)
                                 /\ \E l \in {k, KeysAt(o, name, k)} : At(d.enc, o \o x, l)
    BY <1>2, <1>8, NotTaken
  <2>9. \E u \in {k, KeysAt(o, name, k)} : At(d.enc, o \o x, u) BY <2>1
  <2>2. PICK u \in {k, KeysAt(o, name, k)} : At(d.enc, o \o x, u) BY <2>9
  <2>3. PICK p : p = o \o x OBVIOUS
  <2>4. Inside(p) BY <2>3, JoinedInside
  <2>5. AddText(c, name, text) = Refusal(d.enc, name, text)
    BY <1>3, <1>4, <1>8 DEF AddText, Refusal, Wrapped, Object, Text
  <2>6. At(AddText(c, name, text), p, KeysAt(p, name, u)) BY <2>2, <2>3, <2>4, <2>5, DescriptionWrites
  <2>7. KeysAfter(o, name, k, p, KeysAt(p, name, u)) BY DEF KeysAfter
  <2>8. Len(o) = 1 => x # <<>> BY <1>5, <2>1 DEF Begun0, LeftOpen
  <2>. QED BY <1>6, <1>8, <2>3, <2>6, <2>7, <2>8
<1>. QED BY <1>7, <1>8

\* The window is filled for the first time.
LEMMA FirstRefill ==
  ASSUME NEW n \in Nat, NEW zeros \in Seq({Junk}), Len(zeros) = n, NEW T, NEW f \in Seq(T),
         NEW d, IsDecoder(d), d.buf = zeros, d.pos = n, d.file = f, NEW e, e = Refill(d)
  PROVE  Len(e.buf) \in Nat /\ Len(e.file) \in Nat
<1>1. PICK got \in Nat : got = IF n - (n - n) < Len(f) THEN n - (n - n) ELSE Len(f) OBVIOUS
<1>2. got <= n /\ got <= Len(f) /\ Len(f) \in Nat BY <1>1
<1>3. PICK a : a = SubSeq(zeros, n + 1, n) OBVIOUS
<1>4. PICK b : b = SubSeq(f, 1, got) OBVIOUS
<1>5. PICK c : c = SubSeq(zeros, (n - n) + got + 1, n) OBVIOUS
<1>6. PICK r : r = SubSeq(f, got + 1, Len(f)) OBVIOUS
<1>7. a \in Seq({Junk}) /\ c \in Seq({Junk}) /\ b \in Seq(T) /\ r \in Seq(T)
  <2>1. n + 1 \in Nat \ {0} /\ (n - n) + got + 1 \in Nat \ {0} /\ got + 1 \in Nat \ {0} /\ n <= Len(zeros)
    BY <1>2
  <2>2. a \in Seq({Junk}) BY <1>3, <2>1, PartOf
  <2>3. c \in Seq({Junk}) BY <1>5, <2>1, PartOf
  <2>4. b \in Seq(T) BY <1>2, <1>4, PartOf
  <2>5. r \in Seq(T) BY <1>2, <1>6, <2>1, PartOf
  <2>. QED BY <2>2, <2>3, <2>4, <2>5
<1>8. PICK all : all = a \o b \o c OBVIOUS
<1>9. Len(all) \in Nat /\ Len(r) \in Nat
  <2>1. a \in Seq({Junk} \cup T) /\ b \in Seq({Junk} \cup T) /\ c \in Seq({Junk} \cup T) BY <1>7
  <2>2. all \in Seq({Junk} \cup T) BY <1>8, <2>1
  <2>. QED BY <1>7, <2>2
<1>10. PICK eof : eof = (got < n - (n - n)) OBVIOUS
<1>11. e = d \/ e = [d EXCEPT !.buf = all, !.pos = 0, !.file = r, !.eof = eof]
  BY <1>1, <1>3, <1>4, <1>5, <1>6, <1>8, <1>10 DEF Refill
<1>12. CASE e = d BY <1>12
<1>13. CASE e = [d EXCEPT !.buf = all, !.pos = 0, !.file = r, !.eof = eof]
  <2>1. e.buf = all /\ e.file = r BY <1>13 DEF IsDecoder
  <2>. QED BY <1>9, <2>1
<1>. QED BY <1>11, <1>12, <1>13

LEMMA SomeRounds == ASSUME NEW a \in Nat, NEW b \in Nat PROVE (2 * a + b) \div 64 + 1 \in Nat \ {0}
OBVIOUS

LEMMA AtTheLevel == ASSUME NEW o, Inside(o), NEW x \in Seq(Marks)
  PROVE SubSeq(o \o x, 1, Len(o)) = o /\ Len(o) <= Len(o \o x)
<1>1. o \in Seq(Marks) BY InsideLong
<1>. QED BY <1>1

\* What is there of a file is copied, and what it left open is closed.
LEMMA CopyWrites ==
  ASSUME NEW c, NEW o, NEW k, At(c, o, k), Inside(o), NEW name, Writable(name), NEW f, Sound(f)
  PROVE  \E l \in {k, KeysAt(o, name, k)} : At(AddJSONFromFile(c, name, f, Window, TRUE).enc, o, l)
<1>1. PICK n \in Nat : n = Window BY TextAssumption
<1>2. PICK zeros : zeros = [i \in 1..n |-> Junk] OBVIOUS
<1>21. PICK T : f \in Seq(T) BY DEF Sound
<1>3. zeros \in Seq({Junk}) /\ Len(zeros) = n BY <1>2
<1>22. Sound(zeros) BY <1>3 DEF Sound, Mute, Junk, Control
<1>4. PICK b : b = Decoder(zeros, n, f, TRUE, name, c, TRUE, FALSE) OBVIOUS
<1>5. /\ IsDecoder(b) /\ b.buf = zeros /\ b.pos = n /\ b.file = f /\ b.top = name /\ b.enc = c
      /\ b.close = TRUE /\ b.fix = FALSE /\ b.stack = <<>> /\ b.result = "running"
  BY <1>4 DEF Decoder, IsDecoder
<1>6. PICK e : e = Refill(b) OBVIOUS
<1>7. Same(b, e) BY <1>5, <1>6, RefillIs
<1>8. Len(e.buf) \in Nat /\ Len(e.file) \in Nat BY <1>3, <1>5, <1>6, <1>21, FirstRefill
<1>23. Clear(e)
  <2>1. b.pos \in 0..Len(b.buf) BY <1>3, <1>5
  <2>2. Clear(b) BY <1>3, <1>5, <1>22, <2>1 DEF Clear
  <2>. QED BY <1>5, <1>6, <2>2, ClearRefill
<1>9. PICK q : q = {TRUE} OBVIOUS
<1>10. Decoding(e, o, name, k, q)
  <2>1. e.close \in BOOLEAN /\ e.close \in q BY <1>5, <1>7, <1>9 DEF Same, GoesOn
  <2>2. Begins0(e, o) BY <1>5, <1>7 DEF Begins0, LeftOpen, Same, GoesOn
  <2>3. /\ IsDecoder(e) /\ e.top = name /\ e.fix = FALSE /\ e.stack = <<>> /\ e.result = "running"
        /\ At(e.enc, o, k)
    BY <1>5, <1>7 DEF Same, GoesOn
  <2>. QED BY <1>23, <2>1, <2>2, <2>3, DecodingBegins
<1>11. (2 * Len(e.buf) + Len(e.file)) \div 64 + 1 \in Nat \ {0} BY <1>8, SomeRounds, Zenon
<1>12. PICK d : d = Decode(e) OBVIOUS
<1>13. Decoding(d, o, name, k, q) /\ Moving(d) BY <1>10, <1>11, <1>12, DecodeKeeps
<1>14. \E x \in Seq(Marks), l \in {k, KeysAt(o, name, k)} : At(d.enc, o \o x, l)
  <2>1. CASE d.result # "ok" BY <1>13, <2>1, NotTaken
  <2>2. CASE d.result = "ok"
    <3>1. Done(d, o, KeysAt(o, name, k)) BY <1>13, <2>2, Taken
    <3>2. d.close = TRUE BY <1>9, <1>13 DEF Decoding
    <3>3. At(d.enc, o, KeysAt(o, name, k)) BY <3>1, <3>2 DEF Done, LeftOpen
    <3>4. <<>> \in Seq(Marks) /\ o \o <<>> = o BY InsideLong
    <3>. QED BY <3>3, <3>4
  <2>. QED BY <2>1, <2>2
<1>15. PICK x \in Seq(Marks), l \in {k, KeysAt(o, name, k)} : At(d.enc, o \o x, l) BY <1>14
<1>16. PICK level \in Nat : level = Len(o) BY InsideLong
<1>17. level <= Len(o \o x) /\ SubSeq(o \o x, 1, level) = o BY <1>16, AtTheLevel
<1>18. At(Down(d.enc, level), SubSeq(o \o x, 1, level), l) BY <1>15, <1>17, DownWrites
<1>19. AddJSONFromFile(c, name, f, Window, TRUE).enc = Down(d.enc, Len(c.open))
  BY <1>1, <1>2, <1>4, <1>6, <1>12 DEF AddJSONFromFile, Embedded
<1>20. c.open = o BY DEF At
<1>. QED BY <1>15, <1>16, <1>17, <1>18, <1>19, <1>20

-----------------------------------------------------------------------------
\* What is left to do closes what it must and no more: from what is open when it begins
\* to what is open when it is done.
Deep(o)        == Inside(o) /\ Inside(Front(o))
IsClose(j)     == j.do = "close"
InScope(now)   == now \in {"crumbs", "user"}
ThreadFits(j, o, now) == j.do = "thread" => Last(o) = "[" /\ now = "crash ends" /\ j.thread \in ThreadStates
ValueFits(j, now)     == j.do = "value" => InScope(now) /\ Writable(j.name) /\ Speakable(j.text) /\ \E T : j.text \in Seq(T)
MemoryFits(j)         == j.do = "memory" => j.name \in AllNames
Item(j, o, p, now) ==
  /\ Deep(o) /\ p = IF IsClose(j) THEN Front(o) ELSE o
  /\ ThreadFits(j, o, now) /\ ValueFits(j, now) /\ MemoryFits(j)
Levels(w, h, now)    == \A i \in 1..Len(w) : Item(w[i], h[i - 1], h[i], now)
Brings(w, o, p, now) == (\E T : w \in Seq(T)) /\ \E h : h[0] = o /\ h[Len(w)] = p /\ Levels(w, h, now)

LEMMA BringsNothing == ASSUME NEW o, NEW now PROVE Brings(<<>>, o, o, now)
<1>1. <<>> \in Seq({}) /\ Len(<<>>) = 0 OBVIOUS
<1>2. PICK h : h = [i \in 0..0 |-> o] OBVIOUS
<1>3. h[0] = o BY <1>2
<1>4. Levels(<<>>, h, now) BY <1>1 DEF Levels
<1>. QED BY <1>1, <1>3, <1>4 DEF Brings

LEMMA NothingBrings == ASSUME NEW o, NEW p, NEW now, Brings(<<>>, o, p, now) PROVE p = o
<1>1. Len(<<>>) = 0 OBVIOUS
<1>. QED BY <1>1 DEF Brings

LEMMA BringsOne == ASSUME NEW j, NEW o, NEW p, NEW now, Item(j, o, p, now) PROVE Brings(<<j>>, o, p, now)
<1>1. PICK w : w = <<j>> OBVIOUS
<1>2. w \in Seq({j}) /\ Len(w) = 1 /\ w[1] = j BY <1>1
<1>3. PICK h : h = [i \in 0..1 |-> IF i = 0 THEN o ELSE p] OBVIOUS
<1>4. h[0] = o /\ h[1] = p BY <1>3
<1>5. Levels(w, h, now)
  <2>1. \A i \in 1..1 : i = 1 /\ i - 1 = 0 OBVIOUS
  <2>. QED BY <1>2, <1>4, <2>1 DEF Levels
<1>. QED BY <1>1, <1>2, <1>4, <1>5 DEF Brings

LEMMA BringsJoined ==
  ASSUME NEW s, NEW t, NEW o, NEW p, NEW q, NEW now, Brings(s, o, p, now), Brings(t, p, q, now)
  PROVE  Brings(s \o t, o, q, now)
<1>1. PICK S, T : s \in Seq(S) /\ t \in Seq(T) BY DEF Brings
<1>2. PICK m \in Nat, n \in Nat : m = Len(s) /\ n = Len(t) BY <1>1
<1>3. PICK f : f[0] = o /\ f[m] = p /\ Levels(s, f, now) BY <1>2 DEF Brings
<1>4. PICK g : g[0] = p /\ g[n] = q /\ Levels(t, g, now) BY <1>2 DEF Brings
<1>5. PICK w : w = s \o t OBVIOUS
<1>6. PICK h : h = [i \in 0..m + n |-> IF i <= m THEN f[i] ELSE g[i - m]] OBVIOUS
<1>7. /\ w \in Seq(S \cup T) /\ Len(w) = m + n
      /\ \A i \in 1..m : w[i] = s[i]
      /\ \A i \in 1..n : w[m + i] = t[i]
  BY <1>1, <1>2, <1>5, Joined
<1>8. \A i \in 0..m : h[i] = f[i] BY <1>6
<1>9. \A i \in 0..n : h[m + i] = g[i]
  <2>1. ASSUME NEW i \in 0..n PROVE h[m + i] = g[i]
    <3>1. CASE i = 0 BY <1>2, <1>3, <1>4, <1>8, <3>1
    <3>2. CASE i # 0
      <4>1. m + i \in 0..m + n /\ ~(m + i <= m) /\ (m + i) - m = i BY <1>2, <3>2
      <4>. QED BY <1>6, <4>1
    <3>. QED BY <3>1, <3>2
  <2>. QED BY <2>1
<1>10. h[0] = o /\ h[m + n] = q
  <2>1. 0 \in 0..m /\ n \in 0..n BY <1>2
  <2>. QED BY <1>3, <1>4, <1>8, <1>9, <2>1
<1>11. Levels(w, h, now)
  <2>1. ASSUME NEW i \in 1..m + n PROVE Item(w[i], h[i - 1], h[i], now)
    <3>1. CASE i <= m
      <4>1. i \in 1..m /\ i - 1 \in 0..m /\ i \in 0..m BY <1>2, <3>1
      <4>. QED BY <1>2, <1>3, <1>7, <1>8, <4>1 DEF Levels
    <3>2. CASE ~(i <= m)
      <4>1. PICK j \in 1..n : i = m + j
        <5>1. i - m \in 1..n /\ i = m + (i - m) BY <1>2, <3>2
        <5>. QED BY <5>1
      <4>2. i - 1 = m + (j - 1) /\ j - 1 \in 0..n /\ j \in 0..n BY <1>2, <4>1
      <4>3. Item(t[j], g[j - 1], g[j], now) BY <1>2, <1>4 DEF Levels
      <4>4. h[i - 1] = g[j - 1] /\ h[i] = g[j] /\ w[i] = t[j] BY <1>7, <1>9, <4>1, <4>2
      <4>. QED BY <4>3, <4>4
    <3>. QED BY <3>1, <3>2
  <2>. QED BY <1>7, <2>1 DEF Levels
<1>. QED BY <1>5, <1>7, <1>10, <1>11 DEF Brings

LEMMA BringsFirst ==
  ASSUME NEW w, w # <<>>, NEW o, NEW q, NEW now, Brings(w, o, q, now)
  PROVE  \E p : Item(Head(w), o, p, now) /\ Brings(Tail(w), p, q, now)
<1>1. PICK T : w \in Seq(T) BY DEF Brings
<1>2. PICK t : t = Tail(w) OBVIOUS
<1>3. PICK n \in Nat : n = Len(t)
  <2>1. t \in Seq(T) BY <1>1, <1>2
  <2>. QED BY <2>1
<1>4. /\ t \in Seq(T) /\ Len(w) = n + 1 /\ Head(w) = w[1]
      /\ \A i \in 1..n : t[i] = w[i + 1]
  BY <1>1, <1>2, <1>3
<1>5. PICK h : h[0] = o /\ h[n + 1] = q /\ Levels(w, h, now) BY <1>4 DEF Brings
<1>6. Item(w[1], h[0], h[1], now)
  <2>1. 1 \in 1..n + 1 /\ 1 - 1 = 0 OBVIOUS
  <2>. QED BY <1>4, <1>5, <2>1 DEF Levels
<1>7. PICK g : g = [i \in 0..n |-> h[i + 1]] OBVIOUS
<1>8. g[0] = h[1] /\ g[n] = q
  <2>1. 0 \in 0..n /\ n \in 0..n /\ 0 + 1 = 1 OBVIOUS
  <2>. QED BY <1>5, <1>7, <2>1
<1>9. Levels(t, g, now)
  <2>1. ASSUME NEW i \in 1..n PROVE Item(t[i], g[i - 1], g[i], now)
    <3>1. i + 1 \in 1..n + 1 /\ (i + 1) - 1 = i /\ i - 1 \in 0..n /\ i \in 0..n /\ (i - 1) + 1 = i OBVIOUS
    <3>2. Item(w[i + 1], h[i], h[i + 1], now) BY <1>4, <1>5, <3>1 DEF Levels
    <3>3. g[i - 1] = h[i] /\ g[i] = h[i + 1] /\ t[i] = w[i + 1] BY <1>4, <1>7, <3>1
    <3>. QED BY <3>2, <3>3
  <2>. QED BY <1>3, <2>1 DEF Levels
<1>10. Brings(t, h[1], q, now) BY <1>3, <1>4, <1>8, <1>9 DEF Brings
<1>. QED BY <1>2, <1>4, <1>5, <1>6, <1>10

\* Jobs that leave what is open as it is.
LEMMA BringsOn ==
  ASSUME NEW n \in Nat, NEW w, w = [i \in 1..n |-> w[i]], NEW o, NEW now, \A i \in 1..n : Item(w[i], o, o, now)
  PROVE  Brings(w, o, o, now)
<1>1. DOMAIN w = 1..n OBVIOUS
<1>2. PICK T : w \in Seq(T) BY <1>1, AsSeq
<1>3. Len(w) = n BY <1>1, <1>2
<1>4. PICK h : h = [i \in 0..n |-> o] OBVIOUS
<1>5. \A i \in 0..n : h[i] = o BY <1>4
<1>6. Levels(w, h, now)
  <2>1. \A i \in 1..n : i \in 0..n /\ i - 1 \in 0..n OBVIOUS
  <2>. QED BY <1>3, <1>5, <2>1 DEF Levels
<1>7. h[0] = o /\ h[n] = o
  <2>1. 0 \in 0..n /\ n \in 0..n OBVIOUS
  <2>. QED BY <1>5, <2>1
<1>. QED BY <1>2, <1>3, <1>6, <1>7 DEF Brings

-----------------------------------------------------------------------------
\* What is open, and what should be: the same, or more once a text was refused (x is 1).
Over(q, o, x) == q \in Seq(Marks) /\ Len(o) <= Len(q) /\ (x = 0 => q = o)
Root   == Append(<<>>, "{")
Second == Append(Root, "{")

LEMMA OneMark ==
  ASSUME NEW m \in Marks
  PROVE  /\ Inside(Append(<<>>, m)) /\ Len(Append(<<>>, m)) = 1 /\ Last(Append(<<>>, m)) = m
         /\ Append(<<>>, m) \in Seq(Marks)
<1>1. PICK o : o = <<>> OBVIOUS
<1>2. o \in Seq(Marks) /\ Len(o) = 0 BY <1>1
<1>3. PICK r : r = Append(o, m) OBVIOUS
<1>4. r \in Seq(Marks) /\ r # <<>> /\ Len(r) = Len(o) + 1 /\ Last(r) = m BY <1>2, <1>3, Pushed
<1>5. Len(r) = 1
  <2>1. PICK n : n = Len(o) OBVIOUS
  <2>2. PICK l : l = Len(r) OBVIOUS
  <2>3. n = 0 /\ l = n + 1 BY <1>2, <1>4, <2>1, <2>2
  <2>4. l = 1 BY <2>3
  <2>. QED BY <2>2, <2>4
<1>. QED BY <1>1, <1>3, <1>4, <1>5 DEF Inside

LEMMA RootIs == Inside(Root) /\ Len(Root) = 1 /\ Last(Root) = "{" /\ Root \in Seq(Marks)
<1>1. "{" \in Marks BY DEF Marks
<1>. QED BY <1>1, OneMark DEF Root

LEMMA LongInside == ASSUME NEW q \in Seq(Marks), NEW n \in Nat \ {0}, n <= Len(q) PROVE Inside(q)
<1>1. q # <<>> OBVIOUS
<1>. QED BY <1>1 DEF Inside

LEMMA Above ==
  ASSUME NEW o \in Nat, NEW q \in Nat, o <= q
  PROVE  (o \in Nat \ {0, 1} => q \in Nat \ {0, 1})
OBVIOUS

LEMMA Below == ASSUME NEW n \in Nat \ {0, 1} PROVE n - 1 \in Nat \ {0}
OBVIOUS

LEMMA OverInside == ASSUME NEW q, NEW o, NEW x, Over(q, o, x), Inside(o) PROVE Inside(q)
<1>1. Len(o) \in Nat \ {0} BY InsideLong
<1>2. PICK n \in Nat \ {0} : n = Len(o) BY <1>1
<1>3. q \in Seq(Marks) /\ n <= Len(q) BY <1>2 DEF Over
<1>. QED BY <1>3, LongInside

LEMMA PushedDeep == ASSUME NEW o, Inside(o), NEW m \in Marks PROVE Deep(Append(o, m)) /\ Front(Append(o, m)) = o
BY Deepened DEF Deep

LEMMA OverPush ==
  ASSUME NEW q, NEW o, NEW x, Over(q, o, x), Inside(o), NEW m \in Marks
  PROVE  Over(Append(q, m), Append(o, m), x)
<1>1. q \in Seq(Marks) /\ Len(o) <= Len(q) BY DEF Over
<1>2. o \in Seq(Marks) BY InsideLong
<1>3. PICK p, r : p = Append(q, m) /\ r = Append(o, m) OBVIOUS
<1>4. p \in Seq(Marks) /\ Len(p) = Len(q) + 1 BY <1>1, <1>3, Pushed
<1>5. Len(r) = Len(o) + 1 BY <1>2, <1>3, Pushed
<1>6. Len(r) <= Len(p) BY <1>1, <1>2, <1>4, <1>5
<1>7. x = 0 => p = r BY <1>3 DEF Over
<1>. QED BY <1>3, <1>4, <1>6, <1>7 DEF Over

LEMMA DeepIs ==
  ASSUME NEW o
  PROVE  /\ Deep(o) => Inside(o) /\ Len(o) \in Nat \ {0, 1} /\ Inside(Front(o)) /\ Last(o) \in Marks
                       /\ Append(Front(o), Last(o)) = o /\ Len(Front(o)) = Len(o) - 1
         /\ Inside(o) /\ Len(o) \in Nat \ {0, 1} => Deep(o)
<1>1. ASSUME Inside(o) PROVE /\ Front(o) \in Seq(Marks) /\ Last(o) \in Marks /\ Append(Front(o), Last(o)) = o
                             /\ Len(Front(o)) = Len(o) - 1 /\ Len(o) \in Nat \ {0}
  <2>1. o \in Seq(Marks) /\ o # <<>> BY <1>1 DEF Inside
  <2>. QED BY <2>1, Popped
<1>2. ASSUME Deep(o) PROVE Len(o) \in Nat \ {0, 1}
  <2>1. Inside(o) /\ Inside(Front(o)) BY <1>2 DEF Deep
  <2>2. Len(Front(o)) \in Nat \ {0} BY <2>1, InsideLong
  <2>3. Len(Front(o)) = Len(o) - 1 /\ Len(o) \in Nat BY <1>1, <2>1
  <2>. QED BY <2>2, <2>3
<1>3. ASSUME Inside(o), Len(o) \in Nat \ {0, 1} PROVE Deep(o)
  <2>1. PICK f : f = Front(o) OBVIOUS
  <2>2. f \in Seq(Marks) /\ Len(f) = Len(o) - 1 BY <1>1, <1>3, <2>1
  <2>5. Len(o) - 1 \in Nat \ {0} BY <1>3, Below
  <2>3. PICK n \in Nat \ {0} : n = Len(o) - 1 BY <2>5
  <2>4. Inside(f) BY <2>2, <2>3, LongInside
  <2>. QED BY <1>3, <2>1, <2>4 DEF Deep
<1>. QED BY <1>1, <1>2, <1>3 DEF Deep

LEMMA OverPop ==
  ASSUME NEW q, NEW o, NEW x, Over(q, o, x), Deep(o)
  PROVE  Deep(q) /\ Over(Front(q), Front(o), x)
<1>1. Inside(o) /\ Len(o) \in Nat \ {0, 1} /\ Len(Front(o)) = Len(o) - 1 BY DeepIs
<1>2. Inside(q) BY <1>1, OverInside
<1>3. Len(o) <= Len(q) BY DEF Over
<1>4. Len(q) \in Nat BY <1>2, InsideLong
<1>5. Len(q) \in Nat \ {0, 1}
  <2>1. Len(o) \in Nat BY <1>1
  <2>. QED BY <1>1, <1>3, <1>4, <2>1, Above
<1>6. Deep(q) BY <1>2, <1>5, DeepIs
<1>7. Len(Front(q)) = Len(q) - 1 /\ Inside(Front(q)) BY <1>6, DeepIs
<1>8. Len(Front(o)) <= Len(Front(q)) BY <1>1, <1>3, <1>4, <1>7
<1>9. Front(q) \in Seq(Marks) BY <1>7 DEF Inside
<1>10. x = 0 => Front(q) = Front(o) BY DEF Over
<1>. QED BY <1>6, <1>8, <1>9, <1>10 DEF Over

LEMMA OverMore ==
  ASSUME NEW q, NEW o, NEW x, Over(q, o, x), Inside(o), NEW z \in Seq(Marks)
  PROVE  Over(q \o z, o, 1)
<1>1. q \in Seq(Marks) /\ Len(o) <= Len(q) BY DEF Over
<1>2. Len(o) \in Nat BY InsideLong
<1>3. q \o z \in Seq(Marks) /\ Len(q \o z) = Len(q) + Len(z) /\ Len(q) \in Nat /\ Len(z) \in Nat BY <1>1
<1>4. Len(o) <= Len(q \o z) BY <1>1, <1>2, <1>3
<1>5. 1 # 0 OBVIOUS
<1>. QED BY <1>3, <1>4, <1>5 DEF Over

-----------------------------------------------------------------------------
\* Elements below the top.
LEMMA DeepWithin ==
  ASSUME NEW c, NEW q, NEW k, At(c, q, k), Deep(q)
  PROVE  \E f, m : Within(c, f, m, k) /\ q = Append(f, m) /\ m = Last(q) /\ f = Front(q)
<1>1. Inside(Front(q)) /\ Last(q) \in Marks /\ Append(Front(q), Last(q)) = q BY DeepIs
<1>. QED BY <1>1 DEF Within

LEMMA DeepBegins ==
  ASSUME NEW c, NEW q, NEW k, At(c, q, k), Deep(q), NEW name, NameIn(Last(q), name), NEW n \in Marks
  PROVE  Within(BeginContainer(c, name, n), q, n, k) /\ At(BeginContainer(c, name, n), Append(q, n), k)
<1>1. PICK f, m : Within(c, f, m, k) /\ q = Append(f, m) /\ m = Last(q) BY DeepWithin
<1>2. Within(BeginContainer(c, name, n), Append(f, m), n, k) BY <1>1, Deeper
<1>. QED BY <1>1, <1>2 DEF Within

LEMMA DeepObject ==
  ASSUME NEW c, NEW q, NEW k, At(c, q, k), Deep(q), NEW name \in AllNames
  PROVE  Within(Object(c, name), q, "{", k) /\ At(Object(c, name), Append(q, "{"), k)
<1>1. NameIn(Last(q), name) BY NamesAreStrings DEF NameIn
<1>2. "{" \in Marks BY DEF Marks
<1>3. PICK m \in Marks : m = "{" BY <1>2
<1>4. Within(BeginContainer(c, name, m), q, m, k) /\ At(BeginContainer(c, name, m), Append(q, m), k)
  BY <1>1, DeepBegins
<1>. QED BY <1>3, <1>4 DEF Object

LEMMA DeepNumeric ==
  ASSUME NEW c, NEW q, NEW k, At(c, q, k), Deep(q), NEW name \in AllNames
  PROVE  At(Numeric(c, name), q, k)
<1>1. PICK f, m : Within(c, f, m, k) /\ q = Append(f, m) BY DeepWithin
<1>2. NameIn(m, name) BY NamesAreStrings DEF NameIn
<1>3. Within(AddElement(c, name, Number), f, m, k) BY <1>1, <1>2, Constants, PutWithin
<1>. QED BY <1>1, <1>3 DEF Within, Numeric

-----------------------------------------------------------------------------
\* The keys: those of the sections written, or at least the first six of them once a
\* text was refused.
Six(k) == (\E T : k \in Seq(T)) /\ Len(k) >= 6 /\ \A i \in 1..6 : k[i] = Sections[i]
KeysOK(k, x, told) == (x = 0 => k = told) /\ (x # 0 => Six(k))

LEMMA SixOn == ASSUME NEW k, Six(k), NEW name PROVE Six(Append(k, name))
<1>1. PICK T : k \in Seq(T) BY DEF Six
<1>2. PICK n \in Nat : n = Len(k) BY <1>1
<1>3. PICK p : p = Append(k, name) OBVIOUS
<1>4. PICK U : U = T \cup {name} OBVIOUS
<1>5. n >= 6 BY <1>2 DEF Six
<1>6. p \in Seq(U) /\ Len(p) = n + 1 /\ \A i \in 1..n : p[i] = k[i]
  <2>1. k \in Seq(U) /\ name \in U BY <1>1, <1>4
  <2>. QED BY <1>2, <1>3, <2>1
<1>7. Len(p) >= 6 /\ \A i \in 1..6 : i \in 1..n BY <1>2, <1>5, <1>6
<1>8. \A i \in 1..6 : p[i] = Sections[i] BY <1>6, <1>7 DEF Six
<1>. QED BY <1>3, <1>6, <1>7, <1>8 DEF Six

LEMMA KeysAtSix == ASSUME NEW k, Six(k), NEW q, NEW name PROVE Six(KeysAt(q, name, k))
BY SixOn DEF KeysAt

LEMMA KeysOn ==
  ASSUME NEW k, NEW x, NEW told, KeysOK(k, x, told), NEW q, Over(q, Root, x), NEW name
  PROVE  KeysOK(KeysAt(q, name, k), x, Append(told, name))
<1>1. CASE x = 0
  <2>1. q = Root /\ k = told BY <1>1 DEF Over, KeysOK
  <2>2. KeysAt(q, name, k) = Append(told, name) BY <2>1, RootIs DEF KeysAt
  <2>. QED BY <1>1, <2>2 DEF KeysOK
<1>2. CASE x # 0
  <2>1. Six(KeysAt(q, name, k)) BY <1>2, KeysAtSix DEF KeysOK
  <2>. QED BY <1>2, <2>1 DEF KeysOK
<1>. QED BY <1>1, <1>2

LEMMA SixAfter ==
  ASSUME NEW k, Six(k), NEW o, NEW name, NEW p, NEW l, KeysAfter(o, name, k, p, l)
  PROVE  Six(l)
BY KeysAtSix DEF KeysAfter

-----------------------------------------------------------------------------
\* The phases.
Writing == {"report", "images", "process", "system", "error", "threads", "crash ends", "scope", "crumbs",
            "user", "debug", "end"}
Late(now)   == now \in {"crumbs", "user", "debug", "end"}
BaseOf(now) == IF now \in {"threads", "crash ends", "crumbs"} THEN Second ELSE Root
SectionsTold(now) ==
  IF now = "report" THEN 0 ELSE IF now = "images" THEN 1 ELSE IF now = "process" THEN 2
  ELSE IF now = "system" THEN 3 ELSE IF now = "error" THEN 4
  ELSE IF now \in {"threads", "crash ends", "scope"} THEN 5
  ELSE IF now \in {"crumbs", "user"} THEN 6 ELSE IF now = "debug" THEN 7 ELSE 8
ToldAt(now) == SubSeq(Sections, 1, SectionsTold(now))

LEMMA EightOf ==
  ASSUME NEW a, NEW b, NEW c, NEW d, NEW e, NEW f, NEW g, NEW h, NEW s, s = <<a, b, c, d, e, f, g, h>>
  PROVE  /\ s \in Seq({a, b, c, d, e, f, g, h}) /\ Len(s) = 8
         /\ s[1] = a /\ s[2] = b /\ s[3] = c /\ s[4] = d /\ s[5] = e /\ s[6] = f /\ s[7] = g /\ s[8] = h
OBVIOUS

LEMMA SectionsAre ==
  /\ \E T : Sections \in Seq(T)
  /\ Len(Sections) = 8 /\ Sections[1] = "report" /\ Sections[2] = "binary_images"
  /\ Sections[3] = "process_state" /\ Sections[4] = "system" /\ Sections[5] = "crash"
  /\ Sections[6] = "sentry_sdk_scope" /\ Sections[7] = "user" /\ Sections[8] = "debug"
<1>1. PICK a, b, c, d, e, f, g, h :
        /\ a = "report" /\ b = "binary_images" /\ c = "process_state" /\ d = "system" /\ e = "crash"
        /\ f = "sentry_sdk_scope" /\ g = "user" /\ h = "debug"
  OBVIOUS
<1>2. PICK s : s = <<a, b, c, d, e, f, g, h>> OBVIOUS
<1>3. Sections = s BY <1>1, <1>2 DEF Sections
<1>4. /\ s \in Seq({a, b, c, d, e, f, g, h}) /\ Len(s) = 8
      /\ s[1] = a /\ s[2] = b /\ s[3] = c /\ s[4] = d /\ s[5] = e /\ s[6] = f /\ s[7] = g /\ s[8] = h
  BY <1>2, EightOf
<1>5. \E T : s \in Seq(T) BY <1>4
<1>. QED BY <1>1, <1>3, <1>4, <1>5

LEMMA PrefixOn ==
  ASSUME NEW T, NEW s \in Seq(T), NEW n \in Nat, n < Len(s)
  PROVE  Append(SubSeq(s, 1, n), s[n + 1]) = SubSeq(s, 1, n + 1)
OBVIOUS

LEMMA PrefixIs ==
  ASSUME NEW T, NEW s \in Seq(T), NEW n \in Nat, n <= Len(s)
  PROVE  SubSeq(s, 1, n) \in Seq(T) /\ Len(SubSeq(s, 1, n)) = n /\ \A i \in 1..n : SubSeq(s, 1, n)[i] = s[i]
OBVIOUS

LEMMA PrefixAll == ASSUME NEW T, NEW s \in Seq(T), NEW n, n = Len(s) PROVE SubSeq(s, 1, n) = s
OBVIOUS

LEMMA PrefixNone == ASSUME NEW T, NEW s \in Seq(T) PROVE SubSeq(s, 1, 0) = <<>>
OBVIOUS

LEMMA SectionsOn ==
  ASSUME NEW n \in 0..7, NEW m, m = n + 1
  PROVE  SubSeq(Sections, 1, m) = Append(SubSeq(Sections, 1, n), Sections[m])
<1>1. PICK s : s = Sections OBVIOUS
<1>2. PICK T : s \in Seq(T) BY <1>1, SectionsAre
<1>3. Len(s) = 8 BY <1>1, SectionsAre
<1>4. SubSeq(s, 1, m) = Append(SubSeq(s, 1, n), s[m]) BY <1>2, <1>3, PrefixOn
<1>. QED BY <1>1, <1>4

LEMMA ToldIs ==
  /\ SectionsTold("report") = 0 /\ SectionsTold("images") = 1 /\ SectionsTold("process") = 2
  /\ SectionsTold("system") = 3 /\ SectionsTold("error") = 4 /\ SectionsTold("threads") = 5
     /\ SectionsTold("crash ends") = 5
  /\ SectionsTold("scope") = 5 /\ SectionsTold("crumbs") = 6 /\ SectionsTold("user") = 6
  /\ SectionsTold("debug") = 7 /\ SectionsTold("end") = 8
BY DEF SectionsTold

LEMMA Counting ==
  /\ 0 + 1 = 1 /\ 1 + 1 = 2 /\ 2 + 1 = 3 /\ 3 + 1 = 4 /\ 4 + 1 = 5 /\ 5 + 1 = 6 /\ 6 + 1 = 7 /\ 7 + 1 = 8
                  /\ \A i \in {0, 1, 2, 3, 4, 5, 6, 7} : i \in 0..7
OBVIOUS

Upto(n) == SubSeq(Sections, 1, n)
LEMMA SectionSteps ==
  /\ Upto(1) = Append(Upto(0), Sections[1]) /\ Upto(2) = Append(Upto(1), Sections[2])
  /\ Upto(3) = Append(Upto(2), Sections[3]) /\ Upto(4) = Append(Upto(3), Sections[4])
  /\ Upto(5) = Append(Upto(4), Sections[5]) /\ Upto(6) = Append(Upto(5), Sections[6])
  /\ Upto(7) = Append(Upto(6), Sections[7]) /\ Upto(8) = Append(Upto(7), Sections[8])
<1>1. \A n \in 0..7, m \in 1..8 : m = n + 1 => Upto(m) = Append(Upto(n), Sections[m])
  BY SectionsOn DEF Upto
<1>2. /\ 0 \in 0..7 /\ 1 \in 0..7 /\ 2 \in 0..7 /\ 3 \in 0..7 /\ 4 \in 0..7 /\ 5 \in 0..7 /\ 6 \in 0..7
      /\ 7 \in 0..7
      /\ 1 \in 1..8 /\ 2 \in 1..8 /\ 3 \in 1..8 /\ 4 \in 1..8 /\ 5 \in 1..8 /\ 6 \in 1..8 /\ 7 \in 1..8
         /\ 8 \in 1..8
  OBVIOUS
<1>3. \A n \in 0..7 : n + 1 \in 1..8 => Upto(n + 1) = Append(Upto(n), Sections[n + 1]) BY <1>1
<1>. HIDE DEF Upto
<1>. QED BY <1>1, <1>2, Counting, Zenon

LEMMA ToldOn ==
  /\ ToldAt("report") = <<>>
  /\ ToldAt("images") = Append(ToldAt("report"), "report")
  /\ ToldAt("process") = Append(ToldAt("images"), "binary_images")
  /\ ToldAt("system") = Append(ToldAt("process"), "process_state")
  /\ ToldAt("error") = Append(ToldAt("system"), "system")
  /\ ToldAt("threads") = Append(ToldAt("error"), "crash")
  /\ ToldAt("crash ends") = ToldAt("threads") /\ ToldAt("scope") = ToldAt("threads")
  /\ ToldAt("crumbs") = Append(ToldAt("scope"), "sentry_sdk_scope")
  /\ ToldAt("user") = ToldAt("crumbs")
  /\ ToldAt("debug") = Append(ToldAt("user"), "user")
  /\ ToldAt("end") = Append(ToldAt("debug"), "debug")
<1>0. ToldAt("report") = <<>>
  <2>1. PICK s : s = Sections OBVIOUS
  <2>2. SubSeq(s, 1, 0) = <<>> BY <2>1, SectionsAre, PrefixNone
  <2>. QED BY <2>1, <2>2, ToldIs DEF ToldAt
<1>1. ToldAt("images") = Append(ToldAt("report"), Sections[1]) BY ToldIs, SectionSteps DEF ToldAt, Upto
<1>2. ToldAt("process") = Append(ToldAt("images"), Sections[2]) BY ToldIs, SectionSteps DEF ToldAt, Upto
<1>3. ToldAt("system") = Append(ToldAt("process"), Sections[3]) BY ToldIs, SectionSteps DEF ToldAt, Upto
<1>4. ToldAt("error") = Append(ToldAt("system"), Sections[4]) BY ToldIs, SectionSteps DEF ToldAt, Upto
<1>5. ToldAt("threads") = Append(ToldAt("error"), Sections[5]) BY ToldIs, SectionSteps DEF ToldAt, Upto
<1>6. ToldAt("crumbs") = Append(ToldAt("scope"), Sections[6]) BY ToldIs, SectionSteps DEF ToldAt, Upto
<1>7. ToldAt("debug") = Append(ToldAt("user"), Sections[7]) BY ToldIs, SectionSteps DEF ToldAt, Upto
<1>8. /\ ToldAt("crash ends") = ToldAt("threads") /\ ToldAt("scope") = ToldAt("threads")
      /\ ToldAt("user") = ToldAt("crumbs")
  BY ToldIs DEF ToldAt
<1>9. ToldAt("end") = Append(ToldAt("debug"), Sections[8]) BY ToldIs, SectionSteps DEF ToldAt, Upto
<1>. QED BY <1>0, <1>1, <1>2, <1>3, <1>4, <1>5, <1>6, <1>7, <1>8, <1>9, SectionsAre

LEMMA PrefixSix ==
  ASSUME NEW T, NEW s \in Seq(T), NEW l, l = Len(s), NEW n \in Nat, l = 8, n \in 6..8, NEW p, p = SubSeq(s, 1, n)
  PROVE  p \in Seq(T) /\ Len(p) >= 6 /\ \A i \in 1..6 : p[i] = s[i]
<1>1. n <= Len(s) BY SMT
<1>2. p \in Seq(T) /\ Len(p) = n /\ \A i \in 1..n : p[i] = s[i] BY <1>1, PrefixIs
<1>3. \A i \in 1..6 : i \in 1..n OBVIOUS
<1>. QED BY <1>2, <1>3

LEMMA ToldSix == Six(ToldAt("crumbs")) /\ Six(ToldAt("debug")) /\ ToldAt("end") = Sections
<1>1. PICK s : s = Sections OBVIOUS
<1>2. PICK T : s \in Seq(T) BY <1>1, SectionsAre
<1>3. 8 = Len(s) BY <1>1, SectionsAre
<1>4. \A n \in {6, 7} : Six(SubSeq(s, 1, n))
  <2>1. ASSUME NEW n \in {6, 7} PROVE Six(SubSeq(s, 1, n))
    <3>1. n \in Nat /\ n \in 6..8 OBVIOUS
    <3>2. PICK p : p = SubSeq(s, 1, n) OBVIOUS
    <3>3. p \in Seq(T) /\ Len(p) >= 6 /\ \A i \in 1..6 : p[i] = s[i] BY <1>2, <1>3, <3>1, <3>2, PrefixSix
    <3>. QED BY <1>1, <3>2, <3>3 DEF Six
  <2>. QED BY <2>1
<1>5. Six(ToldAt("crumbs")) /\ Six(ToldAt("debug")) BY <1>1, <1>4, ToldIs DEF ToldAt
<1>6. SubSeq(s, 1, 8) = s BY <1>2, <1>3, PrefixAll
<1>. QED BY <1>1, <1>5, <1>6, ToldIs DEF ToldAt

-----------------------------------------------------------------------------
\* How the grammar goes on from where it is.
Comma   == ","
Colon   == ":"
AtName  == {"name", "first name"}
AtValue == {"value", "first value"}
IsSequence(s) == \E T : s \in Seq(T)
Opening(o) == IF o = <<>> THEN "value" ELSE IF Last(o) = "{" THEN "first name" ELSE "first value"
Following(o) == IF Last(o) = "{" THEN "name" ELSE "value"

LEMMA AddedOne ==
  ASSUME NEW s, IsSequence(s), NEW t PROVE s \o <<t>> = Append(s, t) /\ IsSequence(s \o <<t>>)
<1>1. PICK T : s \in Seq(T) BY DEF IsSequence
<1>2. s \in Seq(T \cup {t})
  <2>1. Len(s) \in Nat /\ \A i \in 1..Len(s) : s[i] \in T \cup {t} BY <1>1
  <2>. QED BY <1>1, <2>1
<1>3. s \o <<t>> = Append(s, t) /\ Append(s, t) \in Seq(T \cup {t}) BY <1>2
<1>. QED BY <1>3 DEF IsSequence

LEMMA StateHas ==
  ASSUME NEW g, NEW open, NEW want, NEW keys, g = State(open, want, keys)
  PROVE  g.open = open /\ g.want = want /\ g.keys = keys
BY DEF State

LEMMA Mistaken == ASSUME NEW g, NEW open, NEW keys, g = State(open, "error", keys) PROVE g.want = "error"
BY DEF State

LEMMA WantsColon ==
  ASSUME NEW g, NEW open, NEW keys, g = State(open, "colon", keys) PROVE g.want = "colon" /\ g.open = open
BY DEF State

LEMMA ClosersAre == \A m : Closer(m) \in {"}", "]"}
BY DEF Closer

LEMMA ValueGoesOn ==
  ASSUME NEW s, NEW t, s.want \in AtValue, Grammar(s, t).want # "error", ~Closes(s, t)
  PROVE  \/ t \in Marks /\ Grammar(s, t) = State(Append(s.open, t), Opening(<<t>>), s.keys)
         \/ t \notin Marks /\ Scalar(t) /\ Grammar(s, t) = After(s.open, s.keys)
<1>1. CASE t \in Marks
  <2>1. Grammar(s, t) = State(Append(s.open, t), IF t = "{" THEN "first name" ELSE "first value", s.keys)
    BY <1>1 DEF Grammar, AtValue
  <2>2. Last(<<t>>) = t /\ <<t>> # <<>> BY DEF Last
  <2>. QED BY <1>1, <2>1, <2>2 DEF Opening
<1>2. CASE t \notin Marks /\ Scalar(t)
  BY <1>2 DEF Grammar, AtValue
<1>3. CASE t \notin Marks /\ ~Scalar(t)
  <2>1. Grammar(s, t) = State(s.open, "error", s.keys) BY <1>3 DEF Grammar, AtValue
  <2>2. Grammar(s, t).want = "error" BY <2>1, Mistaken
  <2>. QED BY <2>2
<1>. QED BY <1>1, <1>2, <1>3

LEMMA CommaGoesOn ==
  ASSUME NEW s, s.want = "after" PROVE Grammar(s, ",") = State(s.open, Following(s.open), s.keys)
<1>1. ~Closes(s, ",") BY ClosersAre DEF Closes
<1>. QED BY <1>1 DEF Grammar, Following

LEMMA AfterGoesOn ==
  ASSUME NEW s, NEW t, s.want = "after", Grammar(s, t).want # "error", t # "," PROVE Closes(s, t)
<1>1. SUFFICES ASSUME ~Closes(s, t) PROVE FALSE OBVIOUS
<1>2. Grammar(s, t) = State(s.open, "error", s.keys) BY <1>1 DEF Grammar
<1>. QED BY <1>2, Mistaken

LEMMA ClosesGoesOn ==
  ASSUME NEW s, NEW t, Closes(s, t) PROVE Grammar(s, t) = After(Front(s.open), s.keys)
BY DEF Grammar

LEMMA NameGoesOn ==
  ASSUME NEW s, NEW t, s.want \in AtName, Grammar(s, t).want # "error", ~Closes(s, t)
  PROVE  Strings(t) /\ Grammar(s, t).want = "colon" /\ Grammar(s, t).open = s.open
<1>1. CASE Strings(t)
  <2>1. PICK k : Grammar(s, t) = State(s.open, "colon", k) BY <1>1 DEF Grammar, AtName
  <2>2. Grammar(s, t).want = "colon" /\ Grammar(s, t).open = s.open BY <2>1, WantsColon
  <2>. QED BY <1>1, <2>2
<1>2. CASE ~Strings(t)
  <2>1. Grammar(s, t) = State(s.open, "error", s.keys) BY <1>2 DEF Grammar, AtName
  <2>2. Grammar(s, t).want = "error" BY <2>1, Mistaken
  <2>. QED BY <2>2
<1>. QED BY <1>1, <1>2

LEMMA ColonGoesOn ==
  ASSUME NEW s, NEW t, s.want = "colon", Grammar(s, t).want # "error"
  PROVE  t = ":" /\ Grammar(s, t).want = "value" /\ Grammar(s, t).open = s.open
<1>1. ~Closes(s, t) BY DEF Closes
<1>2. CASE t = ":"
  <2>1. Grammar(s, t) = State(s.open, "value", s.keys) BY <1>1, <1>2 DEF Grammar
  <2>2. Grammar(s, t).want = "value" /\ Grammar(s, t).open = s.open BY <2>1, StateHas
  <2>. QED BY <1>2, <2>2
<1>3. CASE t # ":"
  <2>1. Grammar(s, t) = State(s.open, "error", s.keys) BY <1>1, <1>3 DEF Grammar
  <2>2. Grammar(s, t).want = "error" BY <2>1, Mistaken
  <2>. QED BY <2>2
<1>. QED BY <1>2, <1>3

LEMMA NoCloserAfterComma ==
  ASSUME NEW s, NEW t \in {"}", "]"}, s.want \in {"name", "value"} PROVE Grammar(s, t).want = "error"
<1>1. ~Closes(s, t) /\ t \notin Marks /\ ~Scalar(t) /\ ~Strings(t)
  BY DEF Closes, Marks, Scalar, Strings, NotStrings, Punctuation, Numbers, Number, Now, Literal
<1>2. Grammar(s, t) = State(s.open, "error", s.keys) BY <1>1 DEF Grammar
<1>. QED BY <1>2, Mistaken

LEMMA NothingAfterEnd == ASSUME NEW s, NEW t, s.want = "end" PROVE Grammar(s, t).want = "error"
<1>1. ~Closes(s, t) BY DEF Closes
<1>2. Grammar(s, t) = State(s.open, "error", s.keys) BY <1>1 DEF Grammar
<1>. QED BY <1>2, Mistaken

LEMMA EndIsLast ==
  ASSUME NEW text, Len(text) \in Nat, NEW run, Reading(text, run), NEW k \in 0..Len(text), run[k].want = "end"
  PROVE  k = Len(text)
<1>1. SUFFICES ASSUME k # Len(text) PROVE FALSE OBVIOUS
<1>2. PICK i \in 1..Len(text) : i - 1 = k
  <2>1. k + 1 \in 1..Len(text) /\ (k + 1) - 1 = k BY <1>1
  <2>. QED BY <2>1
<1>3. run[i] = Grammar(run[i - 1], text[i]) /\ run[i].want # "error" BY DEF Reading
<1>4. PICK s, t : s = run[k] /\ t = text[i] OBVIOUS
<1>5. run[i] = Grammar(s, t) /\ s.want = "end" BY <1>2, <1>3, <1>4
<1>6. Grammar(s, t).want = "error" BY <1>5, NothingAfterEnd
<1>. QED BY <1>3, <1>5, <1>6

\* A text that is read without an error begins with a container, unless it is a scalar.
Heads(text, run) ==
  Reading(text, run) /\ IsSequence(text) /\ Len(text) \in Nat /\ (Len(text) # 0 => text[1] \in Marks)
Torn(f)  == \E run : Heads(f, run) /\ run[Len(f)].want # "end"
Solid(f) == \E run : Heads(f, run) /\ run[Len(f)].want = "end"

LEMMA MarkFirst ==
  ASSUME NEW text, Len(text) \in Nat, Len(text) # 0, NEW run, Reading(text, run), NEW s, s = run[Len(text)],
         s.open # <<>> \/ s.keys # <<>>
  PROVE  text[1] \in Marks
<1>1. SUFFICES ASSUME text[1] \notin Marks PROVE FALSE OBVIOUS
<1>2. PICK t, g : t = text[1] /\ g = run[1] OBVIOUS
<1>3. g = Grammar(Start, t) /\ g.want # "error"
  <2>1. 1 \in 1..Len(text) /\ 1 - 1 = 0 OBVIOUS
  <2>2. run[1] = Grammar(run[1 - 1], text[1]) /\ run[1].want # "error" /\ run[0] = Start BY <2>1 DEF Reading
  <2>. QED BY <1>2, <2>1, <2>2
<1>4. PICK o : o = Start OBVIOUS
<1>5. o.open = <<>> /\ o.want = "value" /\ o.keys = <<>> BY <1>4 DEF Start, State
<1>6. o.want \in AtValue BY <1>5, Zenon DEF AtValue
<1>7. ~Closes(o, t) BY <1>5, Zenon DEF Closes
<1>8. g = After(o.open, o.keys) BY <1>1, <1>2, <1>3, <1>4, <1>6, <1>7, ValueGoesOn
<1>9. g.open = <<>> /\ g.want = "end" /\ g.keys = <<>> BY <1>5, <1>8, StateHas DEF After
<1>10. 1 \in 0..Len(text) OBVIOUS
<1>11. 1 = Len(text) BY <1>2, <1>9, <1>10, EndIsLast
<1>. QED BY <1>2, <1>9, <1>11

LEMMA TornPart ==
  ASSUME NEW c, NEW q, NEW k, At(c, q, k), q # <<>>, NEW n \in Nat, n <= Len(c.out), NEW f, f = SubSeq(c.out, 1, n)
  PROVE  Torn(f)
<1>1. PICK text : text = c.out OBVIOUS
<1>2. PICK w : w = Want(c) OBVIOUS
<1>3. w # "end"
  <2>1. c.open # <<>> BY DEF At
  <2>. QED BY <1>2, <2>1, Zenon DEF Want
<1>4. PICK s : s = State(q, w, k) OBVIOUS
<1>5. s.open = q /\ s.want = w BY <1>4, StateHas
<1>6. Reads(text, s) BY <1>1, <1>2, <1>4 DEF At
<1>7. PICK run : Reading(text, run) /\ run[Len(text)] = s BY <1>6 DEF Reads
<1>8. PICK T : text \in Seq(T) BY <1>6 DEF Reads
<1>9. Len(text) \in Nat BY <1>8
<1>10. n # 0 => text[1] \in Marks
  <2>1. n # 0 => Len(text) # 0 BY <1>1
  <2>. QED BY <1>5, <1>7, <1>9, <2>1, MarkFirst
<1>11. Reading(f, run) /\ IsSequence(f) /\ Len(f) = n /\ (n # 0 => f[1] = text[1])
  <2>1. PICK p : p = SubSeq(text, 1, n) OBVIOUS
  <2>2. f = p /\ n <= Len(text) BY <1>1, <2>1
  <2>3. p \in Seq(T) /\ Len(p) = n /\ \A i \in 1..n : p[i] = text[i] BY <1>8, <2>1, <2>2, PrefixIs
  <2>4. \A i \in 1..n : i \in 1..Len(text) BY <1>9, <2>2
  <2>5. Reading(p, run)
    <3>1. \A i \in 1..n : run[i] = Grammar(run[i - 1], p[i]) /\ run[i].want # "error" /\ p[i] # Control
      BY <1>7, <2>3, <2>4 DEF Reading
    <3>. QED BY <1>7, <2>3, <3>1 DEF Reading
  <2>6. n # 0 => p[1] = text[1] BY <2>3
  <2>7. IsSequence(p) BY <2>3 DEF IsSequence
  <2>. QED BY <2>2, <2>3, <2>5, <2>6, <2>7
<1>12. run[n].want # "end"
  <2>1. SUFFICES ASSUME run[n].want = "end" PROVE FALSE OBVIOUS
  <2>2. n \in 0..Len(text) BY <1>1, <1>9
  <2>3. n = Len(text) BY <1>7, <1>9, <2>1, <2>2, EndIsLast
  <2>. QED BY <1>3, <1>5, <1>7, <2>1, <2>3
<1>. QED BY <1>10, <1>11, <1>12 DEF Torn, Heads

LEMMA WholeSolid == ASSUME NEW c, NEW k, Whole(c, k), k # <<>> PROVE Solid(c.out)
<1>1. PICK text : text = c.out OBVIOUS
<1>2. Want(c) = "end"
  <2>1. c.open = <<>> /\ c.first = FALSE BY DEF Whole, At
  <2>. QED BY <2>1 DEF Want
<1>3. PICK s : s = State(<<>>, "end", k) OBVIOUS
<1>4. s.want = "end" /\ s.keys = k BY <1>3 DEF State
<1>5. Reads(text, s) BY <1>1, <1>2, <1>3 DEF Whole, At
<1>6. PICK run : Reading(text, run) /\ run[Len(text)] = s BY <1>5 DEF Reads
<1>7. Len(text) \in Nat BY <1>5 DEF Reads
<1>8. Len(text) # 0 => text[1] \in Marks BY <1>4, <1>6, <1>7, MarkFirst
<1>9. IsSequence(text) BY <1>5 DEF Reads, IsSequence
<1>. QED BY <1>1, <1>4, <1>6, <1>7, <1>8, <1>9 DEF Solid, Heads

\* The keys that were met are a sequence.
LEMMA KeysGoOn == ASSUME NEW s, NEW t PROVE Grammar(s, t).keys \in {s.keys, Append(s.keys, t)}
<1>1. PICK k : k = Append(s.keys, t) OBVIOUS
<1>2. \E o, w : \E l \in {s.keys, k} : Grammar(s, t) = State(o, w, l) BY <1>1, Zenon DEF Grammar, After
<1>. QED BY <1>1, <1>2, StateHas

LEMMA KeysAreTold == ASSUME NEW text, NEW s, Reads(text, s) PROVE IsSequence(s.keys)
<1>1. PICK run : Reading(text, run) /\ run[Len(text)] = s BY DEF Reads
<1>2. PICK n \in Nat : n = Len(text) BY DEF Reads
<1>. DEFINE S == {i \in 0..n : IsSequence(run[i].keys)}
<1>. HIDE DEF S
<1>3. 0 \in S
  <2>1. run[0] = Start BY <1>1 DEF Reading
  <2>2. run[0].keys = <<>> BY <2>1 DEF Start, State
  <2>3. <<>> \in Seq({}) OBVIOUS
  <2>4. IsSequence(run[0].keys) BY <2>2, <2>3 DEF IsSequence
  <2>. QED BY <2>4 DEF S
<1>4. ASSUME NEW i \in 0..n, i \in S, i < n PROVE i + 1 \in S
  <2>1. i + 1 \in 1..n /\ (i + 1) - 1 = i BY <1>4
  <2>2. PICK r, t : r = run[i] /\ t = text[i + 1] OBVIOUS
  <2>3. PICK g : g = run[i + 1] OBVIOUS
  <2>4. g = Grammar(r, t) BY <1>1, <1>2, <2>1, <2>2, <2>3 DEF Reading
  <2>5. g.keys \in {r.keys, Append(r.keys, t)} BY <2>4, KeysGoOn
  <2>6. IsSequence(r.keys) BY <1>4, <2>2 DEF S
  <2>7. IsSequence(Append(r.keys, t)) BY <2>6, AddedOne
  <2>8. IsSequence(g.keys) BY <2>5, <2>6, <2>7
  <2>. QED BY <2>1, <2>3, <2>8 DEF S
<1>5. \A i \in 0..n : i \in S BY <1>3, <1>4, Upward
<1>6. n \in S BY <1>5
<1>. QED BY <1>1, <1>2, <1>6 DEF S

-----------------------------------------------------------------------------
\* The first report while it is written: e is the encoder, w what is left of the section, o
\* what should be open, k the keys so far, and x is 1 once a text was refused.
Spare(r) == IF r THEN 1 ELSE 0
Progress(e, w, o, k, x, now) ==
  /\ At(e, e.open, k) /\ Over(e.open, o, x) /\ Inside(o) /\ Brings(w, o, BaseOf(now), now)
  /\ KeysOK(k, x, ToldAt(now)) /\ (x = 1 => Late(now))
Standing(e, w, now, r, f) ==
  /\ now \in Writing \cup {"faulted", "closed", "dead", "recrashed", "read"}
  /\ now \in Writing => \E o, k : Progress(e, w, o, k, Spare(r), now)
  /\ now \notin Writing => w = <<>>
  /\ now = "faulted" => \E k : At(e, e.open, k) /\ Inside(e.open)
  /\ now = "closed" => f = e.out /\ \E k : Whole(e, k) /\ KeysOK(k, Spare(r), Sections)
  /\ now = "dead" => Torn(f)
  /\ now = "recrashed" => Solid(f) /\ \E k : Whole(e, k)
TextInv == ReportInv /\ flushed \in Nat /\ refused \in BOOLEAN /\ Standing(enc, work, phase, refused, file)

LEMMA StandsWriting ==
  ASSUME NEW e, NEW w, NEW now \in Writing, NEW r, NEW f, NEW o, NEW k, Progress(e, w, o, k, Spare(r), now)
  PROVE  Standing(e, w, now, r, f)
<1>1. now \notin {"faulted", "closed", "dead", "recrashed"} BY DEF Writing
<1>. QED BY <1>1 DEF Standing

LEMMA StandsFaulted ==
  ASSUME NEW e, NEW r, NEW f, NEW q, NEW k, At(e, q, k), Inside(q)
  PROVE  Standing(e, <<>>, "faulted", r, f)
<1>1. "faulted" \notin Writing /\ "faulted" \notin {"closed", "dead", "recrashed"} BY DEF Writing
<1>2. At(e, e.open, k) /\ Inside(e.open) BY DEF At
<1>. QED BY <1>1, <1>2 DEF Standing

\* A section that begins or ends: nothing is left to do of the one before.
LEMMA Between ==
  ASSUME NEW e, NEW now \in Writing, NEW r, NEW f, Standing(e, <<>>, now, r, f)
  PROVE  \E q, k : /\ q = e.open /\ At(e, q, k) /\ Over(q, BaseOf(now), Spare(r)) /\ Inside(q) /\ Inside(BaseOf(now))
                   /\ KeysOK(k, Spare(r), ToldAt(now)) /\ (Spare(r) = 1 => Late(now))
<1>1. PICK o, k : Progress(e, <<>>, o, k, Spare(r), now) BY DEF Standing
<1>2. o = BaseOf(now) BY <1>1, NothingBrings DEF Progress
<1>3. PICK q : q = e.open OBVIOUS
<1>4. Over(q, o, Spare(r)) /\ Inside(o) BY <1>1, <1>3 DEF Progress
<1>5. Inside(q) BY <1>4, OverInside
<1>. QED BY <1>1, <1>2, <1>3, <1>4, <1>5 DEF Progress

LEMMA Ends ==
  ASSUME NEW e, NEW next \in Writing, NEW r, NEW f, NEW q, NEW k, At(e, q, k), Over(q, BaseOf(next), Spare(r)),
         Inside(BaseOf(next)), KeysOK(k, Spare(r), ToldAt(next)), Spare(r) = 1 => Late(next)
  PROVE  Standing(e, <<>>, next, r, f)
<1>1. e.open = q BY DEF At
<1>2. Progress(e, <<>>, BaseOf(next), k, Spare(r), next) BY <1>1, BringsNothing DEF Progress
<1>. QED BY <1>2, StandsWriting

\* Within a section: the first thing to do, and what is left when it is done.
LEMMA Doing ==
  ASSUME NEW e, NEW w, w # <<>>, NEW now, NEW r, NEW f, Standing(e, w, now, r, f)
  PROVE  \E q, o, k, p :
           /\ now \in Writing /\ q = e.open /\ At(e, q, k) /\ Over(q, o, Spare(r)) /\ Deep(o) /\ Deep(q)
           /\ Item(Head(w), o, p, now) /\ Brings(Tail(w), p, BaseOf(now), now)
           /\ KeysOK(k, Spare(r), ToldAt(now)) /\ (Spare(r) = 1 => Late(now))
<1>0. now \in Writing BY DEF Standing
<1>1. PICK o, k : Progress(e, w, o, k, Spare(r), now) BY <1>0 DEF Standing
<1>2. Brings(w, o, BaseOf(now), now) BY <1>1 DEF Progress
<1>3. PICK p : Item(Head(w), o, p, now) /\ Brings(Tail(w), p, BaseOf(now), now) BY <1>2, BringsFirst
<1>4. Deep(o) BY <1>3 DEF Item
<1>5. PICK q : q = e.open OBVIOUS
<1>6. Over(q, o, Spare(r)) BY <1>1, <1>5 DEF Progress
<1>7. Deep(q) BY <1>4, <1>6, OverPop
<1>. QED BY <1>0, <1>1, <1>3, <1>4, <1>5, <1>6, <1>7 DEF Progress

LEMMA DoneOf ==
  ASSUME NEW e, NEW now \in Writing, NEW r, NEW f, NEW q, NEW k, At(e, q, k), NEW o, Over(q, o, Spare(r)),
         Inside(o),
         NEW s, NEW p, Brings(s, o, p, now), NEW t, Brings(t, p, BaseOf(now), now),
         KeysOK(k, Spare(r), ToldAt(now)), Spare(r) = 1 => Late(now)
  PROVE  Standing(e, s \o t, now, r, f)
<1>1. e.open = q BY DEF At
<1>2. Brings(s \o t, o, BaseOf(now), now) BY BringsJoined
<1>3. Progress(e, s \o t, o, k, Spare(r), now) BY <1>1, <1>2 DEF Progress
<1>. QED BY <1>3, StandsWriting

LEMMA DoneWith ==
  ASSUME NEW e, NEW now \in Writing, NEW r, NEW f, NEW q, NEW k, At(e, q, k), NEW o, Over(q, o, Spare(r)),
         Inside(o),
         NEW t, Brings(t, o, BaseOf(now), now),
         KeysOK(k, Spare(r), ToldAt(now)), Spare(r) = 1 => Late(now)
  PROVE  Standing(e, t, now, r, f)
<1>1. e.open = q BY DEF At
<1>2. Progress(e, t, o, k, Spare(r), now) BY <1>1 DEF Progress
<1>. QED BY <1>2, StandsWriting

-----------------------------------------------------------------------------
\* What there may be to do.
LEMMA ClosesOne ==
  ASSUME NEW o, Inside(o), NEW m \in Marks, NEW now
  PROVE  Brings(<<Close>>, Append(o, m), o, now)
<1>1. Deep(Append(o, m)) /\ Front(Append(o, m)) = o BY PushedDeep
<1>2. IsClose(Close) /\ Close.do # "thread" /\ Close.do # "value" /\ Close.do # "memory" BY DEF IsClose, Close
<1>3. Item(Close, Append(o, m), o, now) BY <1>1, <1>2 DEF Item, ThreadFits, ValueFits, MemoryFits
<1>. QED BY <1>3, BringsOne

LEMMA PairTyped ==
  ASSUME NEW S, NEW a \in S, NEW b \in S, NEW s, NEW t, NEW p, s = <<a>>, t = <<b>>, p = <<a, b>>
  PROVE  s \o t = p
<1>1. s \in Seq(S) /\ t \in Seq(S) /\ p \in Seq(S) OBVIOUS
<1>2. Len(s) = 1 /\ Len(t) = 1 /\ s[1] = a /\ t[1] = b /\ Len(p) = 2 /\ p[1] = a /\ p[2] = b OBVIOUS
<1>3. PICK w : w = s \o t OBVIOUS
<1>4. w \in Seq(S) /\ Len(w) = 2 /\ w[1] = a /\ w[2] = b
  <2>1. \A i \in 1..2 : w[i] = IF i <= 1 THEN s[i] ELSE t[i - 1] BY <1>1, <1>2, <1>3
  <2>2. w[1] = s[1] /\ w[2] = t[1] BY <2>1
  <2>3. w \in Seq(S) /\ Len(w) = 2 BY <1>1, <1>2, <1>3
  <2>. QED BY <1>2, <2>2, <2>3
<1>5. \A i \in 1..2 : w[i] = p[i]
  <2>1. \A i \in 1..2 : i = 1 \/ i = 2 OBVIOUS
  <2>. QED BY <1>2, <1>4, <2>1
<1>6. w = p BY <1>1, <1>2, <1>4, <1>5
<1>. QED BY <1>3, <1>6

LEMMA Pair == ASSUME NEW a, NEW b PROVE <<a>> \o <<b>> = <<a, b>>
<1>1. a \in {a, b} /\ b \in {a, b} OBVIOUS
<1>. QED BY <1>1, PairTyped

LEMMA ClosesTwo ==
  ASSUME NEW o, Inside(o), NEW m \in Marks, NEW n \in Marks, NEW now
  PROVE  Brings(<<Close, Close>>, Append(Append(o, m), n), o, now)
<1>1. PICK p : p = Append(o, m) OBVIOUS
<1>2. Inside(p) BY <1>1, Deepened
<1>3. Brings(<<Close>>, Append(p, n), p, now) BY <1>2, ClosesOne
<1>4. Brings(<<Close>>, p, o, now) BY <1>1, ClosesOne
<1>5. Brings(<<Close>> \o <<Close>>, Append(p, n), o, now) BY <1>3, <1>4, BringsJoined
<1>. QED BY <1>1, <1>5, Pair

LEMMA MemoryItem ==
  ASSUME NEW o, Deep(o), NEW name \in AllNames, NEW a, NEW now
  PROVE  Item(Memory(name, a), o, o, now)
<1>1. PICK j : j = Memory(name, a) OBVIOUS
<1>2. j.do = "memory" /\ j.name = name BY <1>1 DEF Memory
<1>3. ~IsClose(j) /\ j.do # "thread" /\ j.do # "value" BY <1>2 DEF IsClose
<1>4. Item(j, o, o, now) BY <1>2, <1>3 DEF Item, ThreadFits, ValueFits, MemoryFits
<1>. QED BY <1>1, <1>4

LEMMA VariableItem == ASSUME NEW o, Deep(o), NEW a, NEW i, NEW now PROVE Item(Variable(a, i), o, o, now)
<1>1. PICK j : j = Variable(a, i) OBVIOUS
<1>2. j.do = "ivar" BY <1>1 DEF Variable
<1>3. ~IsClose(j) /\ j.do # "thread" /\ j.do # "value" /\ j.do # "memory" BY <1>2 DEF IsClose
<1>4. Item(j, o, o, now) BY <1>3 DEF Item, ThreadFits, ValueFits, MemoryFits
<1>. QED BY <1>1, <1>4

LEMMA PlaceItem == ASSUME NEW o, Deep(o), NEW a, NEW now PROVE Item(Place(a), o, o, now)
<1>1. PICK j : j = Place(a) OBVIOUS
<1>2. j.do = "place" BY <1>1 DEF Place
<1>3. ~IsClose(j) /\ j.do # "thread" /\ j.do # "value" /\ j.do # "memory" BY <1>2 DEF IsClose
<1>4. Item(j, o, o, now) BY <1>3 DEF Item, ThreadFits, ValueFits, MemoryFits
<1>. QED BY <1>1, <1>4

LEMMA ThreadItem ==
  ASSUME NEW o, Deep(o), Last(o) = "[", NEW t \in ThreadStates
  PROVE  Item(Thread(t), o, o, "crash ends")
<1>1. PICK j : j = Thread(t) OBVIOUS
<1>2. j.do = "thread" /\ j.thread = t BY <1>1 DEF Thread
<1>3. ~IsClose(j) /\ j.do # "value" /\ j.do # "memory" BY <1>2 DEF IsClose
<1>4. ThreadFits(j, o, "crash ends") BY <1>2 DEF ThreadFits
<1>5. Item(j, o, o, "crash ends") BY <1>3, <1>4 DEF Item, ValueFits, MemoryFits
<1>. QED BY <1>1, <1>5

LEMMA ValueItem ==
  ASSUME NEW o, Deep(o), NEW name, Writable(name), NEW T, NEW text \in Seq(T), Speakable(text),
         NEW now, InScope(now)
  PROVE  Item(Value(name, text), o, o, now)
<1>1. PICK j : j = Value(name, text) OBVIOUS
<1>2. j.do = "value" /\ j.name = name /\ j.text = text BY <1>1 DEF Value
<1>3. ~IsClose(j) /\ j.do # "thread" /\ j.do # "memory" BY <1>2 DEF IsClose
<1>4. ValueFits(j, now) BY <1>2 DEF ValueFits
<1>5. Item(j, o, o, now) BY <1>3, <1>4 DEF Item, ThreadFits, MemoryFits
<1>. QED BY <1>1, <1>5

\* An action that keeps the report in shape.
LEMMA KeepsText ==
  ASSUME ReportInv', flushed' \in Nat, refused' \in BOOLEAN, Standing(enc', work', phase', refused', file')
  PROVE  TextInv'
BY DEF TextInv

LEMMA TextLength == ASSUME NEW c, NEW q, NEW k, At(c, q, k) PROVE Len(c.out) \in Nat /\ \E T : c.out \in Seq(T)
BY DEF At, Reads

LEMMA TextSound == ASSUME NEW c, NEW q, NEW k, At(c, q, k) PROVE Sound(c.out)
BY DEF At, Reads, Reading, Sound, Mute

LEMMA TextTyped == ASSUME TextInv PROVE /\ process \in Processes /\ refused \in BOOLEAN /\ flushed \in Nat
                                        /\ Standing(enc, work, phase, refused, file)
BY DEF TextInv, ReportInv, Working

LEMMA Bases ==
  /\ \A now \in {"report", "images", "process", "system", "error", "scope", "user", "debug", "end"} :
       now \in Writing /\ BaseOf(now) = Root
  /\ \A now \in {"threads", "crash ends", "crumbs"} : now \in Writing /\ BaseOf(now) = Second
  /\ \A now \in {"report", "images", "process", "system", "error", "threads", "crash ends", "scope"} : ~Late(now)
  /\ \A now \in {"crumbs", "user", "debug", "end"} : Late(now)
BY DEF Writing, BaseOf, Late

LEMMA SecondIs ==
  /\ Inside(Root) /\ Inside(Second) /\ Deep(Second) /\ Front(Second) = Root /\ Second \in Seq(Marks)
  /\ Second = Append(Root, "{") /\ "{" \in Marks /\ "[" \in Marks
<1>1. "{" \in Marks /\ "[" \in Marks BY DEF Marks
<1>. QED BY <1>1, RootIs, PushedDeep, Deepened DEF Second, Inside

LEMMA SpareIs == ASSUME NEW r PROVE /\ Spare(r) # 1 => Spare(r) = 0 
                                    /\ Spare(r) # 0 => Spare(r) = 1
BY DEF Spare

\* A section at the top, between two phases at the top.
LEMMA SectionAtTop ==
  ASSUME NEW e, NEW now \in Writing, NEW next \in Writing, NEW r, NEW f, Standing(e, <<>>, now, r, f),
         BaseOf(now) = Root, BaseOf(next) = Root, Late(now) => Late(next),
         NEW name, ToldAt(next) = Append(ToldAt(now), name),
         NEW d, \A q, k : At(e, q, k) /\ Inside(q) => At(d, q, KeysAt(q, name, k)), NEW g
  PROVE  Standing(d, <<>>, next, r, g) /\ Len(e.out) \in Nat
<1>1. PICK q, k : /\ q = e.open /\ At(e, q, k) /\ Over(q, BaseOf(now), Spare(r)) /\ Inside(q)
      /\ Inside(BaseOf(now))
                   /\ KeysOK(k, Spare(r), ToldAt(now)) /\ (Spare(r) = 1 => Late(now))
  BY Between
<1>2. PICK l : l = KeysAt(q, name, k) OBVIOUS
<1>3. At(d, q, l) BY <1>1, <1>2
<1>4. KeysOK(l, Spare(r), ToldAt(next)) BY <1>1, <1>2, KeysOn
<1>. QED BY <1>1, <1>3, <1>4, Ends, TextLength

LEMMA ReportInfoText == ASSUME TextInv, WriteReportInfo PROVE TextInv'
<1>1. /\ phase = "report" /\ work = <<>> /\ phase' = "images" /\ enc' = ReportInfo(enc, "standard")
      /\ flushed' = flushed /\ work' = <<>> /\ refused' = refused
  BY DEF WriteReportInfo
<1>2. PICK d : d = ReportInfo(enc, "standard") OBVIOUS
<1>3. \A q, k : At(enc, q, k) /\ Inside(q) => At(d, q, KeysAt(q, "report", k))
  BY <1>2, Constants, ReportInfoWrites
<1>4. Standing(enc, <<>>, "report", refused, file) BY <1>1, TextTyped
<1>7. "report" \in Writing /\ "images" \in Writing /\ BaseOf("report") = Root /\ BaseOf("images") = Root
      /\ ~Late("report")
  BY Bases
<1>8. ToldAt("images") = Append(ToldAt("report"), "report") BY ToldOn
<1>5. Standing(d, <<>>, "images", refused, file')
  BY <1>3, <1>4, <1>7, <1>8, SectionAtTop, Zenon
<1>6. ReportInv' BY SectionStep DEF TextInv
<1>. QED BY <1>1, <1>2, <1>5, <1>6, TextTyped, KeepsText

LEMMA BinaryImagesText == ASSUME TextInv, WriteBinaryImages PROVE TextInv'
<1>1. /\ phase = "images" /\ work = <<>> /\ phase' = "process" /\ enc' = BinaryImages(enc)
      /\ flushed' = Len(enc.out) /\ work' = <<>> /\ refused' = refused
  BY DEF WriteBinaryImages, Section
<1>2. PICK d : d = BinaryImages(enc) OBVIOUS
<1>3. \A q, k : At(enc, q, k) /\ Inside(q) => At(d, q, KeysAt(q, "binary_images", k))
  BY <1>2, TextTyped, BinaryImagesWrite
<1>4. Standing(enc, <<>>, "images", refused, file) BY <1>1, TextTyped
<1>7. "images" \in Writing /\ "process" \in Writing /\ BaseOf("images") = Root /\ BaseOf("process") = Root
      /\ ~Late("images")
  BY Bases
<1>8. ToldAt("process") = Append(ToldAt("images"), "binary_images") BY ToldOn
<1>5. Standing(d, <<>>, "process", refused, file') /\ Len(enc.out) \in Nat
  BY <1>3, <1>4, <1>7, <1>8, SectionAtTop, Zenon
<1>6. ReportInv' BY SectionStep DEF TextInv
<1>. QED BY <1>1, <1>2, <1>5, <1>6, TextTyped, KeepsText

LEMMA SystemInfoText == ASSUME TextInv, WriteSystemInfo PROVE TextInv'
<1>1. /\ phase = "system" /\ work = <<>> /\ phase' = "error" /\ enc' = SystemInfo(enc)
      /\ flushed' = Len(enc.out) /\ work' = <<>> /\ refused' = refused
  BY DEF WriteSystemInfo, Section
<1>2. PICK d : d = SystemInfo(enc) OBVIOUS
<1>3. \A q, k : At(enc, q, k) /\ Inside(q) => At(d, q, KeysAt(q, "system", k))
  BY <1>2, SystemInfoWrites
<1>4. Standing(enc, <<>>, "system", refused, file) BY <1>1, TextTyped
<1>7. "system" \in Writing /\ "error" \in Writing /\ BaseOf("system") = Root /\ BaseOf("error") = Root
      /\ ~Late("system")
  BY Bases
<1>8. ToldAt("error") = Append(ToldAt("system"), "system") BY ToldOn
<1>5. Standing(d, <<>>, "error", refused, file') /\ Len(enc.out) \in Nat
  BY <1>3, <1>4, <1>7, <1>8, SectionAtTop, Zenon
<1>6. ReportInv' BY SectionStep DEF TextInv
<1>. QED BY <1>1, <1>2, <1>5, <1>6, TextTyped, KeepsText

\* Before the values of the scope the report is exactly what it should be.
LEMMA Exactly ==
  ASSUME NEW e, NEW now \in Writing, NEW r, NEW f, Standing(e, <<>>, now, r, f), ~Late(now)
  PROVE  \E k : At(e, BaseOf(now), k) /\ Inside(BaseOf(now)) /\ k = ToldAt(now) /\ Spare(r) = 0
<1>1. PICK q, k : /\ q = e.open /\ At(e, q, k) /\ Over(q, BaseOf(now), Spare(r)) /\ Inside(q)
      /\ Inside(BaseOf(now))
                   /\ KeysOK(k, Spare(r), ToldAt(now)) /\ (Spare(r) = 1 => Late(now))
  BY Between
<1>2. Spare(r) = 0 BY <1>1, SpareIs
<1>. QED BY <1>1, <1>2 DEF Over, KeysOK

LEMMA Unspared == ASSUME NEW o, Inside(o), NEW k PROVE Over(o, o, 0) /\ KeysOK(k, 0, k) /\ 0 # 1
<1>1. Len(o) \in Nat /\ o \in Seq(Marks) BY InsideLong
<1>2. PICK n \in Nat : n = Len(o) BY <1>1
<1>3. Len(o) <= Len(o) BY <1>2
<1>4. Over(o, o, 0) BY <1>1, <1>3 DEF Over
<1>5. KeysOK(k, 0, k) /\ 0 # 1 BY DEF KeysOK
<1>. QED BY <1>4, <1>5

LEMMA AtRoot == ASSUME NEW name, NEW k PROVE KeysAt(Root, name, k) = Append(k, name)
BY RootIs DEF KeysAt

LEMMA ErrorText == ASSUME TextInv, WriteError PROVE TextInv'
<1>1. /\ phase = "error" /\ work = <<>> /\ phase' = "threads" /\ enc' = Error(Object(enc, "crash"))
      /\ flushed' = Len(enc.out) /\ work' = <<>> /\ refused' = refused
  BY DEF WriteError, Section
<1>2. Standing(enc, <<>>, "error", refused, file) BY <1>1, TextTyped
<1>3. "error" \in Writing /\ "threads" \in Writing /\ BaseOf("error") = Root /\ BaseOf("threads") = Second
      /\ ~Late("error")
  BY Bases
<1>4. PICK k : At(enc, Root, k) /\ Inside(Root) /\ k = ToldAt("error") /\ Spare(refused) = 0
  BY <1>2, <1>3, Exactly
<1>5. PICK l : l = ToldAt("threads") OBVIOUS
<1>6. l = KeysAt(Root, "crash", k) BY <1>4, <1>5, AtRoot, ToldOn
<1>7. "crash" \in AllNames BY DEF AllNames, Named1
<1>8. PICK c : c = Object(enc, "crash") OBVIOUS
<1>9. Within(c, Root, "{", l) BY <1>4, <1>6, <1>7, <1>8, Objects
<1>10. PICK d : d = Error(c) OBVIOUS
<1>11. At(d, Second, l) BY <1>9, <1>10, TextTyped, ErrorWrites DEF Within, Second
<1>12. Over(Second, Second, 0) /\ KeysOK(l, 0, l) /\ 0 # 1 BY SecondIs, Unspared
<1>13. Standing(d, <<>>, "threads", refused, file') /\ Len(enc.out) \in Nat
  BY <1>3, <1>4, <1>5, <1>11, <1>12, SecondIs, Ends, TextLength
<1>14. ReportInv' BY SectionStep DEF TextInv
<1>. QED BY <1>1, <1>8, <1>10, <1>13, <1>14, TextTyped, KeepsText

LEMMA CrashText == ASSUME TextInv, EndCrash PROVE TextInv'
<1>1. /\ phase = "crash ends" /\ work = <<>> /\ phase' = "scope" /\ enc' = EndContainer(enc)
      /\ flushed' = Len(enc.out) /\ work' = <<>> /\ refused' = refused
  BY DEF EndCrash, Section
<1>2. Standing(enc, <<>>, "crash ends", refused, file) BY <1>1, TextTyped
<1>3. /\ "crash ends" \in Writing /\ "scope" \in Writing /\ BaseOf("scope") = Root
      /\ BaseOf("crash ends") = Second
      /\ ~Late("crash ends")
  BY Bases
<1>4. PICK k : At(enc, Second, k) /\ k = ToldAt("crash ends") /\ Spare(refused) = 0
  BY <1>2, <1>3, Exactly
<1>5. k = ToldAt("scope") BY <1>4, ToldOn
<1>6. PICK d : d = EndContainer(enc) OBVIOUS
<1>7. At(d, Root, k) BY <1>4, <1>6, SecondIs, EndContainerWrites DEF Inside
<1>8. Over(Root, Root, 0) /\ KeysOK(k, 0, k) /\ 0 # 1 BY SecondIs, Unspared
<1>9. Standing(d, <<>>, "scope", refused, file') /\ Len(enc.out) \in Nat
  BY <1>3, <1>4, <1>5, <1>7, <1>8, SecondIs, Ends, TextLength
<1>10. ReportInv' BY SectionStep DEF TextInv
<1>. QED BY <1>1, <1>6, <1>9, <1>10, TextTyped, KeepsText

-----------------------------------------------------------------------------
\* The sections that take more than one step.
LEMMA StandsExactly ==
  ASSUME NEW e, NEW next \in Writing, NEW r, Spare(r) = 0, NEW f, NEW o, Inside(o), At(e, o, ToldAt(next)),
         NEW w, Brings(w, o, BaseOf(next), next)
  PROVE  Standing(e, w, next, r, f)
<1>1. Over(o, o, 0) /\ KeysOK(ToldAt(next), 0, ToldAt(next)) /\ 0 # 1 BY Unspared
<1>. QED BY <1>1, DoneWith

LEMMA TripleTyped ==
  ASSUME NEW S, NEW a \in S, NEW b \in S, NEW c \in S, NEW s, NEW t, NEW p, s = <<a>>, t = <<b, c>>,
         p = <<a, b, c>>
  PROVE  s \o t = p
<1>1. s \in Seq(S) /\ t \in Seq(S) /\ p \in Seq(S) OBVIOUS
<1>2. Len(s) = 1 /\ Len(t) = 2 /\ s[1] = a /\ t[1] = b /\ t[2] = c /\ Len(p) = 3 /\ p[1] = a /\ p[2] = b
      /\ p[3] = c
  OBVIOUS
<1>3. PICK w : w = s \o t OBVIOUS
<1>4. w \in Seq(S) /\ Len(w) = 3 /\ w[1] = a /\ w[2] = b /\ w[3] = c
  <2>1. \A i \in 1..3 : w[i] = IF i <= 1 THEN s[i] ELSE t[i - 1] BY <1>1, <1>2, <1>3
  <2>2. w[1] = s[1] /\ w[2] = t[1] /\ w[3] = t[2] BY <2>1
  <2>3. w \in Seq(S) /\ Len(w) = 3 BY <1>1, <1>2, <1>3
  <2>. QED BY <1>2, <2>2, <2>3
<1>5. \A i \in 1..3 : w[i] = p[i]
  <2>1. \A i \in 1..3 : i = 1 \/ i = 2 \/ i = 3 OBVIOUS
  <2>. QED BY <1>2, <1>4, <2>1
<1>6. w = p BY <1>1, <1>2, <1>4, <1>5
<1>. QED BY <1>3, <1>6

LEMMA PairMore == ASSUME NEW a, NEW b, NEW c PROVE <<a>> \o <<b, c>> = <<a, b, c>>
<1>1. a \in {a, b, c} /\ b \in {a, b, c} /\ c \in {a, b, c} OBVIOUS
<1>. QED BY <1>1, TripleTyped

LEMMA ProcessBegins == ASSUME TextInv, WriteProcessState PROVE TextInv'
<1>1. /\ phase = "process" /\ work = <<>> /\ phase' = "system" /\ flushed' = Len(enc.out) /\ refused' = refused
  BY DEF WriteProcessState, Section
<1>2. Standing(enc, <<>>, "process", refused, file) BY <1>1, TextTyped
<1>3. "process" \in Writing /\ "system" \in Writing /\ BaseOf("process") = Root
      /\ BaseOf("system") = Root /\ ~Late("process")
  BY Bases
<1>4. PICK k : At(enc, Root, k) /\ Inside(Root) /\ k = ToldAt("process") /\ Spare(refused) = 0
  BY <1>2, <1>3, Exactly
<1>5. PICK l : l = ToldAt("system") OBVIOUS
<1>6. l = KeysAt(Root, "process_state", k) BY <1>4, <1>5, AtRoot, ToldOn
<1>7. {"process_state", "last_dealloced_nsexception", "reason", "referenced_object"} \subseteq AllNames
  BY DEF AllNames, Named1, Named2
<1>8. PICK s : s = Object(enc, "process_state") OBVIOUS
<1>9. PICK u : u = Object(s, "last_dealloced_nsexception") OBVIOUS
<1>10. PICK z : z = Text(u, "reason") OBVIOUS
<1>11. Within(s, Root, "{", l) BY <1>4, <1>6, <1>7, <1>8, Objects
<1>12. Within(u, Second, "{", l) BY <1>7, <1>9, <1>11, Objects DEF Second
<1>13. PICK o : o = Append(Second, "{") OBVIOUS
<1>14. Within(z, Second, "{", l) BY <1>7, <1>10, <1>12, TextPut
<1>15. At(s, Second, l) /\ At(z, o, l) /\ Inside(o) /\ Deep(o)
  BY <1>11, <1>13, <1>14, SecondIs, PushedDeep, Deepened DEF Within, Second
<1>16. Brings(<<Close>>, Second, Root, "system") BY SecondIs, ClosesOne
<1>17. Brings(<<Close, Close>>, o, Root, "system") BY <1>13, SecondIs, ClosesTwo
<1>18. Brings(<<Memory("referenced_object", 1)>>, o, o, "system") BY <1>7, <1>15, MemoryItem, BringsOne
<1>19. Brings(<<Memory("referenced_object", 1)>> \o <<Close, Close>>, o, Root, "system")
  BY <1>17, <1>18, BringsJoined
<1>20. <<Memory("referenced_object", 1)>> \o <<Close, Close>> = <<Memory("referenced_object", 1), Close, Close>>
  BY PairMore
<1>21. enc' = (IF process.zombie = "none" THEN s ELSE z)
  BY <1>8, <1>9, <1>10 DEF WriteProcessState, Section
<1>22. /\ process.zombie = "none" => work' = <<Close>>
       /\ process.zombie = "plain" => work' = <<Close, Close>>
       /\ process.zombie \notin {"none", "plain"} => work' = <<Memory("referenced_object", 1), Close, Close>>
  BY DEF WriteProcessState
<1>23. Standing(enc', work', "system", refused, file')
  <2>1. CASE process.zombie = "none"
    <3>1. enc' = s /\ work' = <<Close>> BY <1>21, <1>22, <2>1
    <3>. QED BY <1>3, <1>4, <1>5, <1>15, <1>16, <3>1, SecondIs, StandsExactly
  <2>2. CASE process.zombie = "plain"
    <3>1. enc' = z /\ work' = <<Close, Close>> BY <1>21, <1>22, <2>2
    <3>. QED BY <1>3, <1>4, <1>5, <1>15, <1>17, <3>1, StandsExactly
  <2>3. CASE process.zombie \notin {"none", "plain"}
    <3>1. enc' = z /\ work' = <<Memory("referenced_object", 1), Close, Close>> BY <1>21, <1>22, <2>3
    <3>2. Brings(work', o, Root, "system") BY <1>19, <1>20, <3>1
    <3>. QED BY <1>3, <1>4, <1>5, <1>15, <3>1, <3>2, StandsExactly
  <2>. QED BY <2>1, <2>2, <2>3
<1>24. ReportInv' BY BeginProcessState DEF TextInv
<1>. QED BY <1>1, <1>4, <1>23, <1>24, TextLength, TextTyped, KeepsText

LEMMA ThreadsBegin == ASSUME TextInv, WriteAllThreads PROVE TextInv'
<1>. DEFINE s == [i \in DOMAIN process.threads |-> Thread(process.threads[i])]
<1>1. /\ phase = "threads" /\ work = <<>> /\ phase' = "crash ends" /\ flushed' = Len(enc.out) /\ refused' = refused
      /\ enc' = Array(enc, "threads") /\ work' = s \o <<Close>>
  BY DEF WriteAllThreads, Section
<1>2. Standing(enc, <<>>, "threads", refused, file) BY <1>1, TextTyped
<1>3. /\ "threads" \in Writing /\ "crash ends" \in Writing /\ BaseOf("threads") = Second
      /\ BaseOf("crash ends") = Second /\ ~Late("threads")
  BY Bases
<1>4. PICK k : At(enc, Second, k) /\ k = ToldAt("threads") /\ Spare(refused) = 0 BY <1>2, <1>3, Exactly
<1>5. k = ToldAt("crash ends") BY <1>4, ToldOn
<1>6. "threads" \in AllNames BY DEF AllNames, Named2
<1>7. NameIn(Last(Second), "threads") BY <1>6, NamesAreStrings DEF NameIn
<1>8. PICK d : d = Array(enc, "threads") OBVIOUS
<1>9. PICK o : o = Append(Second, "[") OBVIOUS
<1>10. At(d, o, k) BY <1>4, <1>7, <1>8, <1>9, SecondIs, DeepBegins DEF Array
<1>11. Deep(o) /\ Last(o) = "[" /\ Inside(o) BY <1>9, SecondIs, PushedDeep, Deepened
<1>12. process.threads \in Seq(ThreadStates) BY TextTyped, ReportAssumption
<1>13. PICK n \in Nat : DOMAIN process.threads = 1..n BY <1>12
<1>14. \A i \in 1..n : process.threads[i] \in ThreadStates BY <1>12, <1>13
<1>15. \A i \in 1..n : Item(s[i], o, o, "crash ends") BY <1>11, <1>13, <1>14, ThreadItem
<1>16. s = [i \in 1..n |-> s[i]] BY <1>13
<1>. HIDE DEF s
<1>17. Brings(s, o, o, "crash ends") BY <1>15, <1>16, BringsOn
<1>18. Brings(<<Close>>, o, Second, "crash ends") BY <1>9, SecondIs, ClosesOne
<1>19. Brings(s \o <<Close>>, o, Second, "crash ends") BY <1>17, <1>18, BringsJoined
<1>20. Standing(d, s \o <<Close>>, "crash ends", refused, file')
  BY <1>3, <1>4, <1>5, <1>10, <1>11, <1>19, StandsExactly
<1>21. ReportInv' BY BeginThreads DEF TextInv
<1>. QED BY <1>1, <1>4, <1>8, <1>20, <1>21, TextLength, TextTyped, KeepsText

LEMMA MemberOf == ASSUME NEW S, NEW s \in Seq(S), NEW i \in DOMAIN s PROVE s[i] \in S
OBVIOUS

LEMMA ScopeBegins == ASSUME TextInv, WriteScope PROVE TextInv'
<1>. DEFINE s == [i \in DOMAIN process.scope |-> Value(process.scope[i].name, process.scope[i].text)]
<1>1. /\ phase = "scope" /\ work = <<>> /\ phase' = "crumbs" /\ flushed' = flushed /\ refused' = refused
      /\ enc' = Object(enc, "sentry_sdk_scope") /\ work' = s
  BY DEF WriteScope
<1>2. Standing(enc, <<>>, "scope", refused, file) BY <1>1, TextTyped
<1>3. "scope" \in Writing /\ "crumbs" \in Writing /\ BaseOf("scope") = Root /\ BaseOf("crumbs") = Second
      /\ ~Late("scope")
  BY Bases
<1>4. PICK k : At(enc, Root, k) /\ Inside(Root) /\ k = ToldAt("scope") /\ Spare(refused) = 0
  BY <1>2, <1>3, Exactly
<1>5. PICK l : l = ToldAt("crumbs") OBVIOUS
<1>6. l = KeysAt(Root, "sentry_sdk_scope", k) BY <1>4, <1>5, AtRoot, ToldOn
<1>7. "sentry_sdk_scope" \in AllNames BY DEF AllNames, Named2
<1>8. PICK d : d = Object(enc, "sentry_sdk_scope") OBVIOUS
<1>9. At(d, Second, l) BY <1>4, <1>6, <1>7, <1>8, Objects DEF Within, Second
<1>10. process.scope \in Seq([name : STRING, text : Seq(STRING)]) BY TextTyped, ReportAssumption
<1>11. PICK n \in Nat : DOMAIN process.scope = 1..n BY <1>10
<1>12. ASSUME NEW i \in 1..n PROVE process.scope[i].text \in Seq(STRING)
  <2>1. process.scope[i] \in [name : STRING, text : Seq(STRING)] BY <1>10, <1>11, MemberOf
  <2>. QED BY <2>1
<1>13. \A i \in 1..n : Writable(process.scope[i].name) /\ Speakable(process.scope[i].text)
  BY <1>11, TextTyped, TextAssumption DEF Writable, Strings
<1>14. InScope("crumbs") BY DEF InScope
<1>15. \A i \in 1..n : Item(s[i], Second, Second, "crumbs")
  BY <1>11, <1>12, <1>13, <1>14, SecondIs, ValueItem
<1>16. s = [i \in 1..n |-> s[i]] BY <1>11
<1>. HIDE DEF s
<1>17. Brings(s, Second, Second, "crumbs") BY <1>15, <1>16, BringsOn
<1>18. Standing(d, s, "crumbs", refused, file')
  BY <1>3, <1>4, <1>5, <1>9, <1>17, SecondIs, StandsExactly
<1>19. ReportInv' BY BeginScope DEF TextInv
<1>. QED BY <1>1, <1>8, <1>18, <1>19, TextTyped, KeepsText

LEMMA BreadcrumbsBegin == ASSUME TextInv, WriteBreadcrumbs PROVE TextInv'
<1>. DEFINE s == [i \in DOMAIN process.crumbs |-> Value("crumb", process.crumbs[i])]
<1>1. phase = "crumbs" /\ work = <<>> /\ phase' = "user" /\ flushed' = flushed /\ refused' = refused
  BY DEF WriteBreadcrumbs
<1>2. Standing(enc, <<>>, "crumbs", refused, file) BY <1>1, TextTyped
<1>3. /\ "crumbs" \in Writing /\ "user" \in Writing /\ BaseOf("crumbs") = Second
      /\ BaseOf("user") = Root /\ Late("user")
  BY Bases
<1>4. PICK q, k : /\ q = enc.open /\ At(enc, q, k) /\ Over(q, Second, Spare(refused))
                  /\ KeysOK(k, Spare(refused), ToldAt("crumbs"))
  BY <1>2, <1>3, Between
<1>5. KeysOK(k, Spare(refused), ToldAt("user")) BY <1>4, ToldOn
<1>6. CASE process.crumbs = <<>>
  <2>1. enc' = enc /\ work' = <<Close>> BY <1>6 DEF WriteBreadcrumbs
  <2>2. Brings(<<Close>>, Second, Root, "user") BY SecondIs, ClosesOne
  <2>3. Standing(enc, <<Close>>, "user", refused, file')
    BY <1>3, <1>4, <1>5, <2>2, SecondIs, DoneWith
  <2>4. ReportInv' BY BeginBreadcrumbs DEF TextInv
  <2>. QED BY <1>1, <2>1, <2>3, <2>4, TextTyped, KeepsText
<1>7. CASE process.crumbs # <<>>
  <2>1. enc' = Array(enc, "breadcrumbs") /\ work' = s \o <<Close, Close>> BY <1>7 DEF WriteBreadcrumbs
  <2>2. "breadcrumbs" \in AllNames /\ "crumb" \in AllNames BY DEF AllNames, Named2
  <2>3. NameIn(Last(q), "breadcrumbs") /\ Writable("crumb") BY <2>2, NamesAreStrings DEF NameIn
  <2>4. PICK d : d = Array(enc, "breadcrumbs") OBVIOUS
  <2>5. PICK o : o = Append(Second, "[") OBVIOUS
  <2>6. PICK p : p = Append(q, "[") OBVIOUS
  <2>7. Deep(q) BY <1>4, SecondIs, OverPop
  <2>8. At(d, p, k) BY <1>4, <2>3, <2>4, <2>6, <2>7, SecondIs, DeepBegins DEF Array
  <2>9. Deep(o) /\ Inside(o) BY <2>5, SecondIs, PushedDeep, Deepened
  <2>10. Over(p, o, Spare(refused)) BY <1>4, <2>5, <2>6, SecondIs, OverPush
  <2>11. process.crumbs \in Seq(Seq(STRING)) BY TextTyped, ReportAssumption
  <2>12. PICK n \in Nat : DOMAIN process.crumbs = 1..n BY <2>11
  <2>22. \A i \in 1..n : process.crumbs[i] \in Seq(STRING) BY <2>11, <2>12
  <2>23. \A i \in 1..n : Speakable(process.crumbs[i]) BY <2>12, TextTyped, TextAssumption
  <2>13. \A i \in 1..n : process.crumbs[i] \in Seq(STRING) /\ Speakable(process.crumbs[i]) BY <2>22, <2>23
  <2>14. InScope("user") BY DEF InScope
  <2>15. \A i \in 1..n : Item(s[i], o, o, "user") BY <2>3, <2>9, <2>12, <2>13, <2>14, ValueItem
  <2>16. s = [i \in 1..n |-> s[i]] BY <2>12
  <2>. HIDE DEF s
  <2>17. Brings(s, o, o, "user") BY <2>15, <2>16, BringsOn
  <2>18. Brings(<<Close, Close>>, o, Root, "user") BY <2>5, SecondIs, ClosesTwo
  <2>19. Brings(s \o <<Close, Close>>, o, Root, "user") BY <2>17, <2>18, BringsJoined
  <2>20. Standing(d, s \o <<Close, Close>>, "user", refused, file')
    BY <1>3, <1>5, <2>8, <2>9, <2>10, <2>19, DoneWith
  <2>21. ReportInv' BY BeginBreadcrumbs DEF TextInv
  <2>. QED BY <1>1, <2>1, <2>4, <2>20, <2>21, TextTyped, KeepsText
<1>. QED BY <1>6, <1>7

\* A step within a section.
LEMMA CloseText == ASSUME TextInv, WriteClose PROVE TextInv'
<1>1. /\ work # <<>> /\ Head(work) = Close /\ enc' = EndContainer(enc) /\ work' = Tail(work)
      /\ phase' = phase /\ flushed' = flushed /\ refused' = refused
  BY DEF WriteClose
<1>2. PICK q, o, k, p :
        /\ phase \in Writing /\ q = enc.open /\ At(enc, q, k) /\ Over(q, o, Spare(refused)) /\ Deep(o) /\ Deep(q)
        /\ Item(Head(work), o, p, phase) /\ Brings(Tail(work), p, BaseOf(phase), phase)
        /\ KeysOK(k, Spare(refused), ToldAt(phase)) /\ (Spare(refused) = 1 => Late(phase))
  BY <1>1, TextTyped, Doing
<1>3. IsClose(Close) BY DEF IsClose, Close
<1>4. p = Front(o) BY <1>1, <1>2, <1>3 DEF Item
<1>5. PICK r : r = Front(q) OBVIOUS
<1>6. Over(r, p, Spare(refused)) BY <1>2, <1>4, <1>5, OverPop
<1>7. Inside(p) /\ q # <<>> BY <1>2, <1>4 DEF Deep, Inside
<1>8. PICK d : d = EndContainer(enc) OBVIOUS
<1>9. At(d, r, k) BY <1>2, <1>5, <1>7, <1>8, EndContainerWrites
<1>10. Standing(d, Tail(work), phase, refused, file') BY <1>2, <1>6, <1>7, <1>9, DoneWith
<1>11. ReportInv' BY ValueStep DEF TextInv
<1>. QED BY <1>1, <1>8, <1>10, <1>11, TextTyped, KeepsText

LEMMA PlaceText == ASSUME TextInv, WriteIfNotable PROVE TextInv'
<1>1. work # <<>> /\ Head(work).do = "place" /\ enc' = enc /\ flushed' = flushed /\ refused' = refused
  BY DEF WriteIfNotable
<1>2. PICK q, o, k, p :
        /\ phase \in Writing /\ q = enc.open /\ At(enc, q, k) /\ Over(q, o, Spare(refused)) /\ Deep(o) /\ Deep(q)
        /\ Item(Head(work), o, p, phase) /\ Brings(Tail(work), p, BaseOf(phase), phase)
        /\ KeysOK(k, Spare(refused), ToldAt(phase)) /\ (Spare(refused) = 1 => Late(phase))
  BY <1>1, TextTyped, Doing
<1>3. ~IsClose(Head(work)) BY <1>1 DEF IsClose
<1>4. p = o BY <1>2, <1>3 DEF Item
<1>5. Inside(o) /\ Inside(q) BY <1>2 DEF Deep
<1>6. ReportInv' BY PlaceStep DEF TextInv
<1>7. PICK a : a = Head(work).address OBVIOUS
<1>8. CASE phase' = "faulted" /\ work' = <<>>
  <2>1. Standing(enc, <<>>, "faulted", refused, file') BY <1>2, <1>5, StandsFaulted
  <2>. QED BY <1>1, <1>6, <1>8, <2>1, TextTyped, KeepsText
<1>9. CASE phase' = phase /\ \E s \in {<<>>, <<Memory("place", a)>>} : work' = s \o Tail(work)
  <2>1. PICK s \in {<<>>, <<Memory("place", a)>>} : work' = s \o Tail(work) BY <1>9
  <2>2. "place" \in AllNames BY DEF AllNames, Named2
  <2>3. Brings(<<Memory("place", a)>>, o, o, phase) BY <1>2, <2>2, MemoryItem, BringsOne
  <2>4. Brings(s, o, o, phase) BY <2>3, BringsNothing
  <2>5. Brings(Tail(work), o, BaseOf(phase), phase) BY <1>2, <1>4
  <2>6. Standing(enc, s \o Tail(work), phase, refused, file') BY <1>2, <1>5, <2>4, <2>5, DoneOf
  <2>. QED BY <1>1, <1>6, <1>9, <2>1, <2>6, TextTyped, KeepsText
<1>10. (phase' = "faulted" /\ work' = <<>>)
       \/ (phase' = phase /\ \E s \in {<<>>, <<Memory("place", a)>>} : work' = s \o Tail(work))
  BY <1>7 DEF WriteIfNotable, Fault
<1>. QED BY <1>8, <1>9, <1>10

LEMMA DeepLong == ASSUME NEW q, Deep(q) PROVE Len(q) # 1
<1>1. Len(q) \in Nat \ {0, 1} BY DeepIs
<1>. QED BY <1>1

LEMMA SixBy ==
  ASSUME NEW k, NEW x, NEW now, KeysOK(k, x, ToldAt(now)), now \in {"crumbs", "user", "debug"}
  PROVE  Six(k)
<1>1. Six(ToldAt(now)) BY ToldSix, ToldOn
<1>. QED BY <1>1 DEF KeysOK

LEMMA RefusedIsBoolean == ASSUME NEW c, NEW name, NEW text PROVE Refused(c, name, text) \in BOOLEAN
BY DEF Refused

LEMMA SpareOf == ASSUME NEW r PROVE /\ r => Spare(r) = 1
                                    /\ ~r => Spare(r) = 0
BY DEF Spare

LEMMA SpareOr ==
  ASSUME NEW r \in BOOLEAN, NEW s \in BOOLEAN
  PROVE  /\ s => Spare(r \/ s) = 1
         /\ ~s => Spare(r \/ s) = Spare(r)
<1>1. CASE s = TRUE BY <1>1 DEF Spare
<1>2. CASE s = FALSE BY <1>2 DEF Spare
<1>. QED BY <1>1, <1>2

LEMMA ValueText == ASSUME TextInv, WriteValue PROVE TextInv'
<1>1. /\ work # <<>> /\ Head(work).do = "value" /\ enc' = AddText(enc, Head(work).name, Head(work).text)
      /\ work' = Tail(work) /\ phase' = phase /\ flushed' = flushed
      /\ refused' = (refused \/ Refused(enc, Head(work).name, Head(work).text))
  BY DEF WriteValue
<1>2. PICK q, o, k, p :
        /\ phase \in Writing /\ q = enc.open /\ At(enc, q, k) /\ Over(q, o, Spare(refused)) /\ Deep(o) /\ Deep(q)
        /\ Item(Head(work), o, p, phase) /\ Brings(Tail(work), p, BaseOf(phase), phase)
        /\ KeysOK(k, Spare(refused), ToldAt(phase)) /\ (Spare(refused) = 1 => Late(phase))
  BY <1>1, TextTyped, Doing
<1>3. ~IsClose(Head(work)) BY <1>1 DEF IsClose
<1>4. p = o BY <1>2, <1>3 DEF Item
<1>5. InScope(phase) /\ Writable(Head(work).name) /\ Speakable(Head(work).text) /\ \E T : Head(work).text \in Seq(T)
  BY <1>1, <1>2 DEF Item, ValueFits
<1>6. PICK name : name = Head(work).name OBVIOUS
<1>7. PICK text : text = Head(work).text OBVIOUS
<1>8. PICK T : text \in Seq(T) BY <1>5, <1>7
<1>9. Inside(o) /\ Inside(q) /\ Len(q) # 1 BY <1>2, DeepLong DEF Deep
<1>10. Leads(text, q, FALSE) /\ Speakable(text) BY <1>5, <1>7, <1>9 DEF Leads, LeftOpen
<1>11. Writable(name) BY <1>5, <1>6
<1>12. PICK d : d = AddText(enc, name, text) OBVIOUS
<1>13. PICK f : f = Refused(enc, name, text) OBVIOUS
<1>14. PICK r : r = (refused \/ f) OBVIOUS
<1>15. f \in BOOLEAN /\ refused \in BOOLEAN /\ r \in BOOLEAN BY <1>13, <1>14, RefusedIsBoolean, TextTyped
<1>16. enc' = d /\ refused' = r BY <1>1, <1>6, <1>7, <1>12, <1>13, <1>14
<1>17. phase \in {"crumbs", "user", "debug"} /\ Late(phase) BY <1>5 DEF InScope, Late
<1>18. ReportInv' BY ValueStep DEF TextInv
<1>19. CASE ~f
  <2>1. At(d, q, KeysAt(q, name, k)) BY <1>2, <1>8, <1>9, <1>10, <1>11, <1>12, <1>13, <1>19, TextWrites
  <2>2. KeysAt(q, name, k) = k BY <1>9 DEF KeysAt
  <2>3. Spare(r) = Spare(refused) BY <1>14, <1>15, <1>19, SpareOr
  <2>4. Standing(d, Tail(work), phase, r, file')
    BY <1>2, <1>4, <1>9, <2>1, <2>2, <2>3, DoneWith
  <2>. QED BY <1>1, <1>15, <1>16, <1>18, <2>4, TextTyped, KeepsText
<1>20. CASE f
  <2>1. PICK y, l : y \in Seq(Marks) /\ At(d, q \o y, l) /\ KeysAfter(q, name, k, q \o y, l)
    BY <1>2, <1>8, <1>9, <1>10, <1>11, <1>12, <1>13, <1>20, TextWrites
  <2>9. y \in Seq(Marks) BY <2>1
  <2>2. Over(q \o y, o, 1) BY <1>2, <1>9, <2>9, OverMore
  <2>3. Six(k) BY <1>2, <1>17, SixBy
  <2>4. Six(l) BY <2>1, <2>3, SixAfter
  <2>5. Spare(r) = 1 BY <1>14, <1>15, <1>20, SpareOr
  <2>6. KeysOK(l, 1, ToldAt(phase)) BY <2>4 DEF KeysOK
  <2>7. Standing(d, Tail(work), phase, r, file')
    BY <1>2, <1>4, <1>9, <1>17, <2>1, <2>2, <2>5, <2>6, DoneWith
  <2>. QED BY <1>1, <1>15, <1>16, <1>18, <2>7, TextTyped, KeepsText
<1>. QED BY <1>19, <1>20

LEMMA ThreadText == ASSUME TextInv, WriteThread PROVE TextInv'
<1>. DEFINE t == Head(work).thread
            s == [i \in DOMAIN t.notable |-> Place(t.notable[i])]
<1>1. work # <<>> /\ Head(work).do = "thread" /\ phase' = phase /\ flushed' = flushed /\ refused' = refused
  BY DEF WriteThread
<1>2. PICK q, o, k, p :
        /\ phase \in Writing /\ q = enc.open /\ At(enc, q, k) /\ Over(q, o, Spare(refused)) /\ Deep(o) /\ Deep(q)
        /\ Item(Head(work), o, p, phase) /\ Brings(Tail(work), p, BaseOf(phase), phase)
        /\ KeysOK(k, Spare(refused), ToldAt(phase)) /\ (Spare(refused) = 1 => Late(phase))
  BY <1>1, TextTyped, Doing
<1>3. ~IsClose(Head(work)) BY <1>1 DEF IsClose
<1>4. p = o BY <1>2, <1>3 DEF Item
<1>5. Last(o) = "[" /\ phase = "crash ends" /\ t \in ThreadStates
  BY <1>1, <1>2 DEF Item, ThreadFits
<1>6. Spare(refused) = 0
  <2>1. ~Late(phase) BY <1>5, Bases
  <2>. QED BY <1>2, <2>1, SpareIs
<1>7. q = o BY <1>2, <1>6 DEF Over
<1>8. PICK g, m : Within(enc, g, m, k) /\ q = Append(g, m) /\ m = Last(q) BY <1>2, DeepWithin
<1>9. Within(enc, g, "[", k) /\ q = Append(g, "[") BY <1>5, <1>7, <1>8
<1>10. PICK c1 : c1 = Object(enc, Null) OBVIOUS
<1>11. Within(c1, q, "{", k) BY <1>9, <1>10, ObjectInArray
<1>12. PICK begun : begun = ThreadBegin(enc, Null, t) OBVIOUS
<1>13. Within(begun, q, "{", k) BY <1>5, <1>10, <1>11, <1>12, ThreadBeginWrites
<1>14. Inside(o) /\ Inside(q) BY <1>2 DEF Deep
<1>15. ReportInv' BY ThreadStep DEF TextInv
<1>16. CASE ~t.crashed
  <2>1. PICK d : d = EndContainer(begun) OBVIOUS
  <2>2. enc' = d /\ work' = Tail(work) BY <1>12, <1>16, <2>1 DEF WriteThread
  <2>3. At(d, q, k) BY <1>13, <2>1, Leave
  <2>4. Standing(d, Tail(work), phase, refused, file') BY <1>2, <1>4, <1>14, <2>3, DoneWith
  <2>. QED BY <1>1, <1>15, <2>2, <2>4, TextTyped, KeepsText
<1>17. CASE t.crashed
  <2>1. PICK d : d = Object(begun, "notable_addresses") OBVIOUS
  <2>2. enc' = d /\ work' = (s \o <<Close, Close>>) \o Tail(work) BY <1>12, <1>17, <2>1 DEF WriteThread
  <2>3. "notable_addresses" \in AllNames BY DEF AllNames, Named2
  <2>4. Within(d, Append(q, "{"), "{", k) BY <1>13, <2>1, <2>3, Objects
  <2>5. PICK r : r = Append(Append(q, "{"), "{") OBVIOUS
  <2>6. "{" \in Marks BY SecondIs
  <2>7. Inside(Append(q, "{")) BY <1>14, <2>6, Deepened
  <2>8. Deep(r) /\ Inside(r) BY <2>5, <2>6, <2>7, PushedDeep, Deepened
  <2>9. At(d, r, k) BY <2>4, <2>5 DEF Within
  <2>10. t.notable \in Seq(Addresses) BY <1>5 DEF ThreadStates
  <2>11. PICK n \in Nat : DOMAIN t.notable = 1..n BY <2>10
  <2>12. \A i \in 1..n : Item(s[i], r, r, phase) BY <2>8, <2>11, PlaceItem
  <2>13. s = [i \in 1..n |-> s[i]] BY <2>11
  <2>. HIDE DEF s, t
  <2>14. Brings(s, r, r, phase) BY <2>12, <2>13, BringsOn
  <2>15. Brings(<<Close, Close>>, r, q, phase) BY <1>14, <2>5, <2>6, ClosesTwo
  <2>16. Brings(s \o <<Close, Close>>, r, q, phase) BY <2>14, <2>15, BringsJoined
  <2>17. Brings(Tail(work), q, BaseOf(phase), phase) BY <1>2, <1>4, <1>7
  <2>18. Over(r, r, Spare(refused)) BY <1>6, <2>8, Unspared
  <2>19. Standing(d, (s \o <<Close, Close>>) \o Tail(work), phase, refused, file')
    BY <1>2, <2>8, <2>9, <2>16, <2>17, <2>18, DoneOf
  <2>. QED BY <1>1, <1>15, <2>2, <2>19, TextTyped, KeepsText
<1>. QED BY <1>16, <1>17

LEMMA IvarText == ASSUME TextInv, Regular(process.heap), WriteIvar PROVE TextInv'
<1>1. work # <<>> /\ Head(work).do = "ivar" /\ flushed' = flushed /\ refused' = refused
  BY DEF WriteIvar
<1>2. PICK q, o, k, p :
        /\ phase \in Writing /\ q = enc.open /\ At(enc, q, k) /\ Over(q, o, Spare(refused)) /\ Deep(o) /\ Deep(q)
        /\ Item(Head(work), o, p, phase) /\ Brings(Tail(work), p, BaseOf(phase), phase)
        /\ KeysOK(k, Spare(refused), ToldAt(phase)) /\ (Spare(refused) = 1 => Late(phase))
  BY <1>1, TextTyped, Doing
<1>3. ~IsClose(Head(work)) BY <1>1 DEF IsClose
<1>4. p = o BY <1>2, <1>3 DEF Item
<1>5. Inside(o) /\ Inside(q) BY <1>2 DEF Deep
<1>6. ReportInv' BY IvarStep DEF TextInv
<1>7. PICK a : a = IvarValue(process.heap, Head(work).object, Head(work).index) OBVIOUS
<1>14. PICK v : v = Ivar(process.heap, Head(work).object, Head(work).index) OBVIOUS
<1>15. v.name \in {"ivar", Long, Huge} /\ \A x \in Values(a) : x # Infinity
  <2>1. JobOK(Head(work)) /\ IsMemory(process.heap) BY <1>1, FirstJob DEF TextInv
  <2>. QED BY <1>1, <1>7, <1>14, <2>1, RegularIvar DEF JobOK
<1>16. PICK name : name = v.name OBVIOUS
<1>8. PICK d : d = Numeric(enc, name) OBVIOUS
<1>9. name \in AllNames BY <1>15, <1>16 DEF AllNames, Named2, Long, Huge
<1>10. At(d, q, k) BY <1>2, <1>8, <1>9, DeepNumeric
<1>11. \/ phase' = "faulted" /\ work' = <<>> /\ enc' = enc
       \/ /\ phase' = phase /\ enc' \in {enc, d}
          /\ \E s \in {<<>>, <<Memory(name, a)>>} : work' = s \o Tail(work)
  <2>1. CASE Fault /\ UNCHANGED enc BY <2>1 DEF Fault
  <2>2. CASE /\ \E x \in Values(a) : enc' = IF v.type = "number" THEN Figure(enc, name, x = Infinity) ELSE enc
             /\ work' = (IF v.type = "pointer" THEN <<Memory(name, a)>> ELSE <<>>) \o Tail(work)
             /\ phase' = phase
    <3>1. PICK x \in Values(a) : enc' = IF v.type = "number" THEN Figure(enc, name, x = Infinity) ELSE enc
      BY <2>2
    <3>2. x # Infinity BY <1>15
    <3>3. Figure(enc, name, x = Infinity) = d BY <1>8, <3>2 DEF Figure, Numeric
    <3>4. enc' \in {enc, d} BY <3>1, <3>3
    <3>5. \E s \in {<<>>, <<Memory(name, a)>>} : work' = s \o Tail(work) BY <2>2
    <3>. QED BY <2>2, <3>4, <3>5
  <2>3. (Fault /\ UNCHANGED enc)
        \/ /\ \E x \in Values(a) : enc' = IF v.type = "number" THEN Figure(enc, name, x = Infinity) ELSE enc
           /\ work' = (IF v.type = "pointer" THEN <<Memory(name, a)>> ELSE <<>>) \o Tail(work)
           /\ phase' = phase
    BY <1>7, <1>14, <1>16 DEF WriteIvar
  <2>. QED BY <2>1, <2>2, <2>3
<1>12. CASE phase' = "faulted" /\ work' = <<>> /\ enc' = enc
  <2>1. Standing(enc, <<>>, "faulted", refused, file') BY <1>2, <1>5, StandsFaulted
  <2>. QED BY <1>1, <1>6, <1>12, <2>1, TextTyped, KeepsText
<1>13. CASE /\ phase' = phase /\ enc' \in {enc, d}
            /\ \E s \in {<<>>, <<Memory(name, a)>>} : work' = s \o Tail(work)
  <2>1. PICK s \in {<<>>, <<Memory(name, a)>>} : work' = s \o Tail(work) BY <1>13
  <2>2. PICK e \in {enc, d} : enc' = e BY <1>13
  <2>3. At(e, q, k) BY <1>2, <1>10, <2>2
  <2>4. Brings(<<Memory(name, a)>>, o, o, phase) BY <1>2, <1>9, MemoryItem, BringsOne
  <2>5. Brings(s, o, o, phase) BY <2>4, BringsNothing
  <2>6. Brings(Tail(work), o, BaseOf(phase), phase) BY <1>2, <1>4
  <2>7. Standing(e, s \o Tail(work), phase, refused, file') BY <1>2, <1>5, <2>3, <2>5, <2>6, DoneOf
  <2>. QED BY <1>1, <1>6, <1>13, <2>1, <2>2, <2>7, TextTyped, KeepsText
<1>. QED BY <1>11, <1>12, <1>13

-----------------------------------------------------------------------------
\* What writeMemoryContents begins is closed by what is left to do of it.
LEMMA IvarsAre ==
  ASSUME IsMemory(process.heap), NEW a \in Addresses, Tagged(a) \/ IsValidObject(process.heap, a)
  PROVE  \E n \in Nat : Ivars(a) = [i \in 1..n |-> Variable(a, i)]
<1>1. CASE Tagged(a)
  <2>1. Ivars(a) = <<>> BY <1>1 DEF Ivars
  <2>2. <<>> = [i \in 1..0 |-> Variable(a, i)] OBVIOUS
  <2>. QED BY <2>1, <2>2
<1>2. CASE ~Tagged(a)
  <2>1. PICK n \in 0..MaxIvars : n = IvarCount(process.heap, a) BY <1>2, IvarCountIs
  <2>2. Ivars(a) = [i \in 1..n |-> Variable(a, i)] BY <1>2, <2>1 DEF Ivars
  <2>3. n \in Nat BY <2>1
  <2>. QED BY <2>2, <2>3
<1>. QED BY <1>1, <1>2

LEMMA PushedAfter == ASSUME NEW T, NEW s \in Seq(T), NEW j PROVE Append(s, j) = s \o <<j>>
OBVIOUS

LEMMA AtMostOne ==
  ASSUME NEW S, NEW f, f = <<>> \/ \E y \in S : f = <<y>> PROVE \E n \in Nat : DOMAIN f = 1..n
<1>1. CASE f = <<>>
  <2>1. DOMAIN f = 1..0 BY <1>1
  <2>. QED BY <2>1
<1>2. CASE \E y \in S : f = <<y>>
  <2>1. DOMAIN f = 1..1 BY <1>2
  <2>. QED BY <2>1
<1>. QED BY <1>1, <1>2

LEMMA ContentsBegin ==
  ASSUME IsMemory(process.heap), NEW a \in Addresses, NEW left \in Int, NEW c, NEW kind,
         kind = Kind(process.heap, a), ~Faults(a, kind, left),
         NEW more, more = Contents(c, a, kind, left),
         NEW q, NEW k,
         Within(c, q, "{", k), NEW o, Inside(o), NEW x, Over(Append(q, "{"), Append(o, "{"), x), NEW now
  PROVE  \E r, h : /\ At(more.enc, r, k) /\ Over(r, h, x) /\ Inside(h)
                   /\ Brings(more.next, h, Append(o, "{"), now)
<1>0. PICK q1, o1 : q1 = Append(q, "{") /\ o1 = Append(o, "{") OBVIOUS
<1>4. At(c, q1, k) /\ Over(q1, o1, x) /\ Inside(q) BY <1>0 DEF Within
<1>5. "{" \in Marks BY SecondIs
<1>6. Inside(o1) /\ Deep(o1) BY <1>0, <1>5, Deepened, PushedDeep
<1>1. CASE left > 0 /\ kind \in Arrays
  <2> PICK f : f = FirstObject(process.heap, a, kind)
    OBVIOUS
  <2>1. more.next = [i \in DOMAIN f |-> Memory("first_object", f[i])] /\ more.enc = c
    BY <1>1 DEF Contents, Written, Arrays
  <2>2. a \in DOMAIN process.heap
    BY <1>1, KindIs DEF IsValidObject, Readable
  <2>3. f = <<>> \/ \E y \in Addresses : f = <<y>>
    BY <1>1, <2>2, FirstObjectIs DEF Faults
  <2>4. "first_object" \in AllNames BY DEF AllNames, Named2
  <2>5. PICK n \in Nat : DOMAIN f = 1..n
    <3>. QED BY <2>3, AtMostOne
  <2>6. PICK s : s = [i \in 1..n |-> Memory("first_object", f[i])] OBVIOUS
  <2>7. s = [i \in 1..n |-> s[i]] /\ more.next = s BY <2>1, <2>5, <2>6
  <2>8. \A i \in 1..n : Item(s[i], o1, o1, now) BY <1>6, <2>4, <2>6, MemoryItem
  <2>9. Brings(s, o1, o1, now) BY <2>7, <2>8, BringsOn
  <2>. QED BY <1>0, <1>4, <1>6, <2>1, <2>7, <2>9
<1>2. CASE left > 0 /\ kind = "unknown"
  <2>1. Tagged(a) \/ IsValidObject(process.heap, a) BY <1>2, KindIs
  <2>2. more.next = Append(Ivars(a), Close) /\ more.enc = Begun(c, a)
    BY <1>2 DEF Contents, Written, Arrays
  <2>3. PICK n \in Nat : Ivars(a) = [i \in 1..n |-> Variable(a, i)] BY <2>1, IvarsAre
  <2>4. PICK s : s = Ivars(a) OBVIOUS
  <2>5. s = [i \in 1..n |-> s[i]] /\ \A i \in 1..n : s[i] = Variable(a, i) BY <2>3, <2>4
  <2>6. PICK T : s \in Seq(T) BY <2>5, AnySequence
  <2>7. more.next = s \o <<Close>>
    <3>1. more.next = Append(s, Close) BY <2>2, <2>4
    <3>. QED BY <2>6, <3>1, PushedAfter
  <2>8. PICK h : h = Append(o1, "{") OBVIOUS
  <2>9. Deep(h) /\ Inside(h) BY <1>5, <1>6, <2>8, PushedDeep, Deepened
  <2>10. \A i \in 1..n : Item(s[i], h, h, now) BY <2>5, <2>9, VariableItem
  <2>11. Brings(s, h, h, now) BY <2>5, <2>10, BringsOn
  <2>12. Brings(<<Close>>, h, o1, now) BY <1>5, <1>6, <2>8, ClosesOne
  <2>13. Brings(more.next, h, o1, now) BY <2>7, <2>11, <2>12, BringsJoined
  <2>14. PICK r : r = Append(q1, "{") OBVIOUS
  <2>15. At(more.enc, r, k) BY <1>0, <2>2, <2>14, BegunWrites DEF Within
  <2>16. Over(r, h, x) BY <1>4, <1>5, <1>6, <2>8, <2>14, OverPush
  <2>. QED BY <1>0, <2>9, <2>13, <2>15, <2>16
<1>3. CASE ~(left > 0 /\ kind \in Arrays) /\ ~(left > 0 /\ kind = "unknown")
  <2>1. more.next = <<>> /\ more.enc = c
    BY <1>3 DEF Contents, Written
  <2>. QED BY <1>0, <1>4, <1>6, <2>1, BringsNothing
<1>. QED BY <1>1, <1>2, <1>3

LEMMA MemoryText == ASSUME TextInv, Regular(process.heap), WriteMemoryContents PROVE TextInv'
<1>1. work # <<>> /\ Head(work).do = "memory" /\ flushed' = flushed /\ refused' = refused
  BY DEF WriteMemoryContents
<1>2. PICK q, o, k, p :
        /\ phase \in Writing /\ q = enc.open /\ At(enc, q, k) /\ Over(q, o, Spare(refused)) /\ Deep(o) /\ Deep(q)
        /\ Item(Head(work), o, p, phase) /\ Brings(Tail(work), p, BaseOf(phase), phase)
        /\ KeysOK(k, Spare(refused), ToldAt(phase)) /\ (Spare(refused) = 1 => Late(phase))
  BY <1>1, TextTyped, Doing
<1>3. ~IsClose(Head(work)) BY <1>1 DEF IsClose
<1>4. p = o BY <1>2, <1>3 DEF Item
<1>5. Inside(o) /\ Inside(q) BY <1>2 DEF Deep
<1>6. ReportInv' BY MemoryStep DEF TextInv
<1>7. PICK name : name = Head(work).name OBVIOUS
<1>8. name \in AllNames BY <1>1, <1>2, <1>7 DEF Item, MemoryFits
<1>9. PICK start : start = IF name \in {"place", "referenced_object"} THEN Depth ELSE limit OBVIOUS
<1>10. PICK a \in Values(Head(work).address) : WriteContents(name, a, Kind(process.heap, a), start - 1)
  BY <1>7, <1>9 DEF WriteMemoryContents
<1>11. a \in Addresses /\ IsMemory(process.heap)
  BY <1>1, <1>10, FirstJob, ReportAssumption DEF Values, JobOK, TextInv
<1>12. start - 1 \in Int BY <1>9, ReportAssumption DEF TextInv, ReportInv, Limits
<1>13. PICK left \in Int : left = start - 1 BY <1>12
<1>14. PICK kind : kind = Kind(process.heap, a) OBVIOUS
<1>15. PICK c : c = Described(Object(enc, name), a, kind) OBVIOUS
<1>16. Within(c, q, "{", k)
  <2>1. Within(Object(enc, name), q, "{", k) BY <1>2, <1>8, DeepObject
  <2>2. kind \in {"date", "number"} => ~IsInfinite(process.heap, a)
    BY <1>11, <1>14, KindIs DEF IsInfinite, IsValidObject, Readable, Regular
  <2>. QED BY <1>15, <2>1, <2>2, DescribedWrites
<1>17. "{" \in Marks BY SecondIs
<1>18. Over(Append(q, "{"), Append(o, "{"), Spare(refused)) BY <1>2, <1>5, <1>17, OverPush
<1>19. At(c, Append(q, "{"), k) /\ Inside(Append(q, "{")) BY <1>5, <1>16, <1>17, Deepened DEF Within
<1>20. CASE Faults(a, kind, left)
  <2>1. phase' = "faulted" /\ work' = <<>> /\ enc' = c
    BY <1>10, <1>13, <1>14, <1>15, <1>20 DEF WriteContents, Fault
  <2>2. Standing(c, <<>>, "faulted", refused, file') BY <1>19, StandsFaulted
  <2>. QED BY <1>1, <1>6, <2>1, <2>2, TextTyped, KeepsText
<1>21. CASE ~Faults(a, kind, left)
  <2>1. PICK more : more = Contents(c, a, kind, left) OBVIOUS
  <2>2. enc' = more.enc /\ phase' = phase /\ work' = (more.next \o <<Close>>) \o Tail(work)
    BY <1>10, <1>13, <1>14, <1>15, <1>21, <2>1 DEF WriteContents
  <2>3. PICK r, h : /\ At(more.enc, r, k) /\ Over(r, h, Spare(refused)) /\ Inside(h)
                    /\ Brings(more.next, h, Append(o, "{"), phase)
    BY <1>5, <1>11, <1>14, <1>16, <1>18, <1>21, <2>1, ContentsBegin
  <2>4. Brings(<<Close>>, Append(o, "{"), o, phase) BY <1>5, <1>17, ClosesOne
  <2>5. Brings(more.next \o <<Close>>, h, o, phase) BY <2>3, <2>4, BringsJoined
  <2>6. Brings(Tail(work), o, BaseOf(phase), phase) BY <1>2, <1>4
  <2>7. PICK s, e : s = more.next \o <<Close>> /\ e = more.enc OBVIOUS
  <2>8. Standing(e, s \o Tail(work), phase, refused, file')
    BY <1>2, <2>3, <2>5, <2>6, <2>7, DoneOf
  <2>. QED BY <1>1, <1>6, <2>2, <2>7, <2>8, TextTyped, KeepsText
<1>. QED BY <1>20, <1>21

\* The user information: its last bracket leaves the outermost object open.
LEMMA LongFront ==
  ASSUME NEW q \in Seq(Marks), Len(q) \in Nat \ {0, 1}
  PROVE  Over(Front(q), Root, 1) /\ Inside(q)
<1>1. PICK n \in Nat \ {0} : n = Len(q) OBVIOUS
<1>2. n <= Len(q) BY <1>1
<1>3. Inside(q) BY <1>2, LongInside
<1>4. Deep(q) BY <1>3, DeepIs
<1>5. Inside(Front(q)) BY <1>4, DeepIs
<1>6. PICK l \in Nat \ {0} : l = Len(Front(q)) BY <1>5, InsideLong
<1>7. PICK m : m = Len(Root) OBVIOUS
<1>8. m = 1 BY <1>7, RootIs
<1>9. m <= l BY <1>6, <1>8
<1>10. Front(q) \in Seq(Marks) BY <1>5, InsideLong
<1>. QED BY <1>3, <1>6, <1>7, <1>9, <1>10 DEF Over

LEMMA SomeLong == ASSUME NEW y \in Seq(Marks) PROVE Len(y) \in Nat /\ (y # <<>> => Len(y) \in Nat \ {0})
OBVIOUS

LEMMA AddedUp ==
  ASSUME NEW a \in Nat \ {0}, NEW b \in Nat, a = 1 => b \in Nat \ {0}
  PROVE  a + b \in Nat \ {0, 1}
OBVIOUS

LEMMA JoinedLong ==
  ASSUME NEW q, Inside(q), NEW y \in Seq(Marks), Len(q) = 1 => y # <<>>
  PROVE  q \o y \in Seq(Marks) /\ Len(q \o y) \in Nat \ {0, 1}
<1>1. q \in Seq(Marks) /\ Len(q) \in Nat \ {0} BY InsideLong
<1>2. PICK a \in Nat \ {0} : a = Len(q) BY <1>1
<1>3. Len(y) \in Nat BY SomeLong
<1>4. PICK b \in Nat : b = Len(y) BY <1>3
<1>5. a = 1 => b \in Nat \ {0} BY <1>2, <1>4, SomeLong
<1>6. a + b \in Nat \ {0, 1} BY <1>5, AddedUp
<1>7. PICK r : r = q \o y OBVIOUS
<1>8. r \in Seq(Marks) /\ Len(r) = Len(q) + Len(y) BY <1>1, <1>7
<1>9. Len(r) = a + b BY <1>2, <1>4, <1>8
<1>. QED BY <1>6, <1>7, <1>8, <1>9

LEMMA UserWrites ==
  ASSUME NEW c, NEW q, NEW k, At(c, q, k), NEW r \in BOOLEAN, Over(q, Root, Spare(r)),
         KeysOK(k, Spare(r), ToldAt("user")), NEW T, NEW text \in Seq(T), text # <<>> => text[1] \in Marks,
         text # <<>>, Speakable(text),
         NEW s \in BOOLEAN, s = (r \/ Refused(c, "user", text)),
         NEW d, d = EndContainer(AddText(c, "user", text))
  PROVE  \E p, l : At(d, p, l) /\ Over(p, Root, Spare(s)) /\ KeysOK(l, Spare(s), ToldAt("debug"))
<1>1. Inside(q) BY RootIs, OverInside
<1>2. Writable("user")
  <2>1. "user" \in AllNames BY DEF AllNames, Named2
  <2>. QED BY <2>1, NamesAreStrings
<1>3. Leads(text, q, FALSE) BY DEF Leads
<1>4. PICK e : e = AddText(c, "user", text) OBVIOUS
<1>5. PICK f : f = Refused(c, "user", text) OBVIOUS
<1>6. f \in BOOLEAN BY <1>5, RefusedIsBoolean
<1>7. ToldAt("debug") = Append(ToldAt("user"), "user") BY ToldOn
<1>8. KeysOK(KeysAt(q, "user", k), Spare(r), ToldAt("debug")) BY <1>7, KeysOn
<1>9. PICK u : u = KeysAt(q, "user", k) OBVIOUS
<1>10. Six(k) BY SixBy
<1>11. q \in Seq(Marks) /\ Len(q) \in Nat \ {0} BY <1>1, InsideLong
<1>12. \/ /\ ~f
          /\ IF Len(q) = 1 THEN \E m \in Marks : At(e, Append(q, m), u) ELSE At(e, q, u)
       \/ /\ f
          /\ \E x, l : /\ x \in Seq(Marks) /\ (Len(q) = 1 => x # <<>>) /\ At(e, q \o x, l)
                    /\ KeysAfter(q, "user", k, q \o x, l)
  BY <1>1, <1>2, <1>3, <1>4, <1>5, <1>9, TextWrites
<1>13. CASE ~f
  <2>1. Spare(s) = Spare(r) BY <1>5, <1>6, <1>13, SpareOr
  <2>2. CASE Len(q) = 1
    <3>1. PICK m \in Marks : At(e, Append(q, m), u) BY <1>12, <1>13, <2>2
    <3>2. PICK p : p = Append(q, m) OBVIOUS
    <3>3. Front(p) = q /\ p # <<>> BY <1>11, <3>2, Pushed
    <3>4. At(d, q, u) BY <1>4, <3>1, <3>2, <3>3, EndContainerWrites
    <3>. QED BY <1>8, <1>9, <2>1, <3>4
  <2>3. CASE Len(q) # 1
    <3>1. At(e, q, u) BY <1>12, <1>13, <2>3
    <3>2. Len(q) \in Nat \ {0, 1} BY <1>11, <2>3
    <3>3. Over(Front(q), Root, 1) BY <1>11, <3>2, LongFront
    <3>4. Spare(r) # 0
      <4>1. q # Root BY <2>3, RootIs
      <4>. QED BY <4>1 DEF Over
    <3>5. Spare(s) = 1 BY <2>1, <3>4, SpareIs
    <3>6. q # <<>> BY <1>1 DEF Inside
    <3>7. At(d, Front(q), u) BY <1>4, <3>1, <3>6, EndContainerWrites
    <3>. QED BY <1>8, <1>9, <2>1, <3>3, <3>5, <3>7
  <2>. QED BY <2>2, <2>3
<1>14. CASE f
  <2>1. PICK x, l :
          x \in Seq(Marks) /\ (Len(q) = 1 => x # <<>>) /\ At(e, q \o x, l) /\ KeysAfter(q, "user", k, q \o x, l)
    BY <1>12, <1>14
  <2>2. PICK p : p = q \o x OBVIOUS
  <2>3. p \in Seq(Marks) /\ Len(p) \in Nat \ {0, 1} BY <1>1, <2>1, <2>2, JoinedLong
  <2>4. Over(Front(p), Root, 1) /\ Inside(p) BY <2>3, LongFront
  <2>5. p # <<>> BY <2>4 DEF Inside
  <2>6. At(d, Front(p), l) BY <1>4, <2>1, <2>2, <2>5, EndContainerWrites
  <2>7. Six(l) BY <1>10, <2>1, SixAfter
  <2>8. Spare(s) = 1 BY <1>5, <1>6, <1>14, SpareOr
  <2>9. KeysOK(l, 1, ToldAt("debug")) BY <2>7 DEF KeysOK
  <2>. QED BY <2>4, <2>6, <2>8, <2>9
<1>. QED BY <1>13, <1>14

LEMMA UserText == ASSUME TextInv, WriteUser PROVE TextInv'
<1>. DEFINE u == process.user
<1>1. /\ phase = "user" /\ work = <<>> /\ phase' = "debug" /\ flushed' = Len(enc.out) /\ work' = <<>>
      /\ enc' = EndContainer(IF u = <<>> THEN Object(enc, "user") ELSE AddText(enc, "user", u))
      /\ refused' = (refused \/ (u # <<>> /\ Refused(enc, "user", u)))
  BY DEF WriteUser, Section
<1>2. Standing(enc, <<>>, "user", refused, file) BY <1>1, TextTyped
<1>3. /\ "user" \in Writing /\ "debug" \in Writing /\ BaseOf("user") = Root /\ BaseOf("debug") = Root
      /\ Late("debug")
  BY Bases
<1>4. PICK q, k : /\ q = enc.open /\ At(enc, q, k) /\ Over(q, Root, Spare(refused)) /\ Inside(q)
                  /\ KeysOK(k, Spare(refused), ToldAt("user"))
  BY <1>2, <1>3, Between
<1>5. refused \in BOOLEAN BY TextTyped
<1>6. u \in Seq(STRING) /\ (u # <<>> => u[1] = "{") /\ Speakable(u) BY TextTyped, TextAssumption
<1>7. PICK s : s = (refused \/ (u # <<>> /\ Refused(enc, "user", u))) OBVIOUS
<1>8. s \in BOOLEAN BY <1>5, <1>7
<1>9. PICK d : d = EndContainer(IF u = <<>> THEN Object(enc, "user") ELSE AddText(enc, "user", u)) OBVIOUS
<1>10. \E p, l : At(d, p, l) /\ Over(p, Root, Spare(s)) /\ KeysOK(l, Spare(s), ToldAt("debug"))
  <2>1. CASE u = <<>>
    <3>1. s = refused BY <1>5, <1>7, <2>1
    <3>2. d = EndContainer(Object(enc, "user")) BY <1>9, <2>1
    <3>3. "user" \in AllNames BY DEF AllNames, Named2
    <3>4. Within(Object(enc, "user"), q, "{", KeysAt(q, "user", k)) BY <1>4, <3>3, Objects
    <3>5. At(d, q, KeysAt(q, "user", k)) BY <3>2, <3>4, Leave
    <3>6. KeysOK(KeysAt(q, "user", k), Spare(refused), ToldAt("debug")) BY <1>4, ToldOn, KeysOn
    <3>. QED BY <1>4, <3>1, <3>5, <3>6
  <2>2. CASE u # <<>>
    <3>1. PICK v \in Seq(STRING) : v = u BY <1>6
    <3>2. v # <<>> /\ Speakable(v) BY <1>6, <2>2, <3>1
    <3>3. v[1] \in Marks BY <1>6, <2>2, <3>1 DEF Marks
    <3>4. s = (refused \/ Refused(enc, "user", v)) BY <1>7, <2>2, <3>1
    <3>5. d = EndContainer(AddText(enc, "user", v)) BY <1>9, <2>2, <3>1
    <3>. QED BY <1>4, <1>5, <1>8, <3>2, <3>3, <3>4, <3>5, UserWrites
  <2>. QED BY <2>1, <2>2
<1>11. PICK p, l : At(d, p, l) /\ Over(p, Root, Spare(s)) /\ KeysOK(l, Spare(s), ToldAt("debug")) BY <1>10
<1>12. Standing(d, <<>>, "debug", s, file') /\ Len(enc.out) \in Nat BY <1>3, <1>4, <1>11, SecondIs, Ends, TextLength
<1>13. ReportInv' BY SectionStep DEF TextInv
<1>14. enc' = d /\ refused' = s BY <1>1, <1>7, <1>9
<1>. HIDE DEF u
<1>. QED BY <1>1, <1>8, <1>12, <1>13, <1>14, KeepsText

LEMMA StandsClosed ==
  ASSUME NEW e, NEW r, NEW k, Whole(e, k), KeysOK(k, Spare(r), Sections)
  PROVE  Standing(e, <<>>, "closed", r, e.out)
<1>1. "closed" \notin Writing /\ "closed" \notin {"faulted", "dead", "recrashed"} BY DEF Writing
<1>. QED BY <1>1 DEF Standing

LEMMA DebugText == ASSUME TextInv, WriteDebugInfo PROVE TextInv'
<1>1. /\ phase = "debug" /\ work = <<>> /\ phase' = "end" /\ enc' = DebugInfo(enc)
      /\ flushed' = Len(enc.out) /\ work' = <<>> /\ refused' = refused
  BY DEF WriteDebugInfo, Section
<1>2. PICK d : d = DebugInfo(enc) OBVIOUS
<1>3. \A q, k : At(enc, q, k) /\ Inside(q) => At(d, q, KeysAt(q, "debug", k))
  BY <1>2, DebugInfoWrites
<1>4. Standing(enc, <<>>, "debug", refused, file) BY <1>1, TextTyped
<1>5. "debug" \in Writing /\ "end" \in Writing /\ BaseOf("debug") = Root /\ BaseOf("end") = Root /\ Late("end")
  BY Bases
<1>6. ToldAt("end") = Append(ToldAt("debug"), "debug") BY ToldOn
<1>7. Standing(d, <<>>, "end", refused, file') /\ Len(enc.out) \in Nat
  BY <1>3, <1>4, <1>5, <1>6, SectionAtTop, Zenon
<1>8. ReportInv' BY SectionStep DEF TextInv
<1>. QED BY <1>1, <1>2, <1>7, <1>8, TextTyped, KeepsText

LEMMA EndText == ASSUME TextInv, EndReport PROVE TextInv'
<1>1. /\ phase = "end" /\ work = <<>> /\ phase' = "closed" /\ work' = <<>> /\ flushed' = flushed
      /\ enc' = EndEncode(EndContainer(enc)) /\ refused' = refused /\ file' = enc'.out
  BY DEF EndReport
<1>2. Standing(enc, <<>>, "end", refused, file) BY <1>1, TextTyped
<1>3. "end" \in Writing /\ BaseOf("end") = Root BY Bases
<1>4. PICK q, k : /\ At(enc, q, k) /\ Inside(q) /\ KeysOK(k, Spare(refused), ToldAt("end"))
  BY <1>2, <1>3, Between
<1>5. KeysOK(k, Spare(refused), Sections) BY <1>4, ToldSix
<1>6. PICK d : d = EndContainer(enc) OBVIOUS
<1>7. q # <<>> BY <1>4 DEF Inside
<1>8. At(d, Front(q), k) /\ d.first = FALSE BY <1>4, <1>6, <1>7, EndContainerWrites, NotFirst
<1>9. PICK e : e = EndEncode(d) OBVIOUS
<1>10. Whole(e, k) BY <1>8, <1>9, EndEncodeWrites
<1>11. Standing(e, <<>>, "closed", refused, e.out) BY <1>5, <1>10, StandsClosed
<1>12. enc' = e BY <1>1, <1>6, <1>9
<1>13. ReportInv' BY SectionStep DEF TextInv
<1>. QED BY <1>1, <1>11, <1>12, <1>13, TextTyped, KeepsText

LEMMA BeginWrites == At(BeginEncode, <<>>, <<>>) /\ BeginEncode.first = TRUE
<1>1. IsEncoder(BeginEncode) /\ BeginEncode.open = <<>> /\ BeginEncode.first = TRUE /\ BeginEncode.out = <<>>
  BY DEF BeginEncode, IsEncoder
<1>2. Want(BeginEncode) = "value" BY <1>1 DEF Want
<1>3. <<>> \in Seq(Marks) OBVIOUS
<1>4. Reads(<<>>, State(<<>>, "value", <<>>)) BY ReadsNothing DEF Start
<1>. QED BY <1>1, <1>2, <1>3, <1>4 DEF At

LEMMA RootBegins == ASSUME NEW name PROVE At(Object(BeginEncode, name), Root, <<>>)
<1>1. "{" \in Marks BY DEF Marks
<1>2. PICK o, keys : o = <<>> /\ keys = <<>> OBVIOUS
<1>3. Fits(BeginEncode, o, name) BY <1>2, BeginWrites DEF Fits, InAnObject
<1>4. KeysAt(o, name, keys) = keys
  <2>1. Len(o) # 1 BY <1>2
  <2>. QED BY <2>1 DEF KeysAt
<1>5. At(BeginEncode, o, keys) BY <1>2, BeginWrites
<1>6. PICK m \in Marks : m = "{" BY <1>1
<1>7. At(BeginContainer(BeginEncode, name, m), Append(o, m), keys) BY <1>3, <1>4, <1>5, BeginContainerWrites
<1>. QED BY <1>2, <1>6, <1>7 DEF Object, Root

LEMMA InitText == Init => TextInv
<1>. SUFFICES ASSUME Init PROVE TextInv OBVIOUS
<1>1. /\ phase = "report" /\ enc = Object(BeginEncode, "report") /\ work = <<>> /\ flushed = 0 /\ refused = FALSE
  BY DEF Init
<1>2. ReportInv BY InitReport
<1>3. At(enc, Root, <<>>) BY <1>1, RootBegins
<1>4. ToldAt("report") = <<>> BY ToldOn
<1>5. "report" \in Writing /\ BaseOf("report") = Root BY Bases
<1>6. Spare(refused) = 0 BY <1>1, SpareOf
<1>7. Brings(<<>>, Root, Root, "report") BY BringsNothing
<1>8. Standing(enc, <<>>, "report", refused, file) BY <1>3, <1>4, <1>5, <1>6, <1>7, SecondIs, StandsExactly
<1>9. flushed \in Nat BY <1>1
<1>10. refused \in BOOLEAN BY <1>1
<1>. QED BY <1>1, <1>2, <1>8, <1>9, <1>10 DEF TextInv

LEMMA StandsOver == ASSUME NEW e, NEW r, NEW f PROVE Standing(e, <<>>, "read", r, f)
BY DEF Standing, Writing

LEMMA StandsDead == ASSUME NEW e, NEW r, NEW f, Torn(f) PROVE Standing(e, <<>>, "dead", r, f)
BY DEF Standing, Writing

LEMMA StandsRecrashed ==
  ASSUME NEW e, NEW k, Whole(e, k), NEW r, NEW f, Solid(f) PROVE Standing(e, <<>>, "recrashed", r, f)
<1>1. "recrashed" \notin Writing /\ "recrashed" \notin {"faulted", "closed", "dead"} BY DEF Writing
<1>. QED BY <1>1 DEF Standing

\* Whoever stops the writer stops it inside a container.
LEMMA Unfinished ==
  ASSUME NEW e, NEW w, NEW now, now \notin {"closed", "dead", "recrashed", "read"}, NEW r, NEW f, Standing(e, w, now, r, f)
  PROVE  \E k : At(e, e.open, k) /\ e.open # <<>>
<1>1. CASE now = "faulted" BY <1>1 DEF Standing, Inside
<1>2. CASE now # "faulted"
  <2>1. now \in Writing BY <1>2 DEF Standing
  <2>2. PICK o, k : Progress(e, w, o, k, Spare(r), now) BY <2>1 DEF Standing
  <2>3. PICK q : q = e.open OBVIOUS
  <2>4. At(e, q, k) /\ Over(q, o, Spare(r)) /\ Inside(o) BY <2>2, <2>3 DEF Progress
  <2>5. Inside(q) BY <2>4, OverInside
  <2>6. q # <<>> BY <2>5 DEF Inside
  <2>. QED BY <2>3, <2>4, <2>6
<1>. QED BY <1>1, <1>2

LEMMA DeathText == ASSUME TextInv, Die PROVE TextInv'
<1>1. /\ phase \notin {"closed", "dead", "recrashed", "read"}
      /\ phase' = "dead" /\ work' = <<>> /\ flushed' = 0 /\ refused' = FALSE
  BY DEF Die, Forget
<1>2. ReportInv' BY EndStep DEF TextInv
<1>3. PICK n \in flushed..Len(enc.out) : file' = SubSeq(enc.out, 1, n) BY DEF Die
<1>4. Standing(enc, work, phase, refused, file) /\ flushed \in Nat BY TextTyped
<1>5. PICK q, k : q = enc.open /\ At(enc, q, k) /\ q # <<>> BY <1>1, <1>4, Unfinished
<1>6. Len(enc.out) \in Nat BY <1>5, TextLength
<1>7. n \in Nat /\ n <= Len(enc.out) BY <1>4, <1>6
<1>8. Torn(file') BY <1>3, <1>5, <1>7, TornPart
<1>9. Standing(enc', <<>>, "dead", refused', file') BY <1>8, StandsDead
<1>10. flushed' \in Nat /\ refused' \in BOOLEAN BY <1>1
<1>. QED BY <1>1, <1>2, <1>9, <1>10, KeepsText

LEMMA LaunchText == ASSUME TextInv, Launch PROVE TextInv'
<1>1. phase' = "read" /\ work' = work /\ flushed' = flushed /\ refused' = refused
      /\ phase \in {"closed", "dead", "recrashed"}
  BY DEF Launch
<1>2. ReportInv' BY SectionStep DEF TextInv
<1>3. phase \notin Writing BY <1>1 DEF Writing
<1>4. work = <<>> BY <1>3, TextTyped DEF Standing
<1>5. Standing(enc', <<>>, "read", refused', file') BY StandsOver
<1>6. flushed' \in Nat /\ refused' \in BOOLEAN BY <1>1, TextTyped
<1>. QED BY <1>1, <1>2, <1>4, <1>5, <1>6, KeepsText

LEMMA AppendedSome == ASSUME NEW T, NEW s \in Seq(T), NEW t PROVE Append(s, t) # <<>>
<1>1. Len(Append(s, t)) = Len(s) + 1 /\ Len(s) \in Nat OBVIOUS
<1>. QED BY <1>1

LEMMA HeadOf == ASSUME NEW S, NEW s \in Seq(S), s # <<>> PROVE Head(s) \in S
OBVIOUS

\* The second report.
LEMMA RecrashWrites ==
  ASSUME process \in Processes, NEW part, Sound(part), NEW copied,
         copied = AddJSONFromFile(Object(BeginEncode, "report"), "recrash_report", part, Window, TRUE).enc,
         NEW error, error = Error(Object(ReportInfo(copied, "minimal"), "crash")),
         NEW crash, crash = EndContainer(ThreadBegin(error, "crashed_thread", Head(process.threads))),
         NEW e, e = EndEncode(EndContainer(EndContainer(crash)))
  PROVE  \E k : Whole(e, k) /\ k # <<>>
<1>1. {"report", "recrash_report", "crash", "crashed_thread", "minimal"} \subseteq AllNames
  BY DEF AllNames, Named1, Named2
<1>2. At(Object(BeginEncode, "report"), Root, <<>>) BY RootBegins
<1>3. Inside(Root) /\ Second = Append(Root, "{") /\ Inside(Second) /\ Root # <<>>
  BY SecondIs DEF Inside
<1>4. PICK k1 : At(copied, Root, k1)
  <2>1. Writable("recrash_report") BY <1>1, NamesAreStrings
  <2>2. \E l \in {<<>>, KeysAt(Root, "recrash_report", <<>>)} : At(copied, Root, l)
    BY <1>2, <1>3, <2>1, CopyWrites
  <2>. QED BY <2>2
<1>5. PICK c2 : c2 = ReportInfo(copied, "minimal") OBVIOUS
<1>6. PICK k2 : At(c2, Root, k2) BY <1>3, <1>4, <1>5, Constants, ReportInfoWrites
<1>7. PICK c3 : c3 = Object(c2, "crash") OBVIOUS
<1>8. PICK k3 : Within(c3, Root, "{", k3) /\ k3 # <<>>
  <2>1. PICK k3 : k3 = KeysAt(Root, "crash", k2) OBVIOUS
  <2>2. Within(c3, Root, "{", k3) BY <1>1, <1>3, <1>6, <1>7, <2>1, Objects
  <2>3. k3 = Append(k2, "crash") BY <2>1, RootIs DEF KeysAt
  <2>4. PICK s : s = State(Root, Want(c2), k2) OBVIOUS
  <2>5. Reads(c2.out, s) /\ s.keys = k2 BY <1>6, <2>4, StateHas DEF At
  <2>6. PICK T : k2 \in Seq(T) BY <2>5, KeysAreTold DEF IsSequence
  <2>7. k3 # <<>> BY <2>3, <2>6, AppendedSome
  <2>. QED BY <2>2, <2>7
<1>9. Within(error, Root, "{", k3) BY <1>5, <1>7, <1>8, ErrorWrites
<1>10. PICK t \in ThreadStates : t = Head(process.threads)
  <2>1. process.threads \in Seq(ThreadStates) /\ process.threads # <<>> BY ReportAssumption, TextAssumption
  <2>. QED BY <2>1, HeadOf
<1>11. Within(Object(error, "crashed_thread"), Second, "{", k3) BY <1>1, <1>3, <1>9, Objects
<1>12. PICK c4 : c4 = ThreadBegin(error, "crashed_thread", t) OBVIOUS
<1>13. Within(c4, Second, "{", k3) BY <1>11, <1>12, ThreadBeginWrites
<1>14. At(crash, Second, k3) BY <1>10, <1>12, <1>13, Leave
<1>15. PICK c5 : c5 = EndContainer(crash) OBVIOUS
<1>16. At(c5, Root, k3) BY <1>14, <1>15, SecondIs, EndContainerWrites DEF Inside
<1>17. PICK c6 : c6 = EndContainer(c5) OBVIOUS
<1>18. At(c6, Front(Root), k3) /\ c6.first = FALSE BY <1>3, <1>16, <1>17, EndContainerWrites, NotFirst
<1>19. Whole(e, k3) BY <1>15, <1>17, <1>18, EndEncodeWrites
<1>. QED BY <1>8, <1>19

LEMMA RecrashText == ASSUME TextInv, Recrash PROVE TextInv'
<1>1. /\ phase \notin {"closed", "dead", "recrashed", "read"} /\ phase' = "recrashed"
      /\ work' = <<>> /\ refused' = FALSE /\ file' = enc'.out
  BY DEF Recrash, Forget
<1>2. \E k : At(enc, enc.open, k)
  <2>1. Standing(enc, work, phase, refused, file) BY TextTyped
  <2>. QED BY <1>1, <2>1, Unfinished
<1>3. Sound(enc.out) BY <1>2, TextSound
<1>18. PICK T : enc.out \in Seq(T) BY <1>3 DEF Sound
<1>4. PICK n \in flushed..Len(enc.out) :
        \E copied \in {AddJSONFromFile(Object(BeginEncode, "report"), "recrash_report",
                                       SubSeq(enc.out, 1, n), Window, TRUE).enc} :
          \E error \in {Error(Object(ReportInfo(copied, "minimal"), "crash"))} :
            LET crash == EndContainer(ThreadBegin(error, "crashed_thread", Head(process.threads))) IN
            enc' = EndEncode(EndContainer(EndContainer(crash))) /\ flushed' = n
  BY DEF Recrash
<1>5. flushed \in Nat /\ process \in Processes BY TextTyped
<1>6. Len(enc.out) \in Nat BY <1>18
<1>7. n \in Nat /\ n <= Len(enc.out) BY <1>4, <1>5, <1>6
<1>8. PICK part : Sound(part) /\ part = SubSeq(enc.out, 1, n)
  <2>1. PICK s : s = enc.out BY <1>3
  <2>2. Sound(SubSeq(s, 1, n)) BY <1>3, <1>7, <2>1, SoundPart
  <2>. QED BY <2>1, <2>2
<1>9. PICK copied : copied = AddJSONFromFile(Object(BeginEncode, "report"), "recrash_report", part, Window, TRUE).enc
  OBVIOUS
<1>10. PICK error : error = Error(Object(ReportInfo(copied, "minimal"), "crash")) OBVIOUS
<1>11. PICK crash : crash = EndContainer(ThreadBegin(error, "crashed_thread", Head(process.threads))) OBVIOUS
<1>12. PICK e : e = EndEncode(EndContainer(EndContainer(crash))) OBVIOUS
<1>13. enc' = e /\ flushed' = n BY <1>4, <1>8, <1>9, <1>10, <1>11, <1>12
<1>14. PICK k : Whole(e, k) /\ k # <<>> BY <1>5, <1>8, <1>9, <1>10, <1>11, <1>12, RecrashWrites
<1>15. Standing(e, <<>>, "recrashed", refused', file')
  <2>1. Solid(e.out) BY <1>14, WholeSolid
  <2>2. Solid(file') BY <1>1, <1>13, <2>1
  <2>. QED BY <1>14, <2>2, StandsRecrashed
<1>16. ReportInv' BY EndStep DEF TextInv
<1>17. flushed' \in Nat /\ refused' \in BOOLEAN BY <1>1, <1>7, <1>13
<1>. QED BY <1>1, <1>13, <1>15, <1>16, <1>17, KeepsText

LEMMA SameProcess == ASSUME [Next]_vars PROVE process' = process
BY DEF Next, vars, Section, WriteReportInfo, WriteBinaryImages, WriteProcessState, WriteSystemInfo, WriteError, WriteAllThreads,
       WriteThread, EndCrash, WriteIfNotable, WriteMemoryContents, WriteIvar, WriteScope,
       WriteValue, WriteBreadcrumbs, WriteClose, WriteUser, WriteDebugInfo, EndReport,
       Die, Recrash, Launch

LEMMA TextStep == ASSUME TextInv, Regular(process.heap), [Next]_vars PROVE TextInv'
<1>1. CASE UNCHANGED vars
  <2>1. /\ UNCHANGED <<process, work, limit, contents>> /\ phase' = phase /\ enc' = enc /\ flushed' = flushed
        /\ refused' = refused /\ file' = file
    BY <1>1 DEF vars
  <2>2. ReportInv'
    <3>1. phase' = "faulted" => phase = "faulted" BY <2>1
    <3>. QED BY <2>1, <3>1, Quietly DEF TextInv
  <2>. QED BY <2>1, <2>2, TextTyped, KeepsText
<1>2. CASE WriteReportInfo BY <1>2, ReportInfoText
<1>3. CASE WriteBinaryImages BY <1>3, BinaryImagesText
<1>4. CASE WriteProcessState BY <1>4, ProcessBegins
<1>5. CASE WriteSystemInfo BY <1>5, SystemInfoText
<1>6. CASE WriteError BY <1>6, ErrorText
<1>7. CASE WriteAllThreads BY <1>7, ThreadsBegin
<1>8. CASE WriteThread BY <1>8, ThreadText
<1>9. CASE EndCrash BY <1>9, CrashText
<1>10. CASE WriteIfNotable BY <1>10, PlaceText
<1>11. CASE WriteMemoryContents BY <1>11, MemoryText
<1>12. CASE WriteIvar BY <1>12, IvarText
<1>13. CASE WriteScope BY <1>13, ScopeBegins
<1>14. CASE WriteValue BY <1>14, ValueText
<1>15. CASE WriteBreadcrumbs BY <1>15, BreadcrumbsBegin
<1>16. CASE WriteClose BY <1>16, CloseText
<1>17. CASE WriteUser BY <1>17, UserText
<1>18. CASE WriteDebugInfo BY <1>18, DebugText
<1>19. CASE EndReport BY <1>19, EndText
<1>20. CASE Die BY <1>20, DeathText
<1>21. CASE Recrash BY <1>21, RecrashText
<1>22. CASE Launch BY <1>22, LaunchText
<1>. QED
  BY <1>1, <1>2, <1>3, <1>4, <1>5, <1>6, <1>7, <1>8, <1>9, <1>10, <1>11, <1>12,
     <1>13, <1>14, <1>15, <1>16, <1>17, <1>18, <1>19, <1>20, <1>21, <1>22 DEF Next

\* On a heap with nothing that JSON has no place for.
TextKept == Regular(process.heap) => TextInv
LEMMA TextInvariant == Spec => []TextKept
<1>1. Init => TextKept BY InitText DEF TextKept
<1>2. ASSUME TextKept, [Next]_vars PROVE TextKept'
  <2>1. process' = process BY <1>2, SameProcess
  <2>2. CASE Regular(process.heap)
    <3>1. TextInv' BY <1>2, <2>2, TextStep DEF TextKept
    <3>. QED BY <3>1 DEF TextKept
  <2>3. CASE ~Regular(process.heap) BY <2>1, <2>3 DEF TextKept
  <2>. QED BY <2>2, <2>3
<1>. QED BY <1>1, <1>2, PTL DEF Spec

LEMMA WholeCloses == ASSUME NEW e, NEW k, Whole(e, k) PROVE IsJSON(EndEncode(e).out)
<1>1. At(e, <<>>, k) /\ e.first = FALSE BY DEF Whole
<1>2. PICK o : o = <<>> OBVIOUS
<1>3. Whole(EndEncode(e), k) BY <1>1, <1>2, EndEncodeWrites
<1>. QED BY <1>3, WholeIsJSON

LEMMA OpenCloses == ASSUME NEW e, NEW k, At(e, e.open, k), Inside(e.open) PROVE IsJSON(EndEncode(e).out)
<1>1. PICK o : o = e.open OBVIOUS
<1>2. o # <<>> BY <1>1 DEF Inside
<1>3. Whole(EndEncode(e), k) BY <1>1, <1>2, EndEncodeWrites
<1>. QED BY <1>3, WholeIsJSON

\* The encoder, the embedding of texts and of the first report's remains, for every process
\* with a regular heap: whenever the writer stops, closing what is open gives a text of the
\* JSON grammar.
THEOREM ReportsAlwaysClose == Spec => []ReportAlwaysCloses
<1>1. ASSUME TextKept PROVE ReportAlwaysCloses
  <2>. SUFFICES ASSUME TextInv PROVE ReportAlwaysCloses BY <1>1 DEF TextKept, ReportAlwaysCloses
  <2>0. Standing(enc, work, phase, refused, file) BY TextTyped
  <2>1. CASE phase \in {"dead", "read"} BY <2>1 DEF ReportAlwaysCloses
  <2>2. CASE phase \in {"closed", "recrashed"}
    <3>1. PICK k : Whole(enc, k) BY <2>0, <2>2 DEF Standing
    <3>. QED BY <3>1, WholeCloses DEF ReportAlwaysCloses
  <2>3. CASE phase = "faulted"
    <3>1. PICK k : At(enc, enc.open, k) /\ Inside(enc.open) BY <2>0, <2>3 DEF Standing
    <3>. QED BY <3>1, OpenCloses DEF ReportAlwaysCloses
  <2>4. CASE phase \in Writing
    <3>1. PICK o, k : Progress(enc, work, o, k, Spare(refused), phase) BY <2>0, <2>4 DEF Standing
    <3>2. At(enc, enc.open, k) /\ Over(enc.open, o, Spare(refused)) /\ Inside(o) BY <3>1 DEF Progress
    <3>3. Inside(enc.open) BY <3>2, OverInside
    <3>. QED BY <3>2, <3>3, OpenCloses DEF ReportAlwaysCloses
  <2>. QED BY <2>0, <2>1, <2>2, <2>3, <2>4 DEF Standing
<1>. QED BY <1>1, TextInvariant, PTL

LEMMA PrefixBy ==
  ASSUME NEW T, NEW s \in Seq(T), NEW U, NEW t \in Seq(U), NEW n \in Nat, n <= Len(s), n <= Len(t),
         \A i \in 1..n : t[i] = s[i]
  PROVE  IsPrefix(SubSeq(s, 1, n), t)
<1>1. SubSeq(s, 1, n) \in Seq(T) /\ Len(SubSeq(s, 1, n)) = n /\ \A i \in 1..n : SubSeq(s, 1, n)[i] = s[i]
  BY PrefixIs
<1>2. PICK p \in Seq(T) : p = SubSeq(s, 1, n) BY <1>1
<1>3. PICK q : q = SubSeq(t, 1, n) OBVIOUS
<1>4. q \in Seq(U) /\ Len(q) = n /\ \A i \in 1..n : q[i] = t[i] BY <1>3, PrefixIs
<1>5. Len(p) = n /\ \A i \in 1..n : p[i] = q[i] BY <1>1, <1>2, <1>4
<1>6. p = q BY <1>4, <1>5
<1>7. Len(p) <= Len(t) /\ SubSeq(p, 1, Len(p)) = SubSeq(t, 1, Len(p))
  <2>1. SubSeq(p, 1, n) = p BY <1>5, PrefixAll
  <2>. QED BY <1>3, <1>5, <1>6, <2>1
<1>. QED BY <1>2, <1>7 DEF IsPrefix

LEMMA SixIsPrefix == ASSUME NEW k, Six(k) PROVE IsPrefix(SubSeq(Sections, 1, 6), k)
<1>1. PICK U : k \in Seq(U) BY DEF Six
<1>2. 6 <= Len(k) /\ \A i \in 1..6 : k[i] = Sections[i] BY <1>1 DEF Six
<1>3. PICK s : s = Sections OBVIOUS
<1>4. PICK T : s \in Seq(T) BY <1>3, SectionsAre
<1>5. 6 <= Len(s) /\ 6 \in Nat
  <2>1. Len(s) = 8 BY <1>3, SectionsAre
  <2>. QED BY <2>1
<1>6. IsPrefix(SubSeq(s, 1, 6), k) BY <1>1, <1>2, <1>3, <1>4, <1>5, PrefixBy
<1>. QED BY <1>3, <1>6

LEMMA SixSections == Six(Sections)
<1>1. Six(Append(ToldAt("debug"), "debug")) BY ToldSix, SixOn
<1>. QED BY <1>1, ToldSix, ToldOn

\* The sections of a finished report, for every process with a regular heap: in their order
\* and at the top, and the six before the user information even if a text was refused half-way.
THEOREM SectionsStayInPlace == Spec => []SectionsInPlace
<1>1. ASSUME TextKept PROVE SectionsInPlace
  <2>1. SUFFICES ASSUME TextInv, phase = "closed"
                 PROVE  IsPrefix(SubSeq(Sections, 1, 6), RootKeys(file)) /\ (~refused => RootKeys(file) = Sections)
    BY <1>1 DEF SectionsInPlace, TextKept
  <2>2. Standing(enc, work, phase, refused, file) BY <2>1, TextTyped
  <2>3. PICK k : Whole(enc, k) /\ KeysOK(k, Spare(refused), Sections) BY <2>1, <2>2 DEF Standing
  <2>4. file = enc.out BY <2>1, <2>2 DEF Standing
  <2>5. RootKeys(file) = k BY <2>3, <2>4, WholeIsJSON
  <2>6. ~refused => k = Sections BY <2>3, SpareOf DEF KeysOK
  <2>7. Six(k) BY <2>3, SixSections DEF KeysOK
  <2>8. IsPrefix(SubSeq(Sections, 1, 6), k) BY <2>7, SixIsPrefix
  <2>. QED BY <2>5, <2>6, <2>8
<1>. QED BY <1>1, TextInvariant, PTL

-----------------------------------------------------------------------------
\* What the encoder writes, token by token, when it is refused nothing.
Stands(e, o, f, out) == IsEncoder(e) /\ e.open = o /\ e.first = f /\ e.ok = TRUE /\ e.out = out
Separated(c, u) ==
  IsEncoder(c) /\ c.first \in BOOLEAN /\ u = c.out \o (IF c.first = TRUE THEN <<>> ELSE <<Comma>>)
Announced(o, name, u) == IF InAnObject(o) THEN u \o <<name, Colon>> ELSE u

LEMMA BeginElementIs ==
  ASSUME NEW c, NEW u, Separated(c, u), NEW name, InAnObject(c.open) => Writable(name), NEW b, b = BeginElement(c, name)
  PROVE  Stands(b, c.open, FALSE, Announced(c.open, name, u))
<1>0. IsEncoder(c) /\ c.first \in BOOLEAN /\ u = c.out \o (IF c.first = TRUE THEN <<>> ELSE <<",">>)
  BY Zenon DEF Separated, Comma
<1>1. PICK t : t = IF c.first = TRUE THEN <<>> ELSE <<",">> OBVIOUS
<1>2. PICK a : a = [c EXCEPT !.first = FALSE] OBVIOUS
<1>3. PICK d : d = Emit(a, t) OBVIOUS
<1>4. PICK o : o = c.open OBVIOUS
<1>5. IsEncoder(a) /\ a.open = o /\ a.first = FALSE /\ a.out = c.out BY <1>0, <1>2, <1>4, FirstCleared
<1>11. u = c.out \o t BY <1>0, <1>1, Zenon
<1>6. IsEncoder(d) /\ d.open = o /\ d.first = FALSE /\ d.out = u BY <1>3, <1>5, <1>11, Emitted
<1>7. t = IF c.first THEN <<>> ELSE <<",">> BY <1>1
<1>8. InObject(c) <=> InAnObject(o) BY <1>4 DEF InObject, InAnObject
<1>9. CASE ~InAnObject(o)
  <2>1. b = [d EXCEPT !.ok = TRUE] BY <1>2, <1>3, <1>7, <1>8, <1>9 DEF BeginElement
  <2>2. IsEncoder(b) /\ b.open = o /\ b.first = FALSE /\ b.out = d.out /\ b.ok = TRUE BY <1>6, <2>1, OkSet
  <2>. QED BY <1>4, <1>6, <1>9, <2>2 DEF Stands, Announced
<1>10. CASE InAnObject(o)
  <2>1. Writable(name) BY <1>4, <1>10
  <2>2. name # Null /\ name # Control BY <2>1 DEF Writable, Strings, NotStrings
  <2>3. PICK f : f = Emit(d, <<name, ":">>) OBVIOUS
  <2>4. b = [f EXCEPT !.ok = TRUE] BY <1>2, <1>3, <1>7, <1>8, <1>10, <2>2, <2>3 DEF BeginElement
  <2>5. IsEncoder(f) /\ f.open = o /\ f.first = FALSE /\ f.out = d.out \o <<name, ":">>
    BY <1>6, <2>3, Emitted
  <2>6. IsEncoder(b) /\ b.open = o /\ b.first = FALSE /\ b.out = f.out /\ b.ok = TRUE BY <2>4, <2>5, OkSet
  <2>7. d.out \o <<name, ":">> = u \o <<name, Colon>> BY <1>6, Zenon DEF Colon
  <2>8. b.out = u \o <<name, Colon>> BY <2>5, <2>6, <2>7, Zenon
  <2>. QED BY <1>4, <1>10, <2>6, <2>8 DEF Stands, Announced
<1>. QED BY <1>9, <1>10

Able(c, name, b) == b = BeginElement(c, name) /\ IsEncoder(b) /\ b.ok = TRUE
LEMMA AddElementIs ==
  ASSUME NEW c, NEW name, NEW b, Able(c, name, b),
         NEW value, value # Control, NEW e, e = AddElement(c, name, value)
  PROVE  Stands(e, b.open, b.first, b.out \o <<value>>)
<1>1. PICK x : x = Emit(b, <<value>>) OBVIOUS
<1>2. IsEncoder(x) /\ x.open = b.open /\ x.first = b.first /\ x.out = b.out \o <<value>> BY <1>1, Emitted DEF Able
<1>3. (value # Control) = TRUE OBVIOUS
<1>4. e = [x EXCEPT !.ok = TRUE] BY <1>1, <1>3 DEF AddElement, Able
<1>. QED BY <1>2, <1>4, OkSet DEF Stands

LEMMA BeginContainerIs ==
  ASSUME NEW c, NEW name, NEW b, Able(c, name, b),
         NEW m, NEW e, e = BeginContainer(c, name, m)
  PROVE  Stands(e, Append(b.open, m), TRUE, b.out \o <<m>>)
<1>1. PICK p : p = Append(b.open, m) OBVIOUS
<1>2. PICK x : x = [b EXCEPT !.open = p, !.first = TRUE] OBVIOUS
<1>3. IsEncoder(x) /\ x.open = p /\ x.first = TRUE /\ x.ok = TRUE /\ x.out = b.out BY <1>2 DEF IsEncoder, Able
<1>5. PICK t : t = <<m>> OBVIOUS
<1>4. e = Emit(x, t) BY <1>1, <1>2, <1>5 DEF BeginContainer, Able
<1>6. PICK y : y = Emit(x, t) OBVIOUS
<1>7. IsEncoder(y) /\ y.out = x.out \o t /\ y.open = x.open /\ y.first = x.first /\ y.ok = x.ok
  BY <1>3, <1>6, Emitted
<1>. QED BY <1>1, <1>3, <1>4, <1>5, <1>6, <1>7 DEF Stands

LEMMA EndContainerIs ==
  ASSUME NEW c, IsEncoder(c), c.open # <<>>, NEW t, t = Closer(Last(c.open)), NEW e, e = EndContainer(c)
  PROVE  Stands(e, Front(c.open), FALSE, c.out \o <<t>>)
<1>1. PICK p : p = Front(c.open) OBVIOUS
<1>2. PICK b : b = [c EXCEPT !.open = p, !.first = FALSE, !.ok = TRUE] OBVIOUS
<1>3. IsEncoder(b) /\ b.open = p /\ b.first = FALSE /\ b.ok = TRUE /\ b.out = c.out BY <1>2 DEF IsEncoder
<1>5. PICK u : u = <<t>> OBVIOUS
<1>4. e = Emit(b, u) BY <1>1, <1>2, <1>5 DEF EndContainer
<1>6. PICK y : y = Emit(b, u) OBVIOUS
<1>7. IsEncoder(y) /\ y.out = b.out \o u /\ y.open = b.open /\ y.first = b.first /\ y.ok = b.ok
  BY <1>3, <1>6, Emitted
<1>. QED BY <1>1, <1>3, <1>4, <1>5, <1>6, <1>7 DEF Stands

LEMMA NothingToEnd ==
  ASSUME NEW c, c.open = <<>> PROVE EndEncode(c) = c
<1>0. PICK n \in Nat : n = 0 OBVIOUS
<1>1. Len(c.open) = n BY <1>0
<1>5. \A level : \E f : ClosedSoFar(c, n, f) /\ Down(c, level) = f[n - level] BY <1>1, DownIs
<1>2. PICK f : ClosedSoFar(c, n, f) /\ Down(c, 0) = f[n - 0] BY <1>5
<1>3. f[0] = c
  <2>1. 0 \in 0..n BY <1>0
  <2>. QED BY <1>2, <2>1 DEF ClosedSoFar
<1>4. Down(c, 0) = f[0]
  <2>1. n - 0 = 0 BY <1>0
  <2>. QED BY <1>2, <2>1
<1>. QED BY <1>3, <1>4 DEF EndEncode

-----------------------------------------------------------------------------
\* A whole text in memory: the decoder's window is the text, and it only moves on.
Moved(d, e, n) ==
  /\ IsDecoder(e) /\ e.buf = d.buf /\ e.window = d.window /\ e.fix = d.fix /\ e.top = d.top
  /\ e.result = d.result /\ e.pos = d.pos + n

LEMMA SkipMoves ==
  ASSUME NEW d, IsDecoder(d), NEW n, NEW e, e = Skip(d, n)
  PROVE  Moved(d, e, n) /\ e.enc = d.enc /\ e.stack = d.stack /\ e.path = d.path
BY DEF IsDecoder, Skip, Moved

LEMMA NoRefill == ASSUME NEW d, d.window = FALSE PROVE Refill(d) = d
BY DEF Refill

InMemory(d) == IsDecoder(d) /\ d.window = FALSE
LEMMA AddedMoves ==
  ASSUME NEW d, InMemory(d), NEW n, NEW t, NEW e, e = Refill(Added(d, n, t))
  PROVE  Moved(d, e, 1) /\ e.enc = AddElement(d.enc, n, t) /\ e.stack = d.stack /\ e.path = d.path
<1>1. PICK s : s = Skip(d, 1) OBVIOUS
<1>2. Moved(d, s, 1) /\ s.enc = d.enc /\ s.stack = d.stack /\ s.path = d.path BY <1>1, SkipMoves DEF InMemory
<1>3. PICK c : c = AddElement(d.enc, n, t) OBVIOUS
<1>4. PICK b : b = [s EXCEPT !.enc = c] OBVIOUS
<1>5. b = Added(d, n, t) BY <1>1, <1>2, <1>3, <1>4 DEF Added
<1>6. Moved(d, b, 1) /\ b.enc = c /\ b.stack = d.stack /\ b.path = d.path BY <1>2, <1>4 DEF InMemory, Moved, IsDecoder
<1>7. Refill(b) = b BY <1>6, NoRefill DEF InMemory, Moved
<1>. QED BY <1>3, <1>5, <1>6, <1>7

LEMMA BeganMoves ==
  ASSUME NEW d, InMemory(d), NEW n, NEW t, NEW e, e = Refill(Began(d, n, t))
  PROVE  Moved(d, e, 1) /\ e.enc = BeginContainer(d.enc, n, t) /\ e.stack = Append(d.stack, t) /\ e.path = Append(d.path, n)
<1>1. PICK s : s = Skip(d, 1) OBVIOUS
<1>2. Moved(d, s, 1) /\ s.enc = d.enc /\ s.stack = d.stack /\ s.path = d.path BY <1>1, SkipMoves DEF InMemory
<1>3. PICK c : c = BeginContainer(d.enc, n, t) OBVIOUS
<1>4. PICK u : u = Append(d.stack, t) OBVIOUS
<1>5. PICK p : p = Append(d.path, n) OBVIOUS
<1>6. PICK b : b = [s EXCEPT !.enc = c, !.path = p, !.stack = u] OBVIOUS
<1>7. b = Began(d, n, t) BY <1>1, <1>2, <1>3, <1>4, <1>5, <1>6 DEF Began
<1>8. Moved(d, b, 1) /\ b.enc = c /\ b.stack = u /\ b.path = p BY <1>2, <1>6 DEF InMemory, Moved, IsDecoder
<1>9. Refill(b) = b BY <1>8, NoRefill DEF InMemory, Moved
<1>. QED BY <1>3, <1>4, <1>5, <1>7, <1>8, <1>9

Fixing(d) == InMemory(d) /\ d.fix = TRUE
LEMMA EndMoves ==
  ASSUME NEW d, Fixing(d)
  PROVE  \E e : /\ Moved(d, e, 1) /\ e.enc = EndContainer(d.enc) /\ e.stack = Front(d.stack)
                /\ e.path = Front(d.path) /\ End(d) = AfterElement(e)
<1>1. PICK s : s = Skip(d, 1) OBVIOUS
<1>2. Moved(d, s, 1) /\ s.enc = d.enc /\ s.stack = d.stack /\ s.path = d.path BY <1>1, SkipMoves DEF Fixing, InMemory
<1>3. PICK c : c = EndContainer(d.enc) OBVIOUS
<1>4. PICK u : u = Front(d.stack) OBVIOUS
<1>5. PICK p : p = Front(d.path) OBVIOUS
<1>6. PICK b : b = [s EXCEPT !.enc = c, !.path = p, !.stack = u] OBVIOUS
<1>7. End(d) = AfterElement(Refill(b)) BY <1>1, <1>2, <1>3, <1>4, <1>5, <1>6 DEF End, Fixing
<1>8. Moved(d, b, 1) /\ b.enc = c /\ b.stack = u /\ b.path = p BY <1>2, <1>6 DEF Fixing, InMemory, Moved, IsDecoder
<1>9. Refill(b) = b BY <1>8, NoRefill DEF Fixing, InMemory, Moved
<1>. QED BY <1>3, <1>4, <1>5, <1>7, <1>8, <1>9

\* What the decoder does where a value is to come.
LEMMA ElementOpens ==
  ASSUME NEW d, NEW n, NEW t, t = Token(d), t \in Marks, NEW e, e = Refill(Began(d, n, t)), e.enc.ok = TRUE
  PROVE  Element(d, n) = IF d.fix /\ Len(d.path) >= MaxDepth THEN Stop(e, "too long") ELSE e
<1>1. e = Refill([Skip(d, 1) EXCEPT !.enc = BeginContainer(@, n, t), !.path = Append(@, n), !.stack = Append(@, t)])
  BY DEF Began
<1>2. t \in {"[", "{"} BY DEF Marks
<1>. DEFINE E == LET x == Refill([Skip(d, 1) EXCEPT !.enc = BeginContainer(@, n, t),
                                            !.path = Append(@, n), !.stack = Append(@, t)]) IN
                 IF d.fix /\ Len(d.path) >= MaxDepth THEN Stop(x, "too long")
                 ELSE IF x.enc.ok THEN x ELSE Stop(x, "refused")
            F == AfterElement(Refill([Skip(d, 1) EXCEPT !.enc = AddElement(@, n, Fixed(d, n, t))]))
            S(r) == Stop(d, r)
<1>3. E = IF d.fix /\ Len(d.path) >= MaxDepth THEN Stop(e, "too long") ELSE e BY <1>1
<1>4. Element(d, n) = CASE t \in {"[", "{"} -> E
                        [] t \in {"]", "}", ",", ":", Junk, Null} -> S("invalid")
                        [] TooLong(d, t) -> S("too long")
                        [] t \in Numbers /\ d.pos + 1 >= Len(d.buf) -> S("incomplete")
                        [] OTHER -> F
  BY DEF Element
<1>. HIDE DEF E, F, S
<1>5. Element(d, n) = E BY <1>2, <1>4 DEF Junk, Null, TooLong, Huge, Long, Numbers, Number, Now
<1>. QED BY <1>3, <1>5

LEMMA ElementTakes ==
  ASSUME NEW d, d.window = FALSE, NEW n, NEW t, t = Token(d), t \notin Marks, Scalar(t), NEW v, v = Fixed(d, n, t)
  PROVE  \/ t = Huge /\ Element(d, n) = Stop(d, "too long")
         \/ d.pos + 1 >= Len(d.buf) /\ Element(d, n) = Stop(d, "incomplete")
         \/ t # Huge /\ Element(d, n) = AfterElement(Refill(Added(d, n, v)))
<1>1. t \notin {"[", "{"} /\ t \notin {"]", "}", ",", ":", Junk, Null}
  BY DEF Marks, Scalar, Strings, NotStrings, Punctuation, Numbers, Junk, Null, Literal, Number, Now
<1>2. TooLong(d, t) <=> t = Huge BY DEF TooLong
<1>3. PICK f : f = AfterElement(Refill(Added(d, n, v))) OBVIOUS
<1>. DEFINE E == LET x == Refill([Skip(d, 1) EXCEPT !.enc = BeginContainer(@, n, t),
                                            !.path = Append(@, n), !.stack = Append(@, t)]) IN
                 IF d.fix /\ Len(d.path) >= MaxDepth THEN Stop(x, "too long")
                 ELSE IF x.enc.ok THEN x ELSE Stop(x, "refused")
            F == AfterElement(Refill([Skip(d, 1) EXCEPT !.enc = AddElement(@, n, Fixed(d, n, t))]))
            S(r) == Stop(d, r)
            L == d.pos + 1 >= Len(d.buf)
<1>4. F = f BY <1>3, Zenon DEF Added
<1>5. Element(d, n) = CASE t \in {"[", "{"} -> E
                        [] t \in {"]", "}", ",", ":", Junk, Null} -> S("invalid")
                        [] TooLong(d, t) -> S("too long")
                        [] t \in Numbers /\ L -> S("incomplete")
                        [] OTHER -> F
  BY DEF Element
<1>6. \A r : S(r) = Stop(d, r) OBVIOUS
<1>. HIDE DEF E, F, S, L
<1>7. \/ TooLong(d, t) /\ Element(d, n) = S("too long")
      \/ L /\ Element(d, n) = S("incomplete")
      \/ ~TooLong(d, t) /\ Element(d, n) = F
  BY <1>1, <1>5
<1>8. \/ t = Huge /\ Element(d, n) = Stop(d, "too long")
      \/ L /\ Element(d, n) = Stop(d, "incomplete")
      \/ t # Huge /\ Element(d, n) = f
  BY <1>2, <1>4, <1>6, <1>7
<1>. QED BY <1>3, <1>8, Zenon DEF L

-----------------------------------------------------------------------------
\* A text that is read without an error, if not to its end; it begins with a container.
Course(text, run, tr) ==
  Reading(text, run) /\ Len(text) \in Nat /\ (Len(text) # 0 => text[1] \in Marks) /\ Passing(text, tr)

LEMMA OnCourse ==
  ASSUME NEW text, NEW run, NEW tr, Course(text, run, tr), NEW k \in 0..Len(text), k < Len(text)
  PROVE  /\ run[k + 1] = Grammar(run[k], text[k + 1]) /\ run[k + 1].want # "error" /\ text[k + 1] # Control
         /\ tr[k + 1] = Pass(tr[k], text[k + 1])
<1>1. PICK n \in Nat : n = Len(text) BY DEF Course
<1>2. k + 1 \in 1..n /\ (k + 1) - 1 = k BY <1>1
<1>3. PICK i \in 1..n : i = k + 1 /\ i - 1 = k BY <1>2
<1>4. run[i] = Grammar(run[i - 1], text[i]) /\ run[i].want # "error" /\ text[i] # Control
  BY <1>1 DEF Course, Reading
<1>5. tr[i] = Pass(tr[i - 1], text[i]) BY <1>1 DEF Course, Passing
<1>. QED BY <1>3, <1>4, <1>5

PathAfter(w, t) ==
  IF t \in Marks THEN Append(w.path, w.name) ELSE IF t \in {"}", "]"} THEN Front(w.path) ELSE w.path
NameAfter(w, t) == IF Strings(t) THEN t ELSE IF t = ":" THEN w.name ELSE Null

DeepAfter(w, t) == w.deep \/ (t \in Marks /\ Len(w.path) >= MaxDepth)

LEMMA PassIs ==
  ASSUME NEW w, NEW t, NEW x, x = Pass(w, t)
  PROVE  /\ x.path = PathAfter(w, t) /\ x.name = NameAfter(w, t) /\ x.copy = Append(w.copy, InDates(w, t))
         /\ x.deep <=> DeepAfter(w, t)
<1>1. PICK p : p = PathAfter(w, t) OBVIOUS
<1>2. PICK n : n = NameAfter(w, t) OBVIOUS
<1>3. PICK c : c = Append(w.copy, InDates(w, t)) OBVIOUS
<1>6. PICK q : q = DeepAfter(w, t) OBVIOUS
<1>4. x = [path |-> p, name |-> n, deep |-> q, copy |-> c]
  BY <1>1, <1>2, <1>3, <1>6, Zenon DEF Pass, PathAfter, NameAfter, DeepAfter
<1>5. x.path = p /\ x.name = n /\ x.deep = q /\ x.copy = c BY <1>4
<1>7. x.deep = DeepAfter(w, t) BY <1>5, <1>6, Zenon
<1>. QED BY <1>1, <1>2, <1>3, <1>5, <1>7, Zenon

LEMMA Tokens ==
  ASSUME NEW t
  PROVE  /\ t \in Marks => t \notin {"}", "]", ":"} /\ ~Strings(t) /\ t \notin Numbers
         /\ t \in {"}", "]"} => t \notin Marks /\ t # ":" /\ ~Strings(t) /\ t \notin Numbers
         /\ Strings(t) => t \notin {"}", "]", ":"} /\ t \notin Marks /\ t \notin Numbers
         /\ Scalar(t) => t \notin {"}", "]", ":", ","} /\ t \notin Marks
BY DEF Marks, Scalar, Strings, NotStrings, Punctuation, Numbers, Number, Now, Literal

LEMMA TwoMarks ==
  /\ "," \notin Marks /\ "," \notin {"}", "]", ":"} /\ ~Strings(",") /\ "," \notin Numbers
  /\ ":" \notin Marks /\ ":" \notin {"}", "]"} /\ ~Strings(":") /\ ":" \notin Numbers
BY DEF Marks, Strings, NotStrings, Punctuation, Numbers, Number, Now

LEMMA PassMark ==
  ASSUME NEW w, NEW t \in Marks, NEW x, x = Pass(w, t)
  PROVE  /\ x.path = Append(w.path, w.name) /\ x.name = Null /\ x.copy = Append(w.copy, t)
         /\ x.deep <=> w.deep \/ Len(w.path) >= MaxDepth
<1>1. t \in Marks /\ t # ":" /\ ~Strings(t) /\ t \notin Numbers BY Tokens
<1>2. PathAfter(w, t) = Append(w.path, w.name) BY <1>1, Zenon DEF PathAfter
<1>3. NameAfter(w, t) = Null BY <1>1, Zenon DEF NameAfter
<1>4. InDates(w, t) = t BY <1>1, Zenon DEF InDates
<1>5. x.path = PathAfter(w, t) /\ x.name = NameAfter(w, t) /\ x.copy = Append(w.copy, InDates(w, t))
  BY PassIs, Zenon
<1>7. x.deep <=> DeepAfter(w, t) BY PassIs, Zenon
<1>8. x.deep <=> w.deep \/ Len(w.path) >= MaxDepth BY <1>7, Zenon DEF DeepAfter
<1>6. Append(w.copy, InDates(w, t)) = Append(w.copy, t) BY <1>4, Zenon
<1>. QED BY <1>2, <1>3, <1>5, <1>6, <1>8, Zenon

LEMMA PassCloser ==
  ASSUME NEW w, NEW t \in {"}", "]"}, NEW x, x = Pass(w, t)
  PROVE  x.path = Front(w.path) /\ x.name = Null /\ x.copy = Append(w.copy, t) /\ (x.deep => w.deep)
<1>1. t \notin Marks /\ t # ":" /\ ~Strings(t) /\ t \notin Numbers BY Tokens
<1>2. PathAfter(w, t) = Front(w.path) BY <1>1, Zenon DEF PathAfter
<1>3. NameAfter(w, t) = Null BY <1>1, Zenon DEF NameAfter
<1>4. InDates(w, t) = t BY <1>1, Zenon DEF InDates
<1>5. x.path = PathAfter(w, t) /\ x.name = NameAfter(w, t) /\ x.copy = Append(w.copy, InDates(w, t))
  BY PassIs, Zenon
<1>7. x.deep <=> DeepAfter(w, t) BY PassIs, Zenon
<1>8. x.deep => w.deep BY <1>1, <1>7, Zenon DEF DeepAfter
<1>6. Append(w.copy, InDates(w, t)) = Append(w.copy, t) BY <1>4, Zenon
<1>. QED BY <1>2, <1>3, <1>5, <1>6, <1>8, Zenon

LEMMA PassName ==
  ASSUME NEW w, NEW t, Strings(t), NEW x, x = Pass(w, t)
  PROVE  x.path = w.path /\ x.name = t /\ x.copy = Append(w.copy, t) /\ (x.deep => w.deep)
<1>1. t \notin {"}", "]"} /\ t \notin Marks /\ t \notin Numbers BY Tokens
<1>2. PathAfter(w, t) = w.path BY <1>1, Zenon DEF PathAfter
<1>3. NameAfter(w, t) = t BY <1>1, Zenon DEF NameAfter
<1>4. InDates(w, t) = t BY <1>1, Zenon DEF InDates
<1>5. x.path = PathAfter(w, t) /\ x.name = NameAfter(w, t) /\ x.copy = Append(w.copy, InDates(w, t))
  BY PassIs, Zenon
<1>7. x.deep <=> DeepAfter(w, t) BY PassIs, Zenon
<1>8. x.deep => w.deep BY <1>1, <1>7, Zenon DEF DeepAfter
<1>6. Append(w.copy, InDates(w, t)) = Append(w.copy, t) BY <1>4, Zenon
<1>. QED BY <1>2, <1>3, <1>5, <1>6, <1>8, Zenon

LEMMA PassComma ==
  ASSUME NEW w, NEW x, x = Pass(w, ",")
  PROVE  x.path = w.path /\ x.name = Null /\ x.copy = Append(w.copy, ",") /\ (x.deep => w.deep)
<1>1. "," \notin Marks /\ "," \notin {"}", "]"} /\ "," # ":" /\ ~Strings(",") /\ "," \notin Numbers BY TwoMarks
<1>2. PathAfter(w, ",") = w.path BY <1>1, Zenon DEF PathAfter
<1>3. NameAfter(w, ",") = Null BY <1>1, Zenon DEF NameAfter
<1>4. InDates(w, ",") = "," BY <1>1, Zenon DEF InDates
<1>5. x.path = PathAfter(w, ",") /\ x.name = NameAfter(w, ",") /\ x.copy = Append(w.copy, InDates(w, ","))
  BY PassIs, Zenon
<1>7. x.deep <=> DeepAfter(w, ",") BY PassIs, Zenon
<1>8. x.deep => w.deep BY <1>1, <1>7, Zenon DEF DeepAfter
<1>6. Append(w.copy, InDates(w, ",")) = Append(w.copy, ",") BY <1>4, Zenon
<1>. QED BY <1>2, <1>3, <1>5, <1>6, <1>8, Zenon

LEMMA PassColon ==
  ASSUME NEW w, NEW x, x = Pass(w, ":")
  PROVE  x.path = w.path /\ x.name = w.name /\ x.copy = Append(w.copy, ":") /\ (x.deep => w.deep)
<1>1. ":" \notin Marks /\ ":" \notin {"}", "]"} /\ ~Strings(":") /\ ":" \notin Numbers BY TwoMarks
<1>2. PathAfter(w, ":") = w.path BY <1>1, Zenon DEF PathAfter
<1>3. NameAfter(w, ":") = w.name BY <1>1, Zenon DEF NameAfter
<1>4. InDates(w, ":") = ":" BY <1>1, Zenon DEF InDates
<1>5. x.path = PathAfter(w, ":") /\ x.name = NameAfter(w, ":") /\ x.copy = Append(w.copy, InDates(w, ":"))
  BY PassIs, Zenon
<1>7. x.deep <=> DeepAfter(w, ":") BY PassIs, Zenon
<1>8. x.deep => w.deep BY <1>1, <1>7, Zenon DEF DeepAfter
<1>6. Append(w.copy, InDates(w, ":")) = Append(w.copy, ":") BY <1>4, Zenon
<1>. QED BY <1>2, <1>3, <1>5, <1>6, <1>8, Zenon

LEMMA PassScalar ==
  ASSUME NEW w, NEW t, Scalar(t), NEW x, x = Pass(w, t)
  PROVE  x.path = w.path /\ x.copy = Append(w.copy, InDates(w, t)) /\ (x.deep => w.deep)
<1>1. t \notin {"}", "]"} /\ t \notin Marks BY Tokens
<1>2. PathAfter(w, t) = w.path BY <1>1, Zenon DEF PathAfter
<1>3. x.path = PathAfter(w, t) /\ x.copy = Append(w.copy, InDates(w, t)) /\ (x.deep <=> DeepAfter(w, t))
  BY PassIs, Zenon
<1>4. x.deep => w.deep BY <1>1, <1>3, Zenon DEF DeepAfter
<1>. QED BY <1>2, <1>3, <1>4, Zenon

LEMMA FixedInDates ==
  ASSUME NEW d, d.fix = TRUE, NEW w, d.path = w.path, NEW t, t # Control
  PROVE  Fixed(d, w.name, t) = InDates(w, t) /\ InDates(w, t) # Control
<1>1. Fixed(d, w.name, t) = InDates(w, t) BY DEF Fixed, InDates, DatePaths, Times
<1>2. Date # Control BY DEF Date, Control
<1>3. InDates(w, t) # Control BY <1>2 DEF InDates
<1>. QED BY <1>1, <1>3

LEMMA CommaPassed ==
  ASSUME NEW w, NEW x, x = Pass(w, Comma) PROVE x.path = w.path /\ x.name = Null /\ x.copy = Append(w.copy, Comma) /\ (x.deep => w.deep)
<1>1. x = Pass(w, ",") BY Zenon DEF Comma
<1>2. x.path = w.path /\ x.name = Null /\ x.copy = Append(w.copy, ",") /\ (x.deep => w.deep) BY <1>1, PassComma, Zenon
<1>. QED BY <1>2, Zenon DEF Comma

LEMMA CommaRead ==
  ASSUME NEW s, s.want = "after", NEW g, g = Grammar(s, Comma) PROVE g.open = s.open /\ g.want = Following(s.open)
<1>1. Grammar(s, ",") = State(s.open, Following(s.open), s.keys) BY CommaGoesOn, Zenon
<1>2. g = State(s.open, Following(s.open), s.keys) BY <1>1, Zenon DEF Comma
<1>. QED BY <1>2, StateHas

LEMMA CloserSteps ==
  ASSUME NEW s, NEW t, Closes(s, t), NEW w, NEW g, g = Grammar(s, t), NEW x, x = Pass(w, t), s.open \in Seq(Marks)
  PROVE  /\ g.open = Front(s.open) /\ g.want = (IF Front(s.open) = <<>> THEN "end" ELSE "after")
         /\ x.path = Front(w.path) /\ x.copy = Append(w.copy, t) /\ (x.deep => w.deep) /\ t # Huge
<1>1. g = After(Front(s.open), s.keys) BY ClosesGoesOn
<1>2. g.open = Front(s.open) /\ g.want = (IF Front(s.open) = <<>> THEN "end" ELSE "after")
  BY <1>1, StateHas DEF After
<1>3. t \in {"}", "]"} BY ClosersAre, Zenon DEF Closes
<1>4. x.path = Front(w.path) /\ x.copy = Append(w.copy, t) /\ (x.deep => w.deep) BY <1>3, PassCloser, Zenon
<1>5. t # Huge BY <1>3 DEF Huge
<1>. QED BY <1>2, <1>4, <1>5

LEMMA NotAfterComma == ASSUME NEW s, NEW m, s.want \in {"name", "value"} PROVE Grammar(s, Closer(m)).want = "error"
<1>1. Closer(m) \in {"}", "]"} BY ClosersAre, Zenon
<1>. QED BY <1>1, NoCloserAfterComma, Zenon

LEMMA NameSteps ==
  ASSUME NEW s, NEW t, s.want \in AtName, Grammar(s, t).want # "error", ~Closes(s, t),
         NEW w, NEW g, g = Grammar(s, t), NEW x, x = Pass(w, t)
  PROVE  /\ Strings(t) /\ g.open = s.open /\ g.want = "colon"
         /\ x.path = w.path /\ x.name = t /\ x.copy = Append(w.copy, t) /\ (x.deep => w.deep)
<1>2. Strings(t) /\ Grammar(s, t).want = "colon" /\ Grammar(s, t).open = s.open BY NameGoesOn
<1>. QED BY <1>2, PassName

LEMMA ColonSteps ==
  ASSUME NEW s, NEW t, s.want = "colon", Grammar(s, t).want # "error",
         NEW w, NEW g, g = Grammar(s, t), NEW x, x = Pass(w, t)
  PROVE  /\ t = Colon /\ g.open = s.open /\ g.want = "value" /\ t # Huge
         /\ x.path = w.path /\ x.name = w.name /\ x.copy = Append(w.copy, t) /\ (x.deep => w.deep)
<1>0. t = ":" /\ Grammar(s, t).want = "value" /\ Grammar(s, t).open = s.open BY ColonGoesOn, Zenon
<1>1. t = ":" /\ g.want = "value" /\ g.open = s.open BY <1>0, Zenon
<1>2. x = Pass(w, ":") BY <1>1, Zenon
<1>3. x.path = w.path /\ x.name = w.name /\ x.copy = Append(w.copy, ":") /\ (x.deep => w.deep) BY <1>2, PassColon, Zenon
<1>4. Append(w.copy, ":") = Append(w.copy, t) BY <1>1, Zenon
<1>5. t # Huge BY <1>1 DEF Huge
<1>. QED BY <1>1, <1>3, <1>4, <1>5, Zenon DEF Colon

LEMMA MarkGoes ==
  ASSUME NEW s, NEW t \in Marks, s.want \in AtValue, Grammar(s, t).want # "error", ~Closes(s, t)
  PROVE  Grammar(s, t).open = Append(s.open, t) /\ Grammar(s, t).want = Opening(<<t>>) /\ t # Huge
<1>1. Grammar(s, t) = State(Append(s.open, t), Opening(<<t>>), s.keys) BY ValueGoesOn
<1>2. PICK o, u, g : o = Append(s.open, t) /\ u = Opening(<<t>>) /\ g = Grammar(s, t) OBVIOUS
<1>3. g = State(o, u, s.keys) BY <1>1, <1>2
<1>4. g.open = o /\ g.want = u BY <1>3, StateHas
<1>5. t # Huge BY DEF Marks, Huge
<1>. QED BY <1>2, <1>4, <1>5

LEMMA ScalarSteps ==
  ASSUME NEW s, NEW t, t \notin Marks, s.want \in AtValue, Grammar(s, t).want # "error", ~Closes(s, t),
         NEW w, NEW g, g = Grammar(s, t), NEW x, x = Pass(w, t)
  PROVE  /\ Scalar(t) /\ g.open = s.open /\ g.want = (IF s.open = <<>> THEN "end" ELSE "after")
         /\ x.path = w.path /\ x.copy = Append(w.copy, InDates(w, t)) /\ (x.deep => w.deep)
<1>1. Scalar(t) /\ g = After(s.open, s.keys) BY ValueGoesOn
<1>2. g.open = s.open /\ g.want = (IF s.open = <<>> THEN "end" ELSE "after") BY <1>1, StateHas DEF After
<1>. QED BY <1>1, <1>2, PassScalar

-----------------------------------------------------------------------------
\* Where the fixer is, between two steps, by what the grammar and the reader say of the place:
\* where a container has begun, behind a comma, or behind an element.
Short(text, k)    == \A i \in 1..k : text[i] # Huge
Broken(text, run, tr) ==
  run[Len(text)].want # "end" \/ ~Short(text, Len(text)) \/ \E i \in 1..Len(text) : tr[i].deep
With(d, text, s, w) ==
  /\ IsDecoder(d) /\ d.buf = text /\ d.window = FALSE /\ d.fix = TRUE /\ d.top = Null /\ d.result = "running"
  /\ d.pos \in 0..Len(text) /\ Short(text, d.pos)
  /\ s.open \in Seq(Marks) /\ d.stack = s.open /\ d.path = w.path /\ ~w.deep
  /\ IsEncoder(d.enc) /\ d.enc.open = s.open /\ IsSequence(d.enc.out)
Entered(d, s, w) ==
  /\ d.enc.first = TRUE /\ d.enc.out = w.copy /\ w.name = Null
  /\ s.want = Opening(s.open) /\ (s.open = <<>> => d.pos = 0)
Awaiting(d, s, w) ==
  /\ d.enc.first = FALSE /\ d.enc.out \o <<Comma>> = w.copy /\ w.name = Null
  /\ s.open # <<>> /\ s.want = Following(s.open)
Behind(d, s, w) ==
  /\ d.enc.first = FALSE /\ d.enc.out = w.copy
  /\ s.open # <<>> /\ s.want = "after" /\ (AtEnd(d) \/ Token(d) # Comma)
Here(d, text, s, w) == With(d, text, s, w) /\ (Entered(d, s, w) \/ Awaiting(d, s, w) \/ Behind(d, s, w))
Comes(e, n, text, run, tr) ==
  IF e.result = "running" THEN Here(e, text, run[e.pos], tr[e.pos]) /\ e.pos >= n
  ELSE IF e.result = "ok"
  THEN /\ run[Len(text)].want = "end" /\ Short(text, Len(text)) /\ ~tr[Len(text)].deep
       /\ e.enc.open = <<>> /\ e.enc.out = tr[Len(text)].copy
  ELSE Broken(text, run, tr)
\* An element has been written, and the reader has passed it.
Past(e, text, s, w) ==
  /\ With(e, text, s, w) /\ e.enc.ok = TRUE /\ e.enc.first = FALSE /\ e.enc.out = w.copy
  /\ s.want = (IF s.open = <<>> THEN "end" ELSE "after")

LEMMA StopComes ==
  ASSUME NEW d, IsDecoder(d), NEW r, r \notin {"running", "ok"}, NEW text, NEW run, NEW tr, Broken(text, run, tr), NEW n
  PROVE  Comes(Stop(d, r), n, text, run, tr)
<1>1. PICK e : e = Stop(d, r) OBVIOUS
<1>2. e.result = r BY <1>1, StopIs
<1>. QED BY <1>1, <1>2 DEF Comes

LEMMA ShortOn ==
  ASSUME NEW text, NEW k \in Nat, Short(text, k), text[k + 1] # Huge PROVE Short(text, k + 1)
BY DEF Short

\* What follows an element.
LEMMA AfterComes ==
  ASSUME NEW text, NEW run, NEW tr, Course(text, run, tr), NEW e, NEW s, NEW w, s = run[e.pos], w = tr[e.pos],
         Past(e, text, s, w), NEW n \in Nat, e.pos >= n
  PROVE  Comes(AfterElement(e), n, text, run, tr)
<1>0. Len(text) \in Nat /\ e.pos \in 0..Len(text) /\ IsDecoder(e) BY DEF Course, Past, With
<1>1. CASE s.open = <<>>
  <2>1. PICK x : x = Stop(e, "ok") OBVIOUS
  <2>2. x.enc = e.enc /\ x.result = "ok" BY <1>0, <2>1, StopIs
  <2>3. AfterElement(e) = x BY <1>1, <2>1 DEF AfterElement, Past, With
  <2>4. e.pos = Len(text) BY <1>0, <1>1, EndIsLast DEF Course, Past
  <2>. QED BY <1>1, <2>2, <2>3, <2>4 DEF Comes, Past, With
<1>2. CASE s.open # <<>> /\ ~AtEnd(e) /\ Token(e) = Comma
  <2>1. PICK x : x = Skip(e, 1) OBVIOUS
  <2>2. Moved(e, x, 1) /\ x.enc = e.enc /\ x.stack = e.stack /\ x.path = e.path BY <1>0, <2>1, SkipMoves
  <2>3. AfterElement(e) = x
    <3>1. e.stack # <<>> /\ (~e.enc.ok) = FALSE BY <1>2 DEF Past, With
    <3>2. (~AtEnd(e) /\ Token(e) = ",") = TRUE BY <1>2, Zenon DEF Comma
    <3>3. AfterElement(e) = Skip(e, 1) BY <3>1, <3>2, Zenon DEF AfterElement
    <3>. QED BY <2>1, <3>3
  <2>4. PICK k \in 0..Len(text) : k = e.pos /\ k < Len(text) BY <1>0, <1>2 DEF AtEnd, Past, With
  <2>5. PICK g, v : g = run[k + 1] /\ v = tr[k + 1] OBVIOUS
  <2>6. text[k + 1] = Comma BY <1>2, <2>4 DEF Token, Past, With
  <2>7. g = Grammar(s, Comma) BY <2>4, <2>5, <2>6, OnCourse
  <2>15. v = Pass(w, Comma) BY <2>4, <2>5, <2>6, OnCourse
  <2>8. s.want = "after" BY <1>2 DEF Past
  <2>9. /\ g.open = s.open /\ g.want = Following(s.open)
        /\ v.path = w.path /\ v.name = Null /\ v.copy = Append(w.copy, Comma) /\ Comma # Huge
        /\ (v.deep => w.deep)
    <3>1. g.open = s.open /\ g.want = Following(s.open) BY <2>7, <2>8, CommaRead, Zenon
    <3>2. v.path = w.path /\ v.name = Null /\ v.copy = Append(w.copy, Comma) /\ (v.deep => w.deep) BY <2>15, CommaPassed, Zenon
    <3>3. Comma # Huge BY DEF Comma, Huge
    <3>. QED BY <3>1, <3>2, <3>3
  <2>10. x.pos = k + 1 /\ x.result = "running" /\ k + 1 \in 0..Len(text) /\ k + 1 >= n
    BY <1>0, <2>2, <2>4 DEF Moved, Past, With
  <2>11. Short(text, k + 1) BY <1>0, <2>4, <2>6, <2>9, ShortOn DEF Past, With
  <2>12. e.enc.out \o <<Comma>> = v.copy BY <2>9, AddedOne DEF Past, With
  <2>13. With(x, text, g, v) BY <2>2, <2>9, <2>10, <2>11 DEF Past, With, Moved
  <2>14. Awaiting(x, g, v) BY <1>2, <2>2, <2>9, <2>12 DEF Awaiting, Past
  <2>. QED BY <2>3, <2>5, <2>10, <2>13, <2>14 DEF Comes, Here
<1>3. CASE s.open # <<>> /\ ~(~AtEnd(e) /\ Token(e) = Comma)
  <2>1. AfterElement(e) = e
    <3>1. e.stack # <<>> /\ e.enc.ok = TRUE /\ ~(~AtEnd(e) /\ Token(e) = ",") BY <1>3 DEF Past, With, Comma
    <3>. QED BY <3>1, Zenon DEF AfterElement
  <2>2. Behind(e, s, w) BY <1>3 DEF Behind, Past
  <2>. QED BY <2>1, <2>2 DEF Comes, Here, Past, With
<1>. QED BY <1>1, <1>2, <1>3

LEMMA OpeningPushed ==
  ASSUME NEW o \in Seq(Marks), NEW m \in Marks PROVE Opening(Append(o, m)) = Opening(<<m>>)
<1>1. Append(o, m) # <<>> /\ Last(Append(o, m)) = m BY Pushed
<1>2. <<m>> # <<>> /\ Last(<<m>>) = m BY DEF Last
<1>. QED BY <1>1, <1>2 DEF Opening

\* Where a value is to come, and the encoder can take it.
ValueAt(d, text, s, w, nm, b) ==
  /\ With(d, text, s, w) /\ s.want \in AtValue /\ w.name = nm /\ b = BeginElement(d.enc, nm)
  /\ IsEncoder(b) /\ b.ok = TRUE /\ b.open = s.open /\ b.first = FALSE /\ b.out = w.copy /\ IsSequence(b.out)

Passed(d, run, tr, s, w) == s = run[d.pos] /\ w = tr[d.pos]

LEMMA ContainerComes ==
  ASSUME NEW text, NEW run, NEW tr, Course(text, run, tr), NEW d, NEW s, NEW w, Passed(d, run, tr, s, w),
         NEW nm, NEW b, ValueAt(d, text, s, w, nm, b), ~AtEnd(d), NEW t \in Marks, t = Token(d), ~Closes(s, t),
         NEW n \in Nat, d.pos >= n
  PROVE  Comes(Element(d, nm), n + 1, text, run, tr)
<1>0. Len(text) \in Nat /\ IsDecoder(d) /\ d.window = FALSE BY DEF Course, ValueAt, With
<1>1. PICK k \in 0..Len(text) : k = d.pos /\ k < Len(text) BY <1>0 DEF AtEnd, ValueAt, With
<1>2. PICK g, v : g = run[k + 1] /\ v = tr[k + 1] OBVIOUS
<1>3. text[k + 1] = t BY <1>1 DEF Token, ValueAt, With
<1>4. g = Grammar(s, t) /\ g.want # "error" BY <1>1, <1>2, <1>3, OnCourse DEF Passed
<1>5. v = Pass(w, t) BY <1>1, <1>2, <1>3, OnCourse DEF Passed
<1>6. /\ g.open = Append(s.open, t) /\ g.want = Opening(<<t>>) /\ t # Huge
      /\ v.path = Append(w.path, w.name) /\ v.name = Null /\ v.copy = Append(w.copy, t)
      /\ v.deep <=> Len(w.path) >= MaxDepth
  <2>1. s.want \in AtValue /\ Grammar(s, t).want # "error" BY <1>4 DEF ValueAt
  <2>2. g.open = Append(s.open, t) /\ g.want = Opening(<<t>>) /\ t # Huge BY <1>4, <2>1, MarkGoes
  <2>3. /\ v.path = Append(w.path, w.name) /\ v.name = Null /\ v.copy = Append(w.copy, t)
        /\ v.deep <=> w.deep \/ Len(w.path) >= MaxDepth
    BY <1>5, PassMark
  <2>4. ~w.deep BY DEF ValueAt, With
  <2>. QED BY <2>2, <2>3, <2>4
<1>7. PICK e : e = Refill(Began(d, nm, t)) OBVIOUS
<1>8. /\ Moved(d, e, 1) /\ e.enc = BeginContainer(d.enc, nm, t) /\ e.stack = Append(d.stack, t)
      /\ e.path = Append(d.path, nm)
  <2>1. InMemory(d) BY <1>0 DEF InMemory
  <2>. QED BY <1>7, <2>1, BeganMoves
<1>9. PICK c : c = e.enc OBVIOUS
<1>10. IsEncoder(c) /\ c.open = Append(b.open, t) /\ c.first = TRUE /\ c.ok = TRUE /\ c.out = b.out \o <<t>>
  <2>1. b = BeginElement(d.enc, nm) /\ IsEncoder(b) /\ b.ok = TRUE BY DEF ValueAt
  <2>2. PICK a : a = d.enc OBVIOUS
  <2>3. Able(a, nm, b) BY <2>1, <2>2 DEF Able
  <2>4. c = BeginContainer(a, nm, t) BY <1>8, <1>9, <2>2
  <2>5. Stands(c, Append(b.open, t), TRUE, b.out \o <<t>>) BY <2>3, <2>4, BeginContainerIs
  <2>. QED BY <2>5 DEF Stands
<1>11. Element(d, nm) = IF Len(w.path) >= MaxDepth THEN Stop(e, "too long") ELSE e
  <2>1. d.fix = TRUE /\ d.path = w.path BY DEF ValueAt, With
  <2>2. Element(d, nm) = IF d.fix /\ Len(d.path) >= MaxDepth THEN Stop(e, "too long") ELSE e
    BY <1>7, <1>9, <1>10, ElementOpens
  <2>. QED BY <2>1, <2>2
<1>21. CASE Len(w.path) >= MaxDepth
  <2>1. k + 1 \in 1..Len(text) BY <1>0, <1>1
  <2>2. tr[k + 1].deep BY <1>2, <1>6, <1>21
  <2>3. Broken(text, run, tr) BY <2>1, <2>2 DEF Broken
  <2>4. PICK r : r = "too long" OBVIOUS
  <2>5. r \notin {"running", "ok"} BY <2>4
  <2>6. IsDecoder(e) BY <1>8 DEF Moved
  <2>7. Comes(Stop(e, r), n + 1, text, run, tr) BY <2>3, <2>5, <2>6, StopComes
  <2>. QED BY <1>11, <1>21, <2>4, <2>7
<1>22. CASE ~(Len(w.path) >= MaxDepth)
  <2>12. c.out = v.copy /\ IsSequence(c.out)
    <3>1. b.out = w.copy /\ IsSequence(b.out) BY DEF ValueAt
    <3>. QED BY <1>6, <1>10, <3>1, AddedOne
  <2>13. e.pos = k + 1 /\ e.result = "running" /\ k + 1 \in 0..Len(text) /\ k + 1 >= n + 1
    BY <1>0, <1>1, <1>8 DEF Moved, ValueAt, With
  <2>14. Short(text, k + 1) BY <1>1, <1>3, <1>6, ShortOn DEF ValueAt, With
  <2>15. s.open \in Seq(Marks) /\ d.stack = s.open /\ b.open = s.open BY DEF ValueAt, With
  <2>16. g.open \in Seq(Marks) /\ g.open # <<>> /\ e.stack = g.open /\ c.open = g.open
    BY <1>6, <1>8, <1>10, <2>15, Pushed
  <2>17. e.path = v.path BY <1>6, <1>8 DEF ValueAt, With
  <2>18. With(e, text, g, v)
    BY <1>6, <1>8, <1>9, <1>10, <1>22, <2>12, <2>13, <2>14, <2>16, <2>17 DEF With, Moved, ValueAt
  <2>19. g.want = Opening(g.open) BY <1>6, <2>15, OpeningPushed
  <2>20. Entered(e, g, v) BY <1>6, <1>9, <1>10, <2>12, <2>16, <2>19 DEF Entered
  <2>. QED BY <1>2, <1>11, <1>22, <2>13, <2>18, <2>20 DEF Comes, Here
<1>. QED BY <1>21, <1>22

LEMMA ScalarComes ==
  ASSUME NEW text, NEW run, NEW tr, Course(text, run, tr), NEW d, NEW s, NEW w, Passed(d, run, tr, s, w),
         NEW nm, NEW b, ValueAt(d, text, s, w, nm, b), ~AtEnd(d), NEW t, t \notin Marks, t = Token(d), ~Closes(s, t),
         s.open # <<>>, NEW n \in Nat, d.pos >= n
  PROVE  Comes(Element(d, nm), n + 1, text, run, tr)
<1>0. Len(text) \in Nat /\ IsDecoder(d) /\ d.window = FALSE BY DEF Course, ValueAt, With
<1>1. PICK k \in 0..Len(text) : k = d.pos /\ k < Len(text) BY <1>0 DEF AtEnd, ValueAt, With
<1>2. PICK g, v : g = run[k + 1] /\ v = tr[k + 1] OBVIOUS
<1>3. text[k + 1] = t BY <1>1 DEF Token, ValueAt, With
<1>4. g = Grammar(s, t) /\ g.want # "error" /\ t # Control BY <1>1, <1>2, <1>3, OnCourse DEF Passed
<1>5. v = Pass(w, t) BY <1>1, <1>2, <1>3, OnCourse DEF Passed
<1>6. /\ Scalar(t) /\ g.open = s.open /\ g.want = (IF s.open = <<>> THEN "end" ELSE "after")
      /\ v.path = w.path /\ v.copy = Append(w.copy, InDates(w, t)) /\ (v.deep => w.deep)
  <2>1. s.want \in AtValue BY DEF ValueAt
  <2>. QED BY <1>4, <1>5, <2>1, ScalarSteps
<1>7. PICK x : x = InDates(w, t) OBVIOUS
<1>8. x = Fixed(d, nm, t) /\ x # Control
  <2>1. d.fix = TRUE /\ d.path = w.path /\ w.name = nm BY DEF ValueAt, With
  <2>. QED BY <1>4, <1>7, <2>1, FixedInDates
<1>9. \/ t = Huge /\ Element(d, nm) = Stop(d, "too long")
      \/ d.pos + 1 >= Len(d.buf) /\ Element(d, nm) = Stop(d, "incomplete")
      \/ t # Huge /\ Element(d, nm) = AfterElement(Refill(Added(d, nm, x)))
  BY <1>0, <1>6, <1>8, ElementTakes, Zenon
<1>10. CASE t = Huge /\ Element(d, nm) = Stop(d, "too long")
  <2>0. PICK r : r = "too long" OBVIOUS
  <2>1. r = "too long" /\ r \notin {"running", "ok"} BY <2>0
  <2>4. t = Huge BY <1>10, Zenon
  <2>2. Broken(text, run, tr)
    <3>1. k + 1 \in 1..Len(text) /\ text[k + 1] = Huge BY <1>0, <1>1, <1>3, <2>4
    <3>. QED BY <3>1 DEF Broken, Short
  <2>3. Comes(Stop(d, r), n + 1, text, run, tr) BY <1>0, <2>1, <2>2, StopComes
  <2>. QED BY <1>10, <2>1, <2>3, Zenon
<1>11. CASE d.pos + 1 >= Len(d.buf) /\ Element(d, nm) = Stop(d, "incomplete")
  <2>1. k + 1 = Len(text)
    <3>1. d.pos + 1 >= Len(text) BY <1>11 DEF ValueAt, With
    <3>. QED BY <1>0, <1>1, <3>1
  <2>2. Broken(text, run, tr) BY <1>2, <1>6, <2>1 DEF Broken
  <2>3. Comes(Stop(d, "incomplete"), n + 1, text, run, tr) BY <1>0, <2>2, StopComes
  <2>. QED BY <1>11, <2>3
<1>12. CASE t # Huge /\ Element(d, nm) = AfterElement(Refill(Added(d, nm, x)))
  <2>1. PICK e : e = Refill(Added(d, nm, x)) OBVIOUS
  <2>2. Moved(d, e, 1) /\ e.enc = AddElement(d.enc, nm, x) /\ e.stack = d.stack /\ e.path = d.path
    <3>1. InMemory(d) BY <1>0 DEF InMemory
    <3>. QED BY <2>1, <3>1, AddedMoves
  <2>3. PICK c : c = e.enc OBVIOUS
  <2>4. IsEncoder(c) /\ c.open = b.open /\ c.first = b.first /\ c.ok = TRUE /\ c.out = b.out \o <<x>>
    <3>1. b = BeginElement(d.enc, nm) /\ IsEncoder(b) /\ b.ok = TRUE BY DEF ValueAt
    <3>2. PICK a : a = d.enc OBVIOUS
    <3>3. Able(a, nm, b) BY <3>1, <3>2 DEF Able
    <3>4. c = AddElement(a, nm, x) BY <2>2, <2>3, <3>2
    <3>5. x # Control BY <1>8
    <3>6. Stands(c, b.open, b.first, b.out \o <<x>>) BY <3>3, <3>4, <3>5, AddElementIs
    <3>. QED BY <3>6 DEF Stands
  <2>5. c.out = v.copy /\ IsSequence(c.out)
    <3>1. b.out = w.copy /\ IsSequence(b.out) BY DEF ValueAt
    <3>. QED BY <1>6, <1>7, <2>4, <3>1, AddedOne
  <2>6. e.pos = k + 1 /\ e.result = "running" /\ k + 1 \in 0..Len(text) /\ k + 1 >= n + 1
    BY <1>0, <1>1, <2>2 DEF Moved, ValueAt, With
  <2>7. Short(text, k + 1) BY <1>1, <1>3, <1>12, ShortOn DEF ValueAt, With
  <2>8. With(e, text, g, v)
    BY <1>6, <2>2, <2>3, <2>4, <2>5, <2>6, <2>7 DEF With, Moved, ValueAt
  <2>9. Past(e, text, g, v) BY <1>6, <2>3, <2>4, <2>5, <2>8 DEF Past, ValueAt
  <2>10. n + 1 \in Nat /\ g = run[e.pos] /\ v = tr[e.pos] /\ e.pos >= n + 1 BY <1>2, <2>6
  <2>11. Comes(AfterElement(e), n + 1, text, run, tr) BY <2>9, <2>10, AfterComes
  <2>. QED BY <1>12, <2>1, <2>11
<1>. QED BY <1>9, <1>10, <1>11, <1>12

LEMMA OpeningIs ==
  ASSUME NEW o
  PROVE  /\ o = <<>> => Opening(o) \in AtValue
         /\ InAnObject(o) => Opening(o) \in AtName /\ Following(o) \in AtName
         /\ ~InAnObject(o) => Opening(o) \in AtValue /\ (o # <<>> => Following(o) \in AtValue)
         /\ Opening(o) # "end" /\ Following(o) # "end" /\ Following(o) \in {"name", "value"}
BY Zenon DEF Opening, Following, InAnObject, AtName, AtValue

LEMMA EnteredCloses ==
  ASSUME NEW s, s.open \in Seq(Marks), s.open # <<>>, s.want = Opening(s.open), NEW t, t = Closer(Last(s.open))
  PROVE  Closes(s, t)
<1>1. Last(s.open) \in Marks BY Popped
<1>2. PICK m : m = Last(s.open) OBVIOUS
<1>3. CASE m = "{"
  <2>1. s.want = "first name" /\ t = "}" BY <1>2, <1>3, Zenon DEF Opening, Closer
  <2>. QED BY <2>1, Zenon DEF Closes
<1>4. CASE m # "{"
  <2>1. s.want = "first value" /\ t = "]" BY <1>2, <1>4, Zenon DEF Opening, Closer
  <2>. QED BY <2>1, Zenon DEF Closes
<1>. QED BY <1>3, <1>4

LEMMA AfterOnly ==
  ASSUME NEW s, NEW t, s.want = "after", Grammar(s, t).want # "error", t # Comma PROVE Closes(s, t)
<1>1. t # "," BY Zenon DEF Comma
<1>. QED BY <1>1, AfterGoesOn, Zenon

LEMMA ClosesIs == ASSUME NEW s, NEW t, Closes(s, t) PROVE s.open # <<>> /\ t = Closer(Last(s.open)) /\ s.want # "value"
BY Zenon DEF Closes

\* Where an element is to come.
LEMMA BeginsHere ==
  ASSUME NEW text, NEW d, NEW s, NEW w, With(d, text, s, w), Entered(d, s, w) \/ Awaiting(d, s, w), NEW c, c = d.enc
  PROVE  Separated(c, w.copy) /\ IsSequence(w.copy)
<1>1. CASE Entered(d, s, w)
  <2>1. c.first = TRUE /\ c.out = w.copy BY <1>1 DEF Entered
  <2>2. PICK T : c.out \in Seq(T) BY DEF With, IsSequence
  <2>3. c.out \o <<>> = c.out BY <2>2
  <2>. QED BY <2>1, <2>3 DEF Separated, With
<1>2. CASE Awaiting(d, s, w)
  <2>1. c.first = FALSE /\ c.out \o <<Comma>> = w.copy BY <1>2 DEF Awaiting
  <2>2. IsSequence(c.out \o <<Comma>>) BY AddedOne DEF With
  <2>3. c.first # TRUE /\ c.first \in BOOLEAN BY <2>1
  <2>. QED BY <2>1, <2>2, <2>3 DEF Separated, With
<1>. QED BY <1>1, <1>2

LEMMA ValueHere ==
  ASSUME NEW text, NEW d, NEW s, NEW w, With(d, text, s, w), Entered(d, s, w) \/ Awaiting(d, s, w), ~InAnObject(s.open)
  PROVE  \E b : ValueAt(d, text, s, w, Null, b)
<1>1. PICK c : c = d.enc OBVIOUS
<1>2. Separated(c, w.copy) /\ IsSequence(w.copy) BY <1>1, BeginsHere
<1>3. c.open = s.open BY <1>1 DEF With
<1>4. PICK b : b = BeginElement(c, Null) OBVIOUS
<1>5. InAnObject(c.open) => Writable(Null) BY <1>3
<1>6. Stands(b, c.open, FALSE, Announced(c.open, Null, w.copy)) BY <1>2, <1>4, <1>5, BeginElementIs
<1>7. Announced(c.open, Null, w.copy) = w.copy BY <1>3 DEF Announced
<1>8. s.want \in AtValue /\ w.name = Null BY OpeningIs DEF Entered, Awaiting
<1>. QED BY <1>1, <1>2, <1>3, <1>4, <1>6, <1>7, <1>8 DEF ValueAt, Stands

LEMMA NotBehind ==
  ASSUME NEW d, NEW s, NEW w, ~AtEnd(d), NEW t, t = Token(d), Grammar(s, t).want # "error",
         s.open # <<>> => t # Closer(Last(s.open))
  PROVE  ~Behind(d, s, w)
<1>1. SUFFICES ASSUME Behind(d, s, w) PROVE FALSE OBVIOUS
<1>2. s.want = "after" /\ t # Comma BY <1>1 DEF Behind
<1>3. Closes(s, t) BY <1>2, AfterOnly
<1>. QED BY <1>3, ClosesIs

LEMMA EndComes ==
  ASSUME NEW text, NEW run, NEW tr, Course(text, run, tr), NEW d, NEW s, NEW w, Passed(d, run, tr, s, w),
         Here(d, text, s, w), ~AtEnd(d), s.open # <<>>, Token(d) = Closer(Last(s.open)), NEW n \in Nat, d.pos >= n
  PROVE  Comes(End(d), n + 1, text, run, tr)
<1>0. Len(text) \in Nat /\ Fixing(d) BY DEF Course, Here, With, Fixing, InMemory
<1>1. PICK k \in 0..Len(text) : k = d.pos /\ k < Len(text) BY <1>0 DEF AtEnd, Here, With
<1>2. PICK g, v : g = run[k + 1] /\ v = tr[k + 1] OBVIOUS
<1>3. PICK t : t = Token(d) OBVIOUS
<1>4. text[k + 1] = t BY <1>1, <1>3 DEF Token, Here, With
<1>5. g = Grammar(s, t) /\ g.want # "error" BY <1>1, <1>2, <1>4, OnCourse DEF Passed
<1>6. v = Pass(w, t) BY <1>1, <1>2, <1>4, OnCourse DEF Passed
<1>7. s.open \in Seq(Marks) BY DEF Here, With
<1>8. ~Awaiting(d, s, w)
  <2>1. SUFFICES ASSUME Awaiting(d, s, w) PROVE FALSE OBVIOUS
  <2>2. s.want \in {"name", "value"} BY <2>1, OpeningIs DEF Awaiting
  <2>3. PICK m : m = Last(s.open) OBVIOUS
  <2>4. Grammar(s, Closer(m)).want = "error" BY <2>2, NotAfterComma
  <2>. QED BY <1>3, <1>5, <2>3, <2>4
<1>9. Closes(s, t)
  <2>1. CASE Entered(d, s, w)
    <3>1. s.want = Opening(s.open) BY <2>1 DEF Entered
    <3>. QED BY <1>3, <1>7, <3>1, EnteredCloses
  <2>2. CASE Behind(d, s, w)
    <3>1. s.want = "after" BY <2>2 DEF Behind
    <3>. QED BY <1>3, <3>1, Zenon DEF Closes
  <2>. QED BY <1>8, <2>1, <2>2 DEF Here
<1>10. /\ g.open = Front(s.open) /\ g.want = (IF Front(s.open) = <<>> THEN "end" ELSE "after")
       /\ v.path = Front(w.path) /\ v.copy = Append(w.copy, t) /\ (v.deep => w.deep) /\ t # Huge
  BY <1>5, <1>6, <1>7, <1>9, CloserSteps
<1>11. PICK e : /\ Moved(d, e, 1) /\ e.enc = EndContainer(d.enc) /\ e.stack = Front(d.stack)
                /\ e.path = Front(d.path) /\ End(d) = AfterElement(e)
  BY <1>0, EndMoves
<1>12. PICK c : c = e.enc OBVIOUS
<1>13. d.enc.out = w.copy /\ IsSequence(d.enc.out) BY <1>8 DEF Here, Entered, Behind, With
<1>14. IsEncoder(c) /\ c.open = g.open /\ c.first = FALSE /\ c.ok = TRUE /\ c.out = d.enc.out \o <<t>>
  <2>1. PICK a : a = d.enc OBVIOUS
  <2>2. IsEncoder(a) /\ a.open = s.open BY <2>1 DEF Here, With
  <2>3. c = EndContainer(a) BY <1>11, <1>12, <2>1
  <2>4. a.open # <<>> /\ t = Closer(Last(a.open)) BY <1>3, <2>2
  <2>5. Stands(c, Front(a.open), FALSE, a.out \o <<t>>) BY <2>2, <2>3, <2>4, EndContainerIs
  <2>. QED BY <1>10, <2>1, <2>2, <2>5 DEF Stands
<1>15. c.out = v.copy /\ IsSequence(c.out) BY <1>10, <1>13, <1>14, AddedOne
<1>16. e.pos = k + 1 /\ e.result = "running" /\ k + 1 \in 0..Len(text) /\ k + 1 >= n + 1
  BY <1>0, <1>1, <1>11 DEF Moved, Here, With
<1>17. Short(text, k + 1) BY <1>1, <1>4, <1>10, ShortOn DEF Here, With
<1>18. g.open \in Seq(Marks) BY <1>7, <1>10, Popped
<1>19. e.stack = g.open /\ e.path = v.path BY <1>10, <1>11 DEF Here, With
<1>24. ~v.deep BY <1>10 DEF Here, With
<1>20. With(e, text, g, v)
  BY <1>11, <1>12, <1>14, <1>15, <1>16, <1>17, <1>18, <1>19, <1>24 DEF With, Moved, Here
<1>21. Past(e, text, g, v) BY <1>10, <1>12, <1>14, <1>15, <1>20 DEF Past
<1>22. n + 1 \in Nat /\ g = run[e.pos] /\ v = tr[e.pos] /\ e.pos >= n + 1 BY <1>2, <1>16
<1>23. Comes(AfterElement(e), n + 1, text, run, tr) BY <1>21, <1>22, AfterComes
<1>. QED BY <1>11, <1>23

\* An element that has no name: of an array, or the text itself.
LEMMA UnnamedComes ==
  ASSUME NEW text, NEW run, NEW tr, Course(text, run, tr), NEW d, NEW s, NEW w, Passed(d, run, tr, s, w),
         Here(d, text, s, w), ~AtEnd(d), ~InAnObject(s.open),
         s.open # <<>> => Token(d) # Closer(Last(s.open)), NEW n \in Nat, d.pos >= n
  PROVE  Comes(Element(d, Null), n + 1, text, run, tr)
<1>0. Len(text) \in Nat /\ d.pos \in 0..Len(text) BY DEF Course, Here, With
<1>1. PICK k \in 0..Len(text) : k = d.pos /\ k < Len(text) BY <1>0 DEF AtEnd, Here, With
<1>2. PICK t : t = Token(d) OBVIOUS
<1>3. text[k + 1] = t BY <1>1, <1>2 DEF Token, Here, With
<1>4. Grammar(s, t).want # "error"
  <2>1. run[k + 1] = Grammar(run[k], text[k + 1]) /\ run[k + 1].want # "error" BY <1>1, OnCourse
  <2>. QED BY <1>1, <1>3, <2>1 DEF Passed
<1>5. ~Closes(s, t) BY <1>2, ClosesIs
<1>6. Entered(d, s, w) \/ Awaiting(d, s, w) BY <1>2, <1>4, NotBehind DEF Here
<1>7. PICK b : ValueAt(d, text, s, w, Null, b) BY <1>6, ValueHere DEF Here
<1>8. CASE t \in Marks BY <1>2, <1>5, <1>7, <1>8, ContainerComes
<1>9. CASE t \notin Marks
  <2>1. s.open # <<>>
    <3>1. SUFFICES ASSUME s.open = <<>> PROVE FALSE OBVIOUS
    <3>2. d.pos = 0 BY <1>6, <3>1 DEF Entered, Awaiting
    <3>3. text[1] = t /\ Len(text) # 0 BY <1>1, <1>3, <3>2
    <3>. QED BY <1>9, <3>3 DEF Course
  <2>. QED BY <1>2, <1>5, <1>7, <1>9, <2>1, ScalarComes
<1>. QED BY <1>8, <1>9

LEMMA NamedIs ==
  ASSUME NEW d, d.window = FALSE, NEW t, t = Token(d), Strings(t), NEW u, u = d.buf[d.pos + 2], NEW x, x = Skip(d, 2)
  PROVE  \/ /\ \E r : r \notin {"running", "ok"} /\ Named(d) = Stop(d, r)
            /\ t = Huge \/ d.pos + 1 >= Len(d.buf) \/ (u # Colon /\ ~(d.pos + 1 >= Len(d.buf)))
               \/ (d.pos + 2 >= Len(d.buf) /\ ~(d.pos + 1 >= Len(d.buf)))
         \/ /\ t # Huge /\ u = Colon /\ ~(d.pos + 1 >= Len(d.buf)) /\ ~(d.pos + 2 >= Len(d.buf))
            /\ Named(d) = Element(x, t)
<1>1. t \notin NotStrings BY DEF Strings
<1>2. TooLong(d, t) <=> t = Huge BY DEF TooLong
<1>3. Colon = ":" BY DEF Colon
<1>4. PICK E : E = Element(x, t) OBVIOUS
<1>5. PICK a, b, c : a = Stop(d, "too long") /\ b = Stop(d, "incomplete") /\ c = Stop(d, "invalid") OBVIOUS
<1>6. \A y \in {a, b, c} : \E r : r \notin {"running", "ok"} /\ y = Stop(d, r) BY <1>5, Zenon
<1>. DEFINE L1 == d.pos + 1 >= Len(d.buf)
            L2 == d.pos + 2 >= Len(d.buf)
<1>7. Named(d) = IF t \in NotStrings THEN c ELSE IF TooLong(d, t) THEN a ELSE IF L1 THEN b
                 ELSE IF u # Colon THEN c ELSE IF L2 THEN b ELSE E
  BY <1>3, <1>4, <1>5, Zenon DEF Named
<1>. HIDE DEF L1, L2
<1>8. \/ t = Huge /\ Named(d) = a
      \/ L1 /\ Named(d) = b
      \/ u # Colon /\ ~L1 /\ Named(d) = c
      \/ L2 /\ ~L1 /\ Named(d) = b
      \/ t # Huge /\ u = Colon /\ ~L1 /\ ~L2 /\ Named(d) = E
  BY <1>1, <1>2, <1>7, Zenon
<1>. QED BY <1>4, <1>6, <1>8, Zenon DEF L1, L2

Colons(text, k, g, v, h, y) ==
  /\ text[k] = Colon /\ Colon # Huge /\ h.open = g.open /\ h.want = "value"
  /\ y.path = v.path /\ y.name = v.name /\ y.copy = Append(v.copy, Colon) /\ (y.deep => v.deep)
Reaches(run, tr, j, g, v) == g = run[j] /\ v = tr[j]

LEMMA ColonNext ==
  ASSUME NEW text, NEW run, NEW tr, Course(text, run, tr), NEW k \in Nat, k + 1 < Len(text),
         NEW g, NEW v, Reaches(run, tr, k + 1, g, v), g.want = "colon", NEW h, NEW y, Reaches(run, tr, k + 2, h, y)
  PROVE  Colons(text, k + 2, g, v, h, y)
<1>0. Len(text) \in Nat BY DEF Course
<1>1. PICK j \in 0..Len(text) : j = k + 1 /\ j < Len(text) /\ j + 1 = k + 2 BY <1>0
<1>2. PICK u : u = text[k + 2] OBVIOUS
<1>3. h = Grammar(g, u) /\ h.want # "error" /\ y = Pass(v, u)
  <2>1. /\ run[j + 1] = Grammar(run[j], text[j + 1]) /\ run[j + 1].want # "error"
        /\ tr[j + 1] = Pass(tr[j], text[j + 1])
    BY <1>1, OnCourse
  <2>. QED BY <1>1, <1>2, <2>1 DEF Reaches
<1>4. /\ u = Colon /\ h.open = g.open /\ h.want = "value" /\ u # Huge
      /\ y.path = v.path /\ y.name = v.name /\ y.copy = Append(v.copy, u) /\ (y.deep => v.deep)
  BY <1>3, ColonSteps
<1>. QED BY <1>2, <1>4 DEF Colons

LEMMA NamedComes ==
  ASSUME NEW text, NEW run, NEW tr, Course(text, run, tr), NEW d, NEW s, NEW w, Passed(d, run, tr, s, w),
         Here(d, text, s, w), ~AtEnd(d), InAnObject(s.open), Token(d) # Closer(Last(s.open)),
         NEW n \in Nat, d.pos >= n
  PROVE  Comes(Named(d), n + 1, text, run, tr)
<1>0. Len(text) \in Nat /\ d.pos \in 0..Len(text) /\ d.buf = text /\ IsDecoder(d) /\ d.window = FALSE
  BY DEF Course, Here, With
<1>1. PICK k \in 0..Len(text) : k = d.pos /\ k < Len(text) BY <1>0 DEF AtEnd
<1>2. PICK t : t = Token(d) OBVIOUS
<1>3. text[k + 1] = t BY <1>0, <1>1, <1>2 DEF Token
<1>4. PICK g, v : g = run[k + 1] /\ v = tr[k + 1] OBVIOUS
<1>5. g = Grammar(s, t) /\ g.want # "error" /\ t # Control BY <1>1, <1>3, <1>4, OnCourse DEF Passed
<1>6. v = Pass(w, t) BY <1>1, <1>3, <1>4, OnCourse DEF Passed
<1>7. ~Closes(s, t) BY <1>2, ClosesIs
<1>8. Entered(d, s, w) \/ Awaiting(d, s, w) BY <1>2, <1>5, NotBehind DEF Here
<1>9. s.want \in AtName BY <1>8, OpeningIs DEF Entered, Awaiting
<1>10. /\ Strings(t) /\ g.open = s.open /\ g.want = "colon"
       /\ v.path = w.path /\ v.name = t /\ v.copy = Append(w.copy, t) /\ (v.deep => w.deep)
  BY <1>5, <1>6, <1>7, <1>9, NameSteps
<1>11. PICK u, x : u = d.buf[d.pos + 2] /\ x = Skip(d, 2) OBVIOUS
<1>12. \/ /\ \E r : r \notin {"running", "ok"} /\ Named(d) = Stop(d, r)
          /\ t = Huge \/ d.pos + 1 >= Len(d.buf) \/ (u # Colon /\ ~(d.pos + 1 >= Len(d.buf)))
               \/ (d.pos + 2 >= Len(d.buf) /\ ~(d.pos + 1 >= Len(d.buf)))
       \/ /\ t # Huge /\ u = Colon /\ ~(d.pos + 1 >= Len(d.buf)) /\ ~(d.pos + 2 >= Len(d.buf))
          /\ Named(d) = Element(x, t)
  BY <1>0, <1>2, <1>10, <1>11, NamedIs
<1>13. PICK h, y : h = run[k + 2] /\ y = tr[k + 2] OBVIOUS
<1>14. ASSUME k + 1 < Len(text)
       PROVE  /\ u = Colon /\ Colon # Huge /\ h.open = s.open /\ h.want = "value" /\ text[k + 2] = Colon
              /\ y.path = w.path /\ y.name = t /\ y.copy = Append(Append(w.copy, t), Colon)
              /\ (y.deep => w.deep)
  <2>1. k \in Nat BY <1>1
  <2>2. /\ text[k + 2] = Colon /\ Colon # Huge /\ h.open = g.open /\ h.want = "value"
        /\ y.path = v.path /\ y.name = v.name /\ y.copy = Append(v.copy, Colon) /\ (y.deep => v.deep)
    <3>1. g.want = "colon" BY <1>10
    <3>2. Reaches(run, tr, k + 1, g, v) /\ Reaches(run, tr, k + 2, h, y) BY <1>4, <1>13 DEF Reaches
    <3>3. Colons(text, k + 2, g, v, h, y) BY <1>14, <2>1, <3>1, <3>2, ColonNext
    <3>. QED BY <3>3 DEF Colons
  <2>3. u = text[k + 2] BY <1>0, <1>1, <1>11
  <2>. QED BY <1>10, <2>2, <2>3
<1>15. CASE /\ \E r : r \notin {"running", "ok"} /\ Named(d) = Stop(d, r)
            /\ t = Huge \/ d.pos + 1 >= Len(d.buf) \/ (u # Colon /\ ~(d.pos + 1 >= Len(d.buf)))
               \/ (d.pos + 2 >= Len(d.buf) /\ ~(d.pos + 1 >= Len(d.buf)))
  <2>1. Broken(text, run, tr)
    <3>1. CASE t = Huge
      <4>1. k + 1 \in 1..Len(text) /\ text[k + 1] = Huge BY <1>0, <1>1, <1>3, <3>1
      <4>. QED BY <4>1 DEF Broken, Short
    <3>2. CASE k + 1 >= Len(text)
      <4>1. k + 1 = Len(text) BY <1>0, <1>1, <3>2
      <4>. QED BY <1>4, <1>10, <4>1 DEF Broken
    <3>3. CASE k + 1 < Len(text) /\ (u # Colon \/ k + 2 >= Len(text))
      <4>1. u = Colon /\ h.want = "value" BY <1>14, <3>3
      <4>2. k + 2 = Len(text) BY <1>0, <1>1, <3>3, <4>1
      <4>. QED BY <1>13, <4>1, <4>2 DEF Broken
    <3>. QED BY <1>0, <1>1, <1>15, <3>1, <3>2, <3>3
  <2>2. PICK r : r \notin {"running", "ok"} /\ Named(d) = Stop(d, r) BY <1>15
  <2>. QED BY <1>0, <2>1, <2>2, StopComes
<1>16. CASE /\ t # Huge /\ u = Colon /\ ~(d.pos + 1 >= Len(d.buf)) /\ ~(d.pos + 2 >= Len(d.buf))
            /\ Named(d) = Element(x, t)
  <2>0. k + 1 < Len(text) /\ k + 2 < Len(text) BY <1>0, <1>1, <1>16
  <2>1. Moved(d, x, 2) /\ x.enc = d.enc /\ x.stack = d.stack /\ x.path = d.path BY <1>0, <1>11, SkipMoves
  <2>2. PICK c : c = d.enc OBVIOUS
  <2>3. Separated(c, w.copy) /\ IsSequence(w.copy) BY <1>8, <2>2, BeginsHere DEF Here
  <2>4. PICK b : b = BeginElement(c, t) OBVIOUS
  <2>5. c.open = s.open BY <2>2 DEF Here, With
  <2>6. Writable(t) BY <1>5, <1>10 DEF Writable
  <2>7. Stands(b, c.open, FALSE, Announced(c.open, t, w.copy)) BY <2>3, <2>4, <2>6, BeginElementIs
  <2>8. Announced(c.open, t, w.copy) = w.copy \o <<t, Colon>> BY <2>5 DEF Announced
  <2>9. w.copy \o <<t, Colon>> = y.copy /\ IsSequence(y.copy)
    <3>1. PICK f : f = w.copy \o <<t>> OBVIOUS
    <3>2. f = Append(w.copy, t) /\ IsSequence(f) BY <2>3, <3>1, AddedOne
    <3>3. f \o <<Colon>> = Append(f, Colon) /\ IsSequence(f \o <<Colon>>) BY <3>2, AddedOne
    <3>4. PICK T : w.copy \in Seq(T) BY <2>3 DEF IsSequence
    <3>5. (w.copy \o <<t>>) \o <<Colon>> = w.copy \o <<t, Colon>> BY <3>4, AppendedTwice
    <3>. QED BY <1>14, <2>0, <3>1, <3>2, <3>3, <3>5
  <2>10. x.pos = k + 2 /\ x.result = "running" /\ k + 2 \in 0..Len(text) /\ x.pos >= n /\ x.buf = text
    BY <1>0, <1>1, <2>0, <2>1 DEF Moved, Here, With
  <2>11. Short(text, k + 2)
    <3>1. Short(text, k + 1) BY <1>1, <1>3, <1>16, ShortOn DEF Here, With
    <3>2. PICK j \in Nat : j = k + 1 /\ j + 1 = k + 2 BY <1>1
    <3>3. text[j + 1] # Huge BY <1>14, <2>0, <3>2
    <3>4. Short(text, j + 1) BY <3>1, <3>2, <3>3, ShortOn
    <3>. QED BY <3>2, <3>4
  <2>12. h.open = s.open /\ y.path = w.path /\ h.want = "value" /\ y.name = t /\ (y.deep => w.deep) BY <1>14, <2>0
  <2>13. With(x, text, h, y) BY <2>1, <2>10, <2>11, <2>12 DEF With, Moved, Here
  <2>14. ValueAt(x, text, h, y, t, b)
    BY <2>1, <2>2, <2>4, <2>5, <2>7, <2>8, <2>9, <2>12, <2>13 DEF ValueAt, Stands, AtValue
  <2>15. Passed(x, run, tr, h, y) BY <1>13, <2>10 DEF Passed
  <2>16. ~AtEnd(x) BY <1>0, <1>1, <2>0, <2>10 DEF AtEnd
  <2>17. PICK z : z = Token(x) OBVIOUS
  <2>18. ~Closes(h, z) BY <2>12, ClosesIs
  <2>19. h.open # <<>> BY <2>12 DEF InAnObject
  <2>20. CASE z \in Marks
    <3>1. Comes(Element(x, t), n + 1, text, run, tr) BY <2>10, <2>14, <2>15, <2>16, <2>17, <2>18, <2>20, ContainerComes
    <3>. QED BY <1>16, <3>1
  <2>21. CASE z \notin Marks
    <3>1. Comes(Element(x, t), n + 1, text, run, tr)
      BY <2>10, <2>14, <2>15, <2>16, <2>17, <2>18, <2>19, <2>21, ScalarComes
    <3>. QED BY <1>16, <3>1
  <2>. QED BY <2>20, <2>21
<1>. QED BY <1>12, <1>15, <1>16

LEMMA DecodeStepComes ==
  ASSUME NEW text, NEW run, NEW tr, Course(text, run, tr), NEW d, NEW n \in Nat,
         Comes(d, n, text, run, tr), d.result = "running"
  PROVE  Comes(DecodeStep(d), n + 1, text, run, tr)
<1>1. PICK s, w : Passed(d, run, tr, s, w) BY DEF Passed
<1>2. Here(d, text, s, w) /\ d.pos >= n BY <1>1 DEF Comes, Passed
<1>3. d.stack = s.open /\ s.open \in Seq(Marks) /\ d.top = Null /\ IsDecoder(d) /\ d.buf = text
  BY <1>2 DEF Here, With
<1>4. CASE AtEnd(d)
  <2>1. d.pos = Len(text) BY <1>2, <1>3, <1>4 DEF AtEnd, Here, With, Course
  <2>2. s.want # "end" BY <1>2, OpeningIs DEF Here, Entered, Awaiting, Behind
  <2>3. Broken(text, run, tr) BY <1>1, <2>1, <2>2 DEF Passed, Broken
  <2>4. n + 1 \in Nat /\ "incomplete" \notin {"running", "ok"} OBVIOUS
  <2>5. Comes(Stop(d, "incomplete"), n + 1, text, run, tr) BY <1>3, <2>3, <2>4, StopComes
  <2>. QED BY <1>4, <2>5 DEF DecodeStep
<1>5. CASE ~AtEnd(d) /\ s.open = <<>>
  <2>1. ~InAnObject(s.open) BY <1>5 DEF InAnObject
  <2>2. Comes(Element(d, Null), n + 1, text, run, tr) BY <1>1, <1>2, <1>5, <2>1, UnnamedComes
  <2>3. DecodeStep(d) = Element(d, Null) BY <1>3, <1>5, Zenon DEF DecodeStep
  <2>. QED BY <2>2, <2>3
<1>6. CASE ~AtEnd(d) /\ s.open # <<>> /\ Token(d) = Closer(Last(s.open))
  <2>1. Comes(End(d), n + 1, text, run, tr) BY <1>1, <1>2, <1>6, EndComes
  <2>2. DecodeStep(d) = End(d) BY <1>3, <1>6, Zenon DEF DecodeStep
  <2>. QED BY <2>1, <2>2
<1>7. CASE ~AtEnd(d) /\ s.open # <<>> /\ Token(d) # Closer(Last(s.open)) /\ ~InAnObject(s.open)
  <2>1. Comes(Element(d, Null), n + 1, text, run, tr) BY <1>1, <1>2, <1>7, UnnamedComes
  <2>2. Last(s.open) = "["
    <3>1. Last(s.open) \in Marks /\ Last(s.open) # "{" BY <1>3, <1>7, Popped DEF InAnObject
    <3>. QED BY <3>1, Zenon DEF Marks
  <2>3. DecodeStep(d) = Element(d, Null) BY <1>3, <1>7, <2>2, Zenon DEF DecodeStep
  <2>. QED BY <2>1, <2>3
<1>8. CASE ~AtEnd(d) /\ Token(d) # Closer(Last(s.open)) /\ InAnObject(s.open)
  <2>1. Comes(Named(d), n + 1, text, run, tr) BY <1>1, <1>2, <1>8, NamedComes
  <2>2. Last(s.open) = "{" /\ s.open # <<>> BY <1>8 DEF InAnObject
  <2>3. Last(s.open) # "[" BY <2>2, Zenon
  <2>4. DecodeStep(d) = Named(d) BY <1>3, <1>8, <2>2, <2>3, Zenon DEF DecodeStep
  <2>. QED BY <2>1, <2>4
<1>. QED BY <1>4, <1>5, <1>6, <1>7, <1>8 DEF InAnObject

-----------------------------------------------------------------------------
\* Its rounds suffice for a whole text: each step takes a token, or is the last.
LEMMA Decodes1Comes ==
  ASSUME NEW text, NEW run, NEW tr, Course(text, run, tr), NEW d, NEW n \in Nat, Comes(d, n, text, run, tr),
         NEW times \in Nat, NEW f, Decodes1(d, times, f)
  PROVE  Comes(f[times], n + times, text, run, tr)
<1>1. f[0] = d /\ \A i \in 0..times : i < times => f[i + 1] = IF Running(f[i]) THEN DecodeStep(f[i]) ELSE f[i]
  BY Decodes1Step
<1>. DEFINE S == {i \in 0..times : Comes(f[i], n + i, text, run, tr)}
<1>. HIDE DEF S
<1>2. 0 \in S
  <2>1. n + 0 = n /\ 0 \in 0..times OBVIOUS
  <2>. QED BY <1>1, <2>1 DEF S
<1>3. ASSUME NEW i \in 0..times, i \in S, i < times PROVE i + 1 \in S
  <2>1. f[i + 1] = IF Running(f[i]) THEN DecodeStep(f[i]) ELSE f[i] BY <1>1, <1>3
  <2>2. PICK e, k, l : e = f[i] /\ k = n + i /\ l = n + i + 1 OBVIOUS
  <2>3. k \in Nat /\ l = k + 1 BY <2>2
  <2>4. Comes(e, k, text, run, tr) BY <1>3, <2>2 DEF S
  <2>5. ASSUME Running(e) PROVE Comes(f[i + 1], l, text, run, tr)
    <3>1. e.result = "running" BY <2>5 DEF Running
    <3>2. Comes(DecodeStep(e), k + 1, text, run, tr) BY <2>3, <2>4, <3>1, DecodeStepComes
    <3>3. f[i + 1] = DecodeStep(e) BY <2>1, <2>2, <2>5
    <3>. QED BY <2>3, <3>2, <3>3
  <2>6. ASSUME ~Running(e) PROVE Comes(f[i + 1], l, text, run, tr)
    <3>1. e.result # "running" BY <2>6 DEF Running
    <3>2. Comes(e, l, text, run, tr) BY <2>4, <3>1 DEF Comes
    <3>3. f[i + 1] = e BY <2>1, <2>2, <2>6
    <3>. QED BY <3>2, <3>3
  <2>7. Comes(f[i + 1], l, text, run, tr) BY <2>5, <2>6
  <2>8. i + 1 \in 0..times BY <1>3
  <2>. QED BY <2>2, <2>7, <2>8 DEF S
<1>4. \A i \in 0..times : i \in S BY <1>2, <1>3, Upward
<1>. QED BY <1>4 DEF S

LEMMA Steps8Comes ==
  ASSUME NEW text, NEW run, NEW tr, Course(text, run, tr), NEW d, NEW n \in Nat, Comes(d, n, text, run, tr)
  PROVE  Comes(Steps8(d), n + 8, text, run, tr)
<1>1. PICK f : Decodes1(d, 8, f) /\ Steps8(d) = f[8] BY Steps8Is
<1>2. Comes(f[8], n + 8, text, run, tr) BY <1>1, Decodes1Comes
<1>. QED BY <1>1, <1>2

LEMMA Decodes8Comes ==
  ASSUME NEW text, NEW run, NEW tr, Course(text, run, tr), NEW d, NEW n \in Nat, Comes(d, n, text, run, tr),
         NEW times \in Nat, NEW f, Decodes8(d, times, f)
  PROVE  Comes(f[times], n + 8 * times, text, run, tr)
<1>1. f[0] = d /\ \A i \in 0..times : i < times => f[i + 1] = IF Running(f[i]) THEN Steps8(f[i]) ELSE f[i]
  BY Decodes8Step
<1>. DEFINE S == {i \in 0..times : Comes(f[i], n + 8 * i, text, run, tr)}
<1>. HIDE DEF S
<1>2. 0 \in S
  <2>1. n + 8 * 0 = n /\ 0 \in 0..times OBVIOUS
  <2>. QED BY <1>1, <2>1 DEF S
<1>3. ASSUME NEW i \in 0..times, i \in S, i < times PROVE i + 1 \in S
  <2>1. f[i + 1] = IF Running(f[i]) THEN Steps8(f[i]) ELSE f[i] BY <1>1, <1>3
  <2>2. PICK e, k, l : e = f[i] /\ k = n + 8 * i /\ l = n + 8 * (i + 1) OBVIOUS
  <2>3. k \in Nat /\ l = k + 8 BY <2>2
  <2>4. Comes(e, k, text, run, tr) BY <1>3, <2>2 DEF S
  <2>5. ASSUME Running(e) PROVE Comes(f[i + 1], l, text, run, tr)
    <3>2. Comes(Steps8(e), k + 8, text, run, tr) BY <2>3, <2>4, Steps8Comes
    <3>3. f[i + 1] = Steps8(e) BY <2>1, <2>2, <2>5
    <3>. QED BY <2>3, <3>2, <3>3
  <2>6. ASSUME ~Running(e) PROVE Comes(f[i + 1], l, text, run, tr)
    <3>1. e.result # "running" BY <2>6 DEF Running
    <3>2. Comes(e, l, text, run, tr) BY <2>4, <3>1 DEF Comes
    <3>3. f[i + 1] = e BY <2>1, <2>2, <2>6
    <3>. QED BY <3>2, <3>3
  <2>7. Comes(f[i + 1], l, text, run, tr) BY <2>5, <2>6
  <2>8. i + 1 \in 0..times BY <1>3
  <2>. QED BY <2>2, <2>7, <2>8 DEF S
<1>4. \A i \in 0..times : i \in S BY <1>2, <1>3, Upward
<1>. QED BY <1>4 DEF S

LEMMA Steps64Comes ==
  ASSUME NEW text, NEW run, NEW tr, Course(text, run, tr), NEW d, NEW n \in Nat, Comes(d, n, text, run, tr)
  PROVE  Comes(Steps64(d), n + 64, text, run, tr)
<1>1. PICK f : Decodes8(d, 8, f) /\ Steps64(d) = f[8] BY Steps64Is
<1>2. Comes(f[8], n + 8 * 8, text, run, tr) BY <1>1, Decodes8Comes
<1>. QED BY <1>1, <1>2

LEMMA Decodes64Comes ==
  ASSUME NEW text, NEW run, NEW tr, Course(text, run, tr), NEW d, NEW n \in Nat, Comes(d, n, text, run, tr),
         NEW times \in Nat, NEW f, Decodes64(d, times, f)
  PROVE  Comes(f[times], n + 64 * times, text, run, tr)
<1>1. f[0] = d /\ \A i \in 0..times : i < times => f[i + 1] = IF Running(f[i]) THEN Steps64(f[i]) ELSE f[i]
  BY Decodes64Step
<1>. DEFINE S == {i \in 0..times : Comes(f[i], n + 64 * i, text, run, tr)}
<1>. HIDE DEF S
<1>2. 0 \in S
  <2>1. n + 64 * 0 = n /\ 0 \in 0..times OBVIOUS
  <2>. QED BY <1>1, <2>1 DEF S
<1>3. ASSUME NEW i \in 0..times, i \in S, i < times PROVE i + 1 \in S
  <2>1. f[i + 1] = IF Running(f[i]) THEN Steps64(f[i]) ELSE f[i] BY <1>1, <1>3
  <2>2. PICK e, k, l : e = f[i] /\ k = n + 64 * i /\ l = n + 64 * (i + 1) OBVIOUS
  <2>3. k \in Nat /\ l = k + 64 BY <2>2
  <2>4. Comes(e, k, text, run, tr) BY <1>3, <2>2 DEF S
  <2>5. ASSUME Running(e) PROVE Comes(f[i + 1], l, text, run, tr)
    <3>2. Comes(Steps64(e), k + 64, text, run, tr) BY <2>3, <2>4, Steps64Comes
    <3>3. f[i + 1] = Steps64(e) BY <2>1, <2>2, <2>5
    <3>. QED BY <2>3, <3>2, <3>3
  <2>6. ASSUME ~Running(e) PROVE Comes(f[i + 1], l, text, run, tr)
    <3>1. e.result # "running" BY <2>6 DEF Running
    <3>2. Comes(e, l, text, run, tr) BY <2>4, <3>1 DEF Comes
    <3>3. f[i + 1] = e BY <2>1, <2>2, <2>6
    <3>. QED BY <3>2, <3>3
  <2>7. Comes(f[i + 1], l, text, run, tr) BY <2>5, <2>6
  <2>8. i + 1 \in 0..times BY <1>3
  <2>. QED BY <2>2, <2>7, <2>8 DEF S
<1>4. \A i \in 0..times : i \in S BY <1>2, <1>3, Upward
<1>. QED BY <1>4 DEF S

LEMMA RoundsEnough ==
  ASSUME NEW a \in Nat PROVE (2 * a + 0) \div 64 + 1 \in Nat /\ 64 * ((2 * a + 0) \div 64 + 1) > a
OBVIOUS

LEMMA StartsHere ==
  ASSUME NEW text, NEW run, NEW tr, Course(text, run, tr),
         NEW d, d = Decoder(text, 0, <<>>, FALSE, Null, BeginEncode, TRUE, TRUE)
  PROVE  Comes(d, 0, text, run, tr)
<1>0. Len(text) \in Nat /\ 0 \in 0..Len(text) BY DEF Course
<1>1. PICK s, w : s = run[0] /\ w = tr[0] OBVIOUS
<1>2. s = Start /\ w = Outset BY <1>1 DEF Course, Reading, Passing
<1>3. s.open = <<>> /\ s.want = "value" BY <1>2 DEF Start, State
<1>4. w.path = <<>> /\ w.name = Null /\ w.copy = <<>> /\ ~w.deep BY <1>2 DEF Outset
<1>5. PICK c : c = BeginEncode OBVIOUS
<1>6. IsEncoder(c) /\ c.open = <<>> /\ c.out = <<>> /\ c.first = TRUE BY <1>5 DEF BeginEncode, IsEncoder
<1>7. /\ IsDecoder(d) /\ d.buf = text /\ d.window = FALSE /\ d.fix = TRUE /\ d.top = Null /\ d.result = "running"
      /\ d.pos = 0 /\ d.stack = <<>> /\ d.path = <<>> /\ d.enc = c
  BY <1>5 DEF Decoder, IsDecoder
<1>8. Short(text, 0) BY DEF Short
<1>9. IsSequence(c.out)
  <2>1. c.out \in Seq({}) BY <1>6
  <2>. QED BY <2>1 DEF IsSequence
<1>10. s.open \in Seq(Marks) BY <1>3
<1>11. With(d, text, s, w) BY <1>0, <1>3, <1>4, <1>6, <1>7, <1>8, <1>9, <1>10 DEF With
<1>12. s.want = Opening(s.open) BY <1>3, Zenon DEF Opening
<1>13. Entered(d, s, w) BY <1>3, <1>4, <1>6, <1>7, <1>12 DEF Entered
<1>14. Here(d, text, run[d.pos], tr[d.pos])
  <2>1. Here(d, text, s, w) BY <1>11, <1>13 DEF Here
  <2>. QED BY <1>1, <1>7, <2>1
<1>15. d.pos >= 0
  <2>1. d.pos = 0 BY <1>7
  <2>2. 0 >= 0 OBVIOUS
  <2>. QED BY <2>1, <2>2, Zenon
<1>. QED BY <1>7, <1>14, <1>15 DEF Comes

\* Once too deep, always so.
LEMMA DeepStays ==
  ASSUME NEW text, Len(text) \in Nat, NEW tr, Passing(text, tr), NEW i \in 1..Len(text), tr[i].deep
  PROVE  tr[Len(text)].deep
<1>1. PICK n \in Nat : n = Len(text) - i /\ i + n = Len(text) OBVIOUS
<1>. DEFINE S == {j \in 0..n : tr[i + j].deep}
<1>. HIDE DEF S
<1>2. 0 \in S
  <2>1. i + 0 = i /\ 0 \in 0..n OBVIOUS
  <2>. QED BY <2>1 DEF S
<1>3. ASSUME NEW j \in 0..n, j \in S, j < n PROVE j + 1 \in S
  <2>1. PICK k \in 1..Len(text) : k = i + (j + 1) /\ k - 1 = i + j BY <1>1, <1>3
  <2>2. tr[k] = Pass(tr[k - 1], text[k]) BY DEF Passing
  <2>3. PICK w, t, x : w = tr[k - 1] /\ t = text[k] /\ x = tr[k] OBVIOUS
  <2>4. w.deep BY <1>3, <2>1, <2>3 DEF S
  <2>5. x = Pass(w, t) BY <2>2, <2>3
  <2>6. x.deep BY <2>4, <2>5, PassIs, Zenon DEF DeepAfter
  <2>7. j + 1 \in 0..n BY <1>3
  <2>. QED BY <2>1, <2>3, <2>6, <2>7 DEF S
<1>4. \A j \in 0..n : j \in S BY <1>2, <1>3, Upward
<1>5. n \in S BY <1>4
<1>. QED BY <1>1, <1>5 DEF S

\* The fixer takes a text exactly if it is whole and nothing in it is too long or too deep, and
\* changes nothing but the dates.
Kept(x, text, run, tr) ==
  IF run[Len(text)].want = "end" /\ Short(text, Len(text)) /\ ~tr[Len(text)].deep THEN x.ok /\ x.out = tr[Len(text)].copy ELSE ~x.ok
LEMMA FixIs ==
  ASSUME NEW text, NEW run, NEW tr, Course(text, run, tr) PROVE Kept(Fix(text), text, run, tr)
<1>0. Len(text) \in Nat BY DEF Course
<1>1. PICK d : d = Decoder(text, 0, <<>>, FALSE, Null, BeginEncode, TRUE, TRUE) OBVIOUS
<1>2. Comes(d, 0, text, run, tr) BY <1>1, StartsHere
<1>3. Len(d.buf) = Len(text) /\ Len(d.file) = 0 BY <1>1 DEF Decoder
<1>4. PICK rounds \in Nat : rounds = (2 * Len(d.buf) + Len(d.file)) \div 64 + 1 /\ 64 * rounds > Len(text)
  BY <1>0, <1>3, RoundsEnough
<1>5. PICK f : Decodes64(d, rounds, f) /\ Decode(d) = f[rounds] BY <1>4, DecodeIs
<1>6. PICK e : e = Decode(d) OBVIOUS
<1>7. PICK m \in Nat : m > Len(text) /\ Comes(e, m, text, run, tr)
  <2>1. 0 \in Nat OBVIOUS
  <2>2. Comes(e, 0 + 64 * rounds, text, run, tr) BY <1>2, <1>5, <1>6, <2>1, Decodes64Comes
  <2>3. PICK m \in Nat : m = 64 * rounds OBVIOUS
  <2>4. 0 + 64 * rounds = m BY <2>3
  <2>. QED BY <1>4, <2>2, <2>3, <2>4
<1>8. e.result # "running"
  <2>1. SUFFICES ASSUME e.result = "running" PROVE FALSE OBVIOUS
  <2>2. e.pos >= m /\ e.pos \in 0..Len(text) BY <1>7, <2>1 DEF Comes, Here, With
  <2>. QED BY <1>0, <1>7, <2>2
<1>9. PICK x : x = Fix(text) OBVIOUS
<1>10. x = [ok |-> e.result = "ok", out |-> EndEncode(e.enc).out] BY <1>1, <1>6, <1>9, Zenon DEF Fix
<1>11. CASE e.result = "ok"
  <2>1. /\ run[Len(text)].want = "end" /\ Short(text, Len(text)) /\ ~tr[Len(text)].deep
        /\ e.enc.open = <<>> /\ e.enc.out = tr[Len(text)].copy
    BY <1>7, <1>11 DEF Comes
  <2>2. PICK c : c = e.enc OBVIOUS
  <2>3. EndEncode(c) = c BY <2>1, <2>2, NothingToEnd
  <2>4. x.ok /\ x.out = c.out BY <1>10, <1>11, <2>2, <2>3
  <2>. QED BY <1>9, <2>1, <2>2, <2>4 DEF Kept
<1>12. CASE e.result # "ok"
  <2>1. Broken(text, run, tr) BY <1>7, <1>8, <1>12 DEF Comes
  <2>2. ~x.ok BY <1>10, <1>12
  <2>3. Passing(text, tr) BY DEF Course
  <2>4. run[Len(text)].want # "end" \/ ~Short(text, Len(text)) \/ tr[Len(text)].deep
    BY <1>0, <2>1, <2>3, DeepStays DEF Broken
  <2>. QED BY <1>9, <2>2, <2>4 DEF Kept
<1>. QED BY <1>11, <1>12

-----------------------------------------------------------------------------
\* The next launch, and what it finds.
LEMMA OnlyLaunchReads == ASSUME TextInv, Next, phase' = "read" PROVE Launch
<1>1. Standing(enc, work, phase, refused, file) BY TextTyped
<1>2. work # <<>> => phase # "read"
  <2>1. "read" \notin Writing BY DEF Writing
  <2>. QED BY <1>1, <2>1 DEF Standing
<1>3. ~WriteReportInfo /\ ~WriteBinaryImages /\ ~WriteSystemInfo /\ ~WriteError /\ ~EndCrash
  BY DEF WriteReportInfo, WriteBinaryImages, WriteSystemInfo, WriteError, EndCrash, Section
<1>4. ~WriteUser /\ ~WriteDebugInfo /\ ~EndReport BY DEF WriteUser, WriteDebugInfo, EndReport, Section
<1>5. ~WriteProcessState /\ ~WriteAllThreads BY DEF WriteProcessState, WriteAllThreads, Section
<1>6. ~WriteScope /\ ~WriteBreadcrumbs BY DEF WriteScope, WriteBreadcrumbs
<1>7. ~WriteThread /\ ~WriteValue /\ ~WriteClose BY <1>2 DEF WriteThread, WriteValue, WriteClose
<1>8. ~WriteIfNotable BY <1>2 DEF WriteIfNotable, Fault
<1>9. ~WriteMemoryContents BY <1>2 DEF WriteMemoryContents, WriteContents, Fault
<1>10. ~WriteIvar BY <1>2 DEF WriteIvar, Fault
<1>11. ~Die /\ ~Recrash BY DEF Die, Recrash
<1>. QED BY <1>3, <1>4, <1>5, <1>6, <1>7, <1>8, <1>9, <1>10, <1>11 DEF Next

LEMMA CourseOf ==
  ASSUME NEW text, NEW run, Heads(text, run)
  PROVE  \E tr : Course(text, run, tr) /\ Dated(text) = tr[Len(text)].copy /\ TooDeep(text) = tr[Len(text)].deep
<1>1. Reading(text, run) /\ Len(text) \in Nat BY DEF Heads
<1>2. PICK tr : Passing(text, tr) BY <1>1, PassingExists
<1>3. PICK k : k = Len(text) OBVIOUS
<1>4. Parsed(text) = Reached(text, run, tr, k) BY <1>1, <1>2, <1>3, ParsedReads
<1>5. Parsed(text).place = tr[k] BY <1>4 DEF Reached
<1>6. Dated(text) = tr[k].copy /\ TooDeep(text) = tr[k].deep BY <1>5, Zenon DEF Dated, TooDeep
<1>. QED BY <1>2, <1>3, <1>6 DEF Course, Heads

LEMMA LaunchTakes ==
  ASSUME TextInv, Launch, Len(file) <= MaxRead PROVE file' = IF Complete(phase) THEN Dated(file) ELSE <<>>
<1>1. PICK x : x = Fix(file) OBVIOUS
<1>6. LastOf(file, MaxRead) = file BY DEF LastOf
<1>2. phase \in {"closed", "dead", "recrashed"} /\ file' = IF x.ok THEN x.out ELSE <<>>
  BY <1>1, <1>6 DEF Launch
<1>3. Standing(enc, work, phase, refused, file) BY TextTyped
<1>4. CASE phase = "dead"
  <2>1. PICK run : Heads(file, run) /\ run[Len(file)].want # "end" BY <1>3, <1>4 DEF Standing, Torn
  <2>2. PICK tr : Course(file, run, tr) BY <2>1, CourseOf
  <2>3. Kept(x, file, run, tr) BY <1>1, <2>2, FixIs
  <2>4. ~x.ok BY <2>1, <2>3 DEF Kept
  <2>5. ~Complete(phase) BY <1>4 DEF Complete
  <2>. QED BY <1>2, <2>4, <2>5
<1>5. CASE phase \in {"closed", "recrashed"}
  <2>1. Solid(file)
    <3>1. CASE phase = "recrashed" BY <1>3, <3>1 DEF Standing
    <3>2. CASE phase = "closed"
      <4>1. PICK k : Whole(enc, k) /\ KeysOK(k, Spare(refused), Sections) BY <1>3, <3>2 DEF Standing
      <4>2. file = enc.out BY <1>3, <3>2 DEF Standing
      <4>3. Six(k) BY <4>1, SixSections DEF KeysOK
      <4>4. k # <<>> BY <4>3 DEF Six
      <4>. QED BY <4>1, <4>2, <4>4, WholeSolid
    <3>. QED BY <1>5, <3>1, <3>2
  <2>2. PICK run : Heads(file, run) /\ run[Len(file)].want = "end" BY <2>1 DEF Solid
  <2>3. PICK tr : /\ Course(file, run, tr) /\ Dated(file) = tr[Len(file)].copy
                  /\ TooDeep(file) = tr[Len(file)].deep
    BY <2>2, CourseOf
  <2>4. Kept(x, file, run, tr) BY <1>1, <2>3, FixIs
  <2>5. DOMAIN file = 1..Len(file)
    <3>1. PICK T : file \in Seq(T) BY <2>2 DEF Heads, IsSequence
    <3>. QED BY <3>1
  <2>6. Complete(phase) <=> Short(file, Len(file)) /\ ~tr[Len(file)].deep
    <3>1. Complete(phase) <=> Short(file, Len(file)) /\ ~TooDeep(file) BY <1>5, <2>5 DEF Complete, Short
    <3>. QED BY <2>3, <3>1
  <2>7. IF Complete(phase) THEN x.ok /\ x.out = Dated(file) ELSE ~x.ok BY <2>2, <2>3, <2>4, <2>6 DEF Kept
  <2>. QED BY <1>2, <2>7
<1>. QED BY <1>2, <1>4, <1>5

\* The fixer at the next launch, for every process with a regular heap, every way its report may
\* end and every report that is read from its beginning: it takes the report exactly if it is whole
\* and nothing in it is too long or too deep for the fixer, and it changes nothing but the dates.
THEOREM OnlyWholeReportsArePassed == Spec => OnlyWholeReportsPass
<1>1. ASSUME TextKept, [Next]_vars
      PROVE  [phase' = "read" /\ Regular(process.heap) /\ Len(file) <= MaxRead =>
                file' = IF Complete(phase) THEN Dated(file) ELSE <<>>]_vars
  <2>1. CASE Next /\ phase' = "read" /\ Regular(process.heap) /\ Len(file) <= MaxRead
    <3>1. TextInv BY <1>1, <2>1 DEF TextKept
    <3>2. Launch BY <2>1, <3>1, OnlyLaunchReads
    <3>3. file' = IF Complete(phase) THEN Dated(file) ELSE <<>> BY <2>1, <3>1, <3>2, LaunchTakes
    <3>. QED BY <3>3
  <2>2. CASE ~(phase' = "read" /\ Regular(process.heap) /\ Len(file) <= MaxRead) BY <2>2
  <2>3. CASE UNCHANGED vars BY <2>3
  <2>. QED BY <1>1, <2>1, <2>2, <2>3
<1>. QED BY <1>1, TextInvariant, PTL DEF Spec, OnlyWholeReportsPass
=============================================================================
