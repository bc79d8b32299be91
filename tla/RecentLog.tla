------------------------------ MODULE RecentLog ------------------------------
(***************************************************************************)
(* What LogCollector promises its callers, without its lock: an atomic     *)
(* object that records entries, forgets the oldest ones in one block when  *)
(* it grows past a limit, can be emptied, and answers a query with exactly *)
(* the entries that it holds at one instant and that are newer than the    *)
(* query's cutoff.                                                         *)
(***************************************************************************)
EXTENDS Integers, Sequences

CONSTANTS Callers,      \* who may query
          Limit,        \* entries held at most
          Block,        \* entries forgotten at once
          Times,        \* timestamps an entry may carry
          Cutoffs       \* cutoffs a query may use

VARIABLES history,      \* every entry ever recorded, oldest first
          visible,      \* the entries held now
          answer        \* answer[c]: {} or {the set of entries given to c}
logVars == <<history, visible, answer>>

\* Forgetting: past the limit, the oldest Block entries go.
Capped(s) == IF Len(s) > Limit THEN SubSeq(s, Block + 1, Len(s)) ELSE s

\* The entries of s strictly newer than the cutoff.
NewerThan(s, cutoff) == {s[i] : i \in {j \in DOMAIN s : s[j].time > cutoff}}

Start == \E at \in Times :
           /\ history = <<[id |-> 1, time |-> at], [id |-> 2, time |-> at]>>
           /\ visible = history
           /\ answer  = [c \in Callers |-> {}]

Record(at) == LET e == [id |-> Len(history) + 1, time |-> at] IN
              /\ history' = Append(history, e)
              /\ visible' = Capped(Append(visible, e))
              /\ UNCHANGED answer

Empty == visible' = <<>> /\ UNCHANGED <<history, answer>>

Query(c, cutoff) == /\ answer[c] = {}
                    /\ answer' = [answer EXCEPT ![c] = {NewerThan(visible, cutoff)}]
                    /\ UNCHANGED <<history, visible>>

Return(c) == /\ answer[c] # {}
             /\ answer' = [answer EXCEPT ![c] = {}]
             /\ UNCHANGED <<history, visible>>

Move == \/ \E at \in Times : Record(at)
        \/ Empty
        \/ \E c \in Callers : Return(c) \/ \E k \in Cutoffs : Query(c, k)

LogSpec == Start /\ [][Move]_logVars
=============================================================================
