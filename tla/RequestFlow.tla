----------------------------- MODULE RequestFlow -----------------------------
(***************************************************************************)
(* What the Diagnostics tab promises its user: one request at a time.  A   *)
(* request is being considered, is being worked on, or is resolved; while  *)
(* one is worked on no other can be made, and each one worked on ends with *)
(* the user being told of its own success or failure.                      *)
(***************************************************************************)
CONSTANTS Requests, Nobody

VARIABLES phase,    \* "ready", "asking" or "working"
          current,  \* the request worked on, or Nobody
          told,     \* what the status line says of the last request
          outcome   \* outcome[r]: "none", "success" or "failed"
flowVars == <<phase, current, told, outcome>>

Begin0 == /\ phase = "ready" /\ current = Nobody /\ told = "nothing"
          /\ outcome = [r \in Requests |-> "none"]

Consider == /\ phase = "ready"
            /\ phase' = "asking"
            /\ UNCHANGED <<current, told, outcome>>

Decline == /\ phase = "asking"
           /\ phase' = "ready"
           /\ told' = "cancelled"
           /\ UNCHANGED <<current, outcome>>

Accept(r) == /\ phase \in {"ready", "asking"}
             /\ outcome[r] = "none"
             /\ phase' = "working"
             /\ current' = r
             /\ told' = "working"
             /\ UNCHANGED outcome

Resolve == /\ phase = "working"
           /\ \E how \in {"success", "failed"} :
                /\ told' = how
                /\ outcome' = [outcome EXCEPT ![current] = how]
           /\ phase' = "ready"
           /\ current' = Nobody

Advance == Consider \/ Decline \/ Resolve \/ \E r \in Requests : Accept(r)

FlowPromise     == Begin0 /\ [][Advance]_flowVars
FairFlowPromise == FlowPromise /\ WF_flowVars(Resolve)
=============================================================================
