---------------------------- MODULE RequestPromise ----------------------------
(****************************************************************************)
(* What a request that changes Gmail promises of each item it names, with   *)
(* no threads, tokens or retries (docs/api/mcp.md): an item takes effect at *)
(* most once, what is said of it is said once and for all, and what is said *)
(* to have failed or not to have been attempted never takes effect, not     *)
(* even later.  The failure of a single request with gmail_unavailable is   *)
(* apart: the code answers it also when the answer to the write was lost,   *)
(* so that only at most one effect and finality are promised of it.         *)
(****************************************************************************)
CONSTANT Items    \* whatever a request may name

VARIABLES
    creates,   \* does the request make what it names?  It then has no other maker
    status,    \* what is said of each item: none, until it is settled
    effect     \* how often the request took effect on each

vars == <<creates, status, effect>>

Untouched == {"failed", "not_attempted"}
Statuses == {"none", "succeeded", "unknown", "unavailable"} \cup Untouched

Init ==
    /\ creates \in BOOLEAN
    /\ status = [i \in Items |-> "none"]
    /\ effect = [i \in Items |-> 0]

\* Gmail carries out what was asked for, before or after it is reported.
Change ==
    /\ \E i \in Items :
          /\ effect[i] = 0 /\ status[i] \notin Untouched
          /\ effect' = [effect EXCEPT ![i] = 1]
    /\ UNCHANGED <<creates, status>>

\* May this be said of an item that nothing was said of?
Tellable(i, s) ==
    /\ s \in Untouched => effect[i] = 0
    /\ creates /\ s = "succeeded" => effect[i] = 1

Tell ==
    /\ status' \in [Items -> Statuses]
    /\ \A i \in Items : status'[i] # status[i] => status[i] = "none" /\ Tellable(i, status'[i])
    /\ UNCHANGED <<creates, effect>>

Next == Change \/ Tell

Spec == Init /\ [][Next]_vars
================================================================================
