--------------------------- MODULE MCMarkedActions ---------------------------
(****************************************************************************)
(* The instances checked.  marked_safety: one marker over a draft with a    *)
(* history of revisions while time passes, and two markers of one message   *)
(* and its draft, executed at once.  marked_batch: a mailbox without drafts *)
(* while no marker expires; of Next, only MailStep is enabled there.        *)
(****************************************************************************)
EXTENDS MarkedActions, TLC

\* The messages that a draft, a marker or Gmail's history names.
InUse == ({draftAt[p] : p \in DOMAIN draftAt} \cup {issued[i].message : i \in DOMAIN issued}
             \cup {p[2] : p \in retired \cup inTrash}) \ {Gone}

Instances ==
    \/ Cardinality(DOMAIN issued) <= 1
    \/ Cardinality(InUse) <= 1 /\ now = 0

SafetySpec == Init /\ [][Next /\ Instances']_vars

BatchSpec == Init /\ [][MailStep]_vars /\ Fairness

Symmetry == Permutations(Messages) \cup Permutations(MarkerIds)
==============================================================================
