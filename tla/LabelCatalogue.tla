---------------------------- MODULE LabelCatalogue -----------------------------
(****************************************************************************)
(* One request that creates or deletes labels: create_label, delete_label   *)
(* (gmail/client.rs) and create_labels, delete_labels                       *)
(* (broker/handlers/bulk_labels.rs), whose items run on several threads.  A *)
(* bulk deletion checks every label before it deletes any.  Creation reads  *)
(* back a label whose type Gmail left out; an unsettled bulk deletion looks *)
(* the label up.  Everybody else may create and delete labels meanwhile, and *)
(* a write may be applied after the broker gave up on it.                   *)
(****************************************************************************)
EXTENDS Integers, FiniteSets

CONSTANTS
    Labels,        \* labels a request may name
    System,        \* those of them Gmail keeps for itself
    MaxChanges     \* bound on the changes others make

VARIABLES
    exists,    \* Gmail: the labels there are
    wire,      \* Gmail: what became of the last write for each label
    changes,   \* changes made by others so far
    request,   \* [create, many]: creation or deletion?  bulk?
    targets,   \* the labels it names
    stage,     \* preflight (bulk deletion only), execute, over
    phase,     \* where the thread of each label is
    attempt,   \* which token it uses: 1 the cached one, 2 the refreshed one
    fatal,     \* a credential failure has stopped this stage
    checked,   \* preflight: the result for each label
    outcome,   \* execution: the outcome for each label
    aborted,   \* the whole request was rejected because of a system label
    effects,   \* history: writes of this request Gmail carried out, per label
    missing    \* history: labels that did not exist at some moment of the request

gmail == <<exists, wire, changes, effects, missing>>
item == <<phase, attempt>>
vars == <<exists, wire, changes, request, targets, stage, phase, attempt, fatal, checked,
          outcome, aborted, effects, missing>>

Phases == {"queued", "token", "check", "lookup", "write", "verify", "reconcile", "done"}

\* Both "unknown" and "unavailable" are gmail_unavailable to a single request: the first
\* warns that the write may have succeeded, the second says "Gmail could not create the
\* label", or delete it.
Outcomes == {"none", "succeeded", "failed", "system", "unavailable", "unknown", "not_attempted"}
Wires == {"none", "sent", "applied", "rejected"}
Requests == [create : BOOLEAN, many : BOOLEAN]

Init ==
    /\ \E some \in SUBSET (Labels \ System) : exists = some \cup System
    /\ wire = [l \in Labels |-> "none"]
    /\ changes = 0
    /\ request \in Requests
    /\ targets \in (SUBSET Labels) \ {{}}
    /\ request.many \/ Cardinality(targets) = 1
    /\ stage = IF request.many /\ ~request.create THEN "preflight" ELSE "execute"
    /\ phase = [l \in Labels |-> IF l \in targets THEN "queued" ELSE "done"]
    /\ attempt = [l \in Labels |-> 1]
    /\ fatal = FALSE
    /\ checked = [l \in Labels |-> "none"]
    /\ outcome = [l \in Labels |-> "none"]
    /\ aborted = FALSE
    /\ effects = [l \in Labels |-> 0]
    /\ missing = Labels \ exists

------------------------------------------------------------------------------
(* The thread of one label.                                                 *)

\* The closure of run_items ends with an outcome, kept by the stage it belongs to.
Settle(l, o) ==
    /\ phase' = [phase EXCEPT ![l] = "done"]
    /\ \/ stage = "preflight" /\ checked' = [checked EXCEPT ![l] = o] /\ UNCHANGED outcome
       \/ stage = "execute" /\ outcome' = [outcome EXCEPT ![l] = o] /\ UNCHANGED checked
    /\ UNCHANGED attempt

Go(l, p) ==
    /\ phase' = [phase EXCEPT ![l] = p]
    /\ UNCHANGED <<attempt, checked, outcome>>

\* A 401 from a provider call that changed nothing: refresh once, then give up.
Unauthorized(l) ==
    \/ /\ attempt[l] = 1
       /\ phase' = [phase EXCEPT ![l] = "token"]
       /\ attempt' = [attempt EXCEPT ![l] = 2]
       /\ UNCHANGED <<checked, outcome>>
    \/ attempt[l] = 2 /\ Settle(l, "failed")

\* The items after a credential failure are not attempted.
Start(l) ==
    /\ phase[l] = "queued"
    /\ IF fatal THEN Settle(l, "not_attempted") ELSE Go(l, "token")
    /\ UNCHANGED <<gmail, request, targets, stage, fatal, aborted>>

\* A token is had, and the operation begins; what failed the preflight is not tried.
Token(l) ==
    /\ phase[l] = "token"
    /\ \/ /\ \/ stage = "preflight" /\ Go(l, "check")
             \/ /\ stage = "execute"
                /\ \/ request.create /\ Go(l, "write")
                   \/ ~request.create /\ checked[l] \in {"none", "succeeded"} /\ Go(l, "lookup")
                   \/ ~request.create /\ checked[l] \notin {"none", "succeeded"} /\ Settle(l, checked[l])
          /\ UNCHANGED fatal
          /\ wire' = [wire EXCEPT ![l] =
                 IF phase'[l] = "write" THEN "sent" ELSE @]
       \/ /\ Settle(l, "not_attempted")
          /\ fatal' = TRUE
          /\ UNCHANGED wire
    /\ UNCHANGED <<exists, changes, effects, missing, request, targets, stage, aborted>>

\* Mutant: a label found to be custom is deleted at once.
CheckThenDelete(l) ==
    /\ phase[l] = "check"
    /\ \/ l \in exists \ System /\ Go(l, "write") /\ wire' = [wire EXCEPT ![l] = "sent"]
       \/ l \in System /\ Settle(l, "system") /\ UNCHANGED wire
       \/ Settle(l, "failed") /\ UNCHANGED wire
    /\ UNCHANGED <<exists, changes, effects, missing, request, targets, stage, fatal, aborted>>

\* require_custom_label before a bulk deletion.
Check(l) ==
    /\ phase[l] = "check"
    /\ \/ l \in exists \ System /\ Settle(l, "succeeded")
       \/ l \in System /\ Settle(l, "system")
       \/ Settle(l, "failed")
       \/ Unauthorized(l)
    /\ UNCHANGED <<gmail, request, targets, stage, fatal, aborted>>

\* Mutant: the counter of dispatched writes is shared by the threads.
DispatchedByAnyone(l) == \E other \in Labels : wire[other] \in {"sent", "applied"}

\* Did this thread send a write since the operation began?
Dispatched(l) == wire[l] \in {"sent", "applied"}

\* write_outcome_mapped: an error without a dispatched write is a failure.
Failure(l, o) == Settle(l, IF request.many /\ Dispatched(l) THEN "unknown" ELSE o)

\* A single request has codes for some errors of the provider only.
Failures == IF request.many THEN {"failed"} ELSE {"failed", "unavailable"}

\* delete_label looks at the type again before it sends the DELETE.
Lookup(l) ==
    /\ phase[l] = "lookup"
    /\ \/ /\ l \in exists \ System
          /\ Go(l, "write")
          /\ wire' = [wire EXCEPT ![l] = "sent"]
       \/ /\ \/ l \in System /\ Failure(l, "system")
             \/ \E o \in Failures : Failure(l, o)
             \/ Unauthorized(l)
          /\ UNCHANGED wire
    /\ UNCHANGED <<exists, changes, effects, missing, request, targets, stage, fatal, aborted>>

\* Mutant: a creation is looked up like a deletion.
UnsettledLookedUp(l) == Go(l, "reconcile")

\* A write whose effect is not known.  A bulk request reconciles its DELETE.  A single
\* one is warned after a lost or malformed answer, but not after a 5xx.
Unsettled(l) ==
    \/ request.many /\ ~request.create /\ Go(l, "reconcile")
    \/ ~(request.many /\ ~request.create) /\ Settle(l, "unknown")
    \/ ~request.many /\ Settle(l, "unavailable")

\* A response that rejects the write, with a 401 or another 4xx: never carried out.
Refused(l) ==
    /\ wire[l] \in {"sent", "rejected"}
    /\ wire' = [wire EXCEPT ![l] = "rejected"]

\* A created label whose type Gmail left out is read back before it is reported.
Receive(l) ==
    /\ phase[l] = "write"
    /\ \/ Refused(l) /\ (Unauthorized(l) \/ \E o \in Failures : Settle(l, o))
       \/ /\ wire[l] = "applied"
          /\ Settle(l, "succeeded") \/ (request.create /\ Go(l, "verify"))
          /\ UNCHANGED wire
       \/ Unsettled(l) /\ UNCHANGED wire
    /\ UNCHANGED <<exists, changes, effects, missing, request, targets, stage, fatal, aborted>>

\* Mutant: a 401 for the read repeats the creation.
VerifyAuthorized(l) ==
    /\ phase[l] = "verify"
    /\ \/ l \in exists /\ Settle(l, "succeeded")
       \/ Unauthorized(l)
    /\ UNCHANGED <<gmail, request, targets, stage, fatal, aborted>>

\* Whatever the read answers but the label itself, a 401 included, leaves the creation
\* unverified; the POST is not repeated.
Verify(l) ==
    /\ phase[l] = "verify"
    /\ \/ l \in exists /\ Settle(l, "succeeded")
       \/ Settle(l, "unknown")
    /\ UNCHANGED <<gmail, request, targets, stage, fatal, aborted>>

\* Mutant: any error of the read is taken for the label's absence.
ReconcileAnyError(l) ==
    /\ phase[l] = "reconcile"
    /\ \/ Settle(l, "succeeded")
       \/ Settle(l, "unknown")
    /\ UNCHANGED <<gmail, request, targets, stage, fatal, aborted>>

\* A 404 for a label whose DELETE was unsettled: it is gone.
Reconcile(l) ==
    /\ phase[l] = "reconcile"
    /\ \/ l \notin exists /\ Settle(l, "succeeded")
       \/ Settle(l, "unknown")
    /\ UNCHANGED <<gmail, request, targets, stage, fatal, aborted>>

ItemStep(l) ==
    \/ Start(l) \/ Token(l) \/ Check(l) \/ Lookup(l) \/ Receive(l) \/ Verify(l) \/ Reconcile(l)

------------------------------------------------------------------------------
(* The request.                                                             *)

\* run_items returns when every thread has joined.
AllDone == \A l \in targets : phase[l] = "done"

\* A system label found by the preflight rejects the whole request; otherwise every
\* label gets a thread for its deletion, with its own first attempt.
EndPreflight ==
    /\ stage = "preflight"
    /\ AllDone
    /\ \/ /\ \E l \in targets : checked[l] = "system"
          /\ aborted' = TRUE
          /\ stage' = "over"
          /\ UNCHANGED <<phase, attempt, fatal>>
       \/ /\ \A l \in targets : checked[l] # "system"
          /\ stage' = "execute"
          /\ phase' = [l \in Labels |-> IF l \in targets THEN "queued" ELSE "done"]
          /\ attempt' = [l \in Labels |-> 1]
          /\ fatal' = FALSE
          /\ UNCHANGED aborted
    /\ UNCHANGED <<gmail, request, targets, checked, outcome>>

EndRequest ==
    /\ stage = "execute"
    /\ AllDone
    /\ stage' = "over"
    /\ UNCHANGED <<gmail, request, targets, item, fatal, checked, outcome, aborted>>

------------------------------------------------------------------------------
(* Gmail, and everybody else.                                               *)

\* Gmail carries out a write, or has nothing to carry out and will answer with a 4xx.
Apply(l) ==
    /\ wire[l] = "sent"
    /\ \/ /\ IF request.create THEN l \notin exists ELSE l \in exists \ System
          /\ exists' = IF request.create THEN exists \cup {l} ELSE exists \ {l}
          /\ wire' = [wire EXCEPT ![l] = "applied"]
          /\ effects' = [effects EXCEPT ![l] = @ + 1]
          /\ missing' = missing \cup (Labels \ exists')
       \/ /\ IF request.create THEN l \in exists ELSE l \notin exists
          /\ wire' = [wire EXCEPT ![l] = "rejected"]
          /\ UNCHANGED <<exists, effects, missing>>
    /\ UNCHANGED <<changes, request, targets, stage, item, fatal, checked, outcome, aborted>>

Others(l) ==
    /\ changes < MaxChanges /\ l \notin System
    /\ changes' = changes + 1
    /\ exists' = IF l \in exists THEN exists \ {l} ELSE exists \cup {l}
    /\ missing' = missing \cup (Labels \ exists')
    /\ UNCHANGED <<wire, effects, request, targets, stage, item, fatal, checked, outcome, aborted>>

RequestStep == EndPreflight \/ EndRequest \/ \E l \in targets : ItemStep(l)

Elsewhere == \E l \in targets : Apply(l) \/ Others(l)

Next == RequestStep \/ Elsewhere

Spec == Init /\ [][Next]_vars

------------------------------------------------------------------------------
(* Properties.                                                              *)

TypeOK ==
    /\ exists \in SUBSET Labels /\ System \subseteq exists
    /\ wire \in [Labels -> Wires]
    /\ changes \in 0..MaxChanges
    /\ request \in Requests
    /\ targets \in SUBSET Labels
    /\ stage \in {"preflight", "execute", "over"}
    /\ phase \in [Labels -> Phases]
    /\ \A l \in Labels : phase[l] = "reconcile" => request.many /\ ~request.create
    /\ attempt \in [Labels -> 1..2]
    /\ fatal \in BOOLEAN
    /\ checked \in [Labels -> Outcomes \ {"unknown", "unavailable"}]
    /\ outcome \in [Labels -> Outcomes]
    /\ aborted \in BOOLEAN
    /\ effects \in [Labels -> Nat]
    /\ missing \subseteq Labels

\* What is reported of a label is so: a created label is the one this request made, a
\* deleted one was gone at some moment of the request, a failed or unattempted one was
\* not and will not be touched, and only a label whose write was sent is unknown.  Not
\* covered is "unavailable", which a single request is also told after a 5xx.
OutcomesTruthful ==
    \A l \in targets :
        /\ outcome[l] = "succeeded" => IF request.create THEN effects[l] > 0 ELSE l \in missing
        /\ outcome[l] \in {"failed", "system", "not_attempted"}
              => effects[l] = 0 /\ wire[l] # "sent"
        /\ outcome[l] = "unknown" => wire[l] # "none"

\* No label is created or deleted twice for one request, though others may delete or
\* create it between the two attempts, and no system label is deleted.
OneEffectPerLabel ==
    /\ \A l \in Labels : effects[l] <= 1
    /\ \A l \in System : wire[l] \in {"none", "rejected"} \/ request.create

\* A deletion rejected because of a system label has deleted nothing and never will.
RejectedSetUntouched ==
    aborted => \A l \in Labels : effects[l] = 0 /\ wire[l] = "none"

Ended == stage = "over"

\* Violated.  "All label types are checked before the first DELETE; a system member
\* aborts the set" (bulk_labels.rs:36): a set with a system label loses no label.
SystemMemberAborts ==
    request.many /\ ~request.create /\ targets \cap System # {}
        => \A l \in Labels : effects[l] = 0
================================================================================
