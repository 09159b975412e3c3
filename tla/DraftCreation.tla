----------------------------- MODULE DraftCreation -----------------------------
(****************************************************************************)
(* One request that creates drafts: create_draft and create_reply_draft     *)
(* (gmail/client/drafts.rs), alone or as the items of create_drafts and     *)
(* create_reply_drafts (broker/handlers/bulk_drafts.rs), which run on       *)
(* several threads.  A reply reads the message it answers before it posts.  *)
(* Gmail has no name for a draft before it exists, so nothing can be looked *)
(* up afterwards.  After a POST without a usable answer a bulk item is      *)
(* unknown; a single request is told that Gmail could not create the draft. *)
(****************************************************************************)
EXTENDS Integers

CONSTANT N     \* drafts a bulk request asks for

VARIABLES
    request,   \* [reply, many]: replies to messages?  bulk?
    phase,     \* where the thread of each draft is
    attempt,   \* which token it uses: 1 the cached one, 2 the refreshed one
    fatal,     \* a credential failure has stopped the request
    outcome,   \* what is answered for each draft
    wire,      \* Gmail: what became of the last POST for each draft
    drafts     \* history: drafts Gmail made for each item of the request

item == <<phase, attempt, outcome>>
vars == <<request, phase, attempt, fatal, outcome, wire, drafts>>

Items == IF request.many THEN 1..N ELSE {1}
Phases == {"queued", "token", "source", "post", "done"}

\* "unavailable" is a single request's gmail_unavailable, "Gmail could not create draft",
\* for every error that map_draft_error has no code for.
Outcomes == {"none", "succeeded", "failed", "unavailable", "unknown", "not_attempted"}
Wires == {"none", "sent", "applied", "rejected"}
Requests == [reply : BOOLEAN, many : BOOLEAN]

Init ==
    /\ request \in Requests
    /\ phase = [i \in Items |-> "queued"]
    /\ attempt = [i \in Items |-> 1]
    /\ fatal = FALSE
    /\ outcome = [i \in Items |-> "none"]
    /\ wire = [i \in Items |-> "none"]
    /\ drafts = [i \in Items |-> 0]

------------------------------------------------------------------------------
(* The thread of one draft.                                                 *)

Settle(i, o) ==
    /\ phase' = [phase EXCEPT ![i] = "done"]
    /\ outcome' = [outcome EXCEPT ![i] = o]
    /\ UNCHANGED attempt

Go(i, p) ==
    /\ phase' = [phase EXCEPT ![i] = p]
    /\ UNCHANGED <<attempt, outcome>>

\* A credential failure stops the items that have not started.
Start(i) ==
    /\ phase[i] = "queued"
    /\ IF fatal THEN Settle(i, "not_attempted") ELSE Go(i, "token")
    /\ UNCHANGED <<request, fatal, wire, drafts>>

\* create_draft_raw: the POST leaves the broker.
Post(i) ==
    /\ Go(i, "post")
    /\ wire' = [wire EXCEPT ![i] = "sent"]

\* A single request answers with the credential error itself.
Token(i) ==
    /\ phase[i] = "token"
    /\ \/ IF request.reply THEN Go(i, "source") /\ UNCHANGED wire ELSE Post(i)
       \/ Settle(i, "not_attempted") /\ UNCHANGED wire
    /\ fatal' = (fatal \/ outcome'[i] = "not_attempted")
    /\ UNCHANGED <<request, drafts>>

\* A 401 is refreshed once, and the draft is begun anew with the other token.
Unauthorized(i) ==
    IF attempt[i] = 1
    THEN /\ phase' = [phase EXCEPT ![i] = "token"]
         /\ attempt' = [attempt EXCEPT ![i] = 2]
         /\ UNCHANGED outcome
    ELSE Settle(i, "failed")

\* An error before the POST, or Gmail's refusal of it.  The answer to a single request
\* has a code for some of these errors only.
NoDraft(i) ==
    \E o \in {"failed"} \cup (IF request.many THEN {} ELSE {"unavailable"}) : Settle(i, o)

\* The message a reply answers: read whole, with a recipient, headers that can be
\* repeated and a Message-ID, or nothing is posted.
Source(i) ==
    /\ phase[i] = "source"
    /\ \/ Post(i)
       \/ (NoDraft(i) \/ Unauthorized(i)) /\ UNCHANGED wire
    /\ UNCHANGED <<request, fatal, drafts>>

\* Mutants: an error after the POST counts like one before it; the POST is tried again.
UnansweredFailed(i) ==
    /\ Settle(i, IF request.many THEN "failed" ELSE "unavailable")
    /\ UNCHANGED wire
UnansweredRepeated(i) == Post(i)

\* A 5xx, a timeout, or a draft without its identifiers.
Unanswered(i) ==
    /\ Settle(i, IF request.many THEN "unknown" ELSE "unavailable")
    /\ UNCHANGED wire

Receive(i) ==
    /\ phase[i] = "post"
    /\ \/ /\ wire[i] = "sent"
          /\ wire' = [wire EXCEPT ![i] = "rejected"]
          /\ NoDraft(i) \/ Unauthorized(i)
       \/ wire[i] = "applied" /\ Settle(i, "succeeded") /\ UNCHANGED wire
       \/ Unanswered(i)
    /\ UNCHANGED <<request, fatal, drafts>>

\* Gmail makes the draft, perhaps after the broker gave up on the answer.
Apply(i) ==
    /\ wire[i] = "sent"
    /\ wire' = [wire EXCEPT ![i] = "applied"]
    /\ drafts' = [drafts EXCEPT ![i] = @ + 1]
    /\ UNCHANGED <<request, item, fatal>>

RequestStep == \E i \in Items : Start(i) \/ Token(i) \/ Source(i) \/ Receive(i)

Elsewhere == \E i \in Items : Apply(i)

Next == RequestStep \/ Elsewhere

Spec == Init /\ [][Next]_vars

------------------------------------------------------------------------------
(* Properties.                                                              *)

TypeOK ==
    /\ request \in Requests
    /\ phase \in [Items -> Phases]
    /\ attempt \in [Items -> 1..2]
    /\ fatal \in BOOLEAN
    /\ outcome \in [Items -> Outcomes]
    /\ wire \in [Items -> Wires]
    /\ drafts \in [Items -> Nat]

\* A draft reported as created is there; for one reported as failed or not attempted
\* there is none and will be none, so that asking again makes no second draft.  Of a
\* single request that ends "unavailable" this cannot be said: its draft may exist.
OutcomesTruthful ==
    \A i \in Items :
        /\ outcome[i] = "succeeded" => drafts[i] = 1
        /\ outcome[i] \in {"failed", "not_attempted"} => drafts[i] = 0 /\ wire[i] # "sent"

\* One item of a request never makes two drafts, the repetition after a 401 included.
OneDraftPerItem == \A i \in Items : drafts[i] + (IF wire[i] = "sent" THEN 1 ELSE 0) <= 1

Ended == \A i \in Items : phase[i] = "done"
================================================================================
