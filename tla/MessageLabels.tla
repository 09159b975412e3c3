----------------------------- MODULE MessageLabels -----------------------------
(****************************************************************************)
(* One request that adds or removes one label on messages: the bulk path of *)
(* gmail/client/bulk.rs (label check, preflight of every message, one batch *)
(* write, readback by position) and the single path of gmail/client.rs,     *)
(* with the repetition after a 401 of broker/handlers/tokens.rs.  Everybody *)
(* else, other requests of the broker included, may change the mailbox at   *)
(* any moment.  A write may be applied after the broker gave up on it.      *)
(****************************************************************************)
EXTENDS Integers, FiniteSets

CONSTANTS
    N,             \* number of messages a bulk request names
    MaxChanges     \* bound on the changes others make

VARIABLES
    request,   \* [many, custom, add]: bulk?  a custom label or UNREAD?  add it?
    message,   \* Gmail: what each message ID names now
    on,        \* Gmail: does the message carry the label?
    label,     \* Gmail: what the label ID names now
    changes,   \* changes made by others so far
    phase,     \* where the request is
    attempt,   \* which token it uses: 0 none yet, 1 the cached one, 2 the refreshed one
    check,     \* preflight: what the read of each message gave
    batch,     \* the eligible messages the last write named
    observed,  \* readback: what was seen, in the order of the eligible messages
    pending,   \* Gmail: messages the last write may still change
    answer,    \* the answer to the request as a whole
    outcome,   \* the outcome of each message in a bulk answer
    touched,   \* history: messages a write of this request changed
    seen,      \* history: messages shown in the desired state after the write
    accepted   \* history: writes of this request that Gmail did not reject

gmail == <<message, on, label, changes, pending, touched>>
reads == <<check, observed, seen>>
result == <<answer, outcome>>
vars == <<request, message, on, label, changes, phase, attempt, check, batch, observed,
          pending, answer, outcome, touched, seen, accepted>>

Positions == 1..N

\* apply_label(_to_emails) adds a custom label; mark_email(s)_(un)read removes or adds
\* UNREAD.
Requests == {r \in [many : BOOLEAN, custom : BOOLEAN, add : BOOLEAN] : r.custom => r.add}
Targets == IF request.many THEN Positions ELSE {1}
Phases == {"token", "label", "preflight", "write", "readback", "answered"}
Checks == {"none", "ok", "draft", "denied", "failed"}
Answers == {"none", "items", "done", "rejected", "unavailable", "reauthenticate", "credential"}
Outcomes == {"none", "succeeded", "failed", "unknown"}

Init ==
    /\ request \in Requests
    /\ message \in [Positions -> {"mail", "draft"}]
    /\ on \in [Positions -> BOOLEAN]
    /\ label \in {"user", "system"}
    /\ ~request.custom => label = "system"
    /\ changes = 0
    /\ phase = "token"
    /\ attempt = 0
    /\ check = [i \in Positions |-> "none"]
    /\ batch = {}
    /\ observed = [k \in Positions |-> "none"]
    /\ pending = {}
    /\ answer = "none"
    /\ outcome = [i \in Positions |-> "none"]
    /\ touched = {}
    /\ seen = {}
    /\ accepted = 0

------------------------------------------------------------------------------
(* The request.                                                             *)

Respond(a) ==
    /\ phase' = "answered"
    /\ answer' = a
    /\ UNCHANGED outcome

Go(p) ==
    /\ phase' = p
    /\ UNCHANGED result

\* Mutant: a rejected token is tried again and again.
RejectedAlways == Go("token")

\* A 401 is refreshed once; the whole operation is then repeated from its start.
Rejected ==
    \/ attempt = 1 /\ Go("token")
    \/ attempt = 2 /\ Respond("reauthenticate")

\* The bulk path checks the label before the messages, the single path after.
Token ==
    /\ phase = "token"
    /\ \/ /\ Go(IF request.many /\ request.custom THEN "label" ELSE "preflight")
          /\ attempt' = IF attempt = 2 THEN 2 ELSE attempt + 1
          /\ check' = [i \in Positions |-> "none"]
       \/ Respond("credential") /\ UNCHANGED <<attempt, check>>
    /\ UNCHANGED <<request, gmail, batch, observed, seen, accepted>>

\* The eligible messages are written in one request; a batch of none is not sent.
Dispatch(eligible) ==
    /\ eligible # {}
    /\ Go("write")
    /\ batch' = eligible
    /\ pending' = eligible
    /\ accepted' = accepted + 1

\* require_custom_label, and the second read of apply_label.
CheckLabel ==
    /\ phase = "label"
    /\ \/ /\ label = "user"
          /\ \/ /\ request.many
                /\ Go("preflight")
                /\ UNCHANGED <<batch, pending, accepted>>
             \/ ~request.many /\ Dispatch({1})
       \/ /\ \/ label # "user" /\ Respond("rejected")
             \/ Respond("unavailable")
             \/ Rejected
          /\ UNCHANGED <<batch, pending, accepted>>
    /\ UNCHANGED <<request, message, on, label, changes, touched, reads, attempt>>

\* message_labels and ensure_not_draft, for one message; a bulk request reads several
\* at once, in any order.
CheckMessage(i) ==
    /\ phase = "preflight" /\ i \in Targets /\ check[i] = "none"
    /\ \E c \in {"denied", "failed"} \cup
                 (CASE message[i] = "mail" -> {"ok"} [] message[i] = "draft" -> {"draft"}
                    [] OTHER -> {}) :
          check' = [check EXCEPT ![i] = c]
    /\ UNCHANGED <<request, gmail, phase, attempt, batch, observed, seen, accepted, result>>

Eligible == {i \in Targets : check[i] = "ok"}

\* All messages are read.  A 401 among them comes before any write.
PreflightDone ==
    /\ phase = "preflight"
    /\ \A i \in Targets : check[i] # "none"
    /\ \/ /\ \E i \in Targets : check[i] = "denied"
          /\ Rejected
          /\ UNCHANGED <<batch, pending, accepted>>
       \/ /\ \A i \in Targets : check[i] # "denied"
          /\ \/ request.many /\ Dispatch(Eligible)
             \/ /\ request.many /\ Eligible = {}
                /\ phase' = "readback" /\ batch' = {}
                /\ UNCHANGED <<result, pending, accepted>>
             \/ ~request.many /\ ~request.custom /\ Dispatch(Eligible)
             \/ /\ ~request.many /\ request.custom /\ Eligible # {}
                /\ Go("label")
                /\ UNCHANGED <<batch, pending, accepted>>
             \/ /\ ~request.many /\ Eligible = {}
                /\ \/ Respond("rejected")
                   \/ check[1] = "failed" /\ Respond("unavailable")
                /\ UNCHANGED <<batch, pending, accepted>>
    /\ UNCHANGED <<request, message, on, label, changes, touched, reads, attempt>>

\* An answer that rejects the write: nothing of it was or will be applied.
Reject ==
    /\ pending = batch
    /\ pending' = {}
    /\ accepted' = accepted - 1

\* The items of a batch Gmail rejected: those of the batch fail like the others.
FailItems ==
    /\ phase' = "answered"
    /\ answer' = "items"
    /\ outcome' = [i \in Positions |-> "failed"]

\* Mutant: an unanswered write is sent again.
UnansweredRepeated ==
    /\ Go("write")
    /\ pending' = batch
    /\ accepted' = accepted + 1

\* No usable answer to the write.  The bulk path finds out what it did by reading the
\* messages; the single path answers gmail_unavailable, "Gmail could not update the
\* message read state" or "... apply the label to the message", as for errors of its reads.
Unanswered ==
    /\ \/ request.many /\ Go("readback")
       \/ ~request.many /\ Respond("unavailable")
    /\ UNCHANGED <<pending, accepted>>

\* The answer to the write: 401, another 4xx, success with every message changed, or
\* none that settles anything (a 5xx, a timeout, a broken body).  The single path
\* takes the labels in the answer for its readback.
Receive ==
    /\ phase = "write"
    /\ \/ Reject /\ Rejected
       \/ /\ Reject
          /\ \/ request.many /\ FailItems
             \/ ~request.many /\ (Respond("rejected") \/ Respond("unavailable"))
       \/ /\ pending = {}
          /\ \/ request.many /\ Go("readback")
             \/ ~request.many /\ Respond(IF request.custom /\ ~on[1] THEN "unavailable" ELSE "done")
          /\ UNCHANGED <<pending, accepted>>
       \/ Unanswered
    /\ seen' = IF phase' = "answered" /\ answer' = "done" /\ on[1] = request.add
               THEN seen \cup {1} ELSE seen
    /\ UNCHANGED <<request, message, on, label, changes, touched, check, observed, attempt, batch>>

\* The position of an eligible message among the eligible ones: where bounded_map puts
\* its readback, and where the iterator over the readbacks is when its turn comes.
Rank(i) == Cardinality({j \in batch : j <= i})

\* message_labels after the write, for one eligible message.
Readback(i) ==
    /\ phase = "readback" /\ i \in batch /\ observed[Rank(i)] = "none"
    /\ \/ /\ message[i] # "gone"
          /\ observed' = [observed EXCEPT ![Rank(i)] = IF on[i] = request.add THEN "yes" ELSE "no"]
          /\ seen' = IF on[i] = request.add THEN seen \cup {i} ELSE seen
       \/ observed' = [observed EXCEPT ![Rank(i)] = "no"] /\ UNCHANGED seen
    /\ UNCHANGED <<request, gmail, check, phase, attempt, batch, accepted, result>>

\* Mutant: the readbacks are looked up by the position in the request.
ReadbackAt(i) == observed[i]

\* The readback an item of the answer is built from.
ReadbackOf(i) == observed[Rank(i)]

Finish ==
    /\ phase = "readback"
    /\ \A i \in batch : observed[Rank(i)] # "none"
    /\ phase' = "answered"
    /\ answer' = "items"
    /\ outcome' = [i \in Positions |->
                      IF i \notin batch THEN "failed"
                      ELSE IF ReadbackOf(i) = "yes" THEN "succeeded" ELSE "unknown"]
    /\ UNCHANGED <<request, gmail, reads, attempt, batch, accepted>>

------------------------------------------------------------------------------
(* Gmail, and everybody else.                                               *)

\* Gmail changes one of the messages a write names, perhaps after the broker gave up.
Apply(i) ==
    /\ i \in pending
    /\ pending' = pending \ {i}
    /\ \/ /\ message[i] # "gone" /\ (request.custom => label = "user")
          /\ on' = [on EXCEPT ![i] = request.add]
          /\ touched' = touched \cup {i}
       \/ /\ message[i] = "gone" \/ (request.custom /\ label # "user")
          /\ UNCHANGED <<on, touched>>
    /\ UNCHANGED <<request, message, label, changes, phase, attempt, reads, batch, result, accepted>>

\* Somebody adds or removes the label, sends or deletes a draft, deletes the message
\* or deletes the label.
Others(i) ==
    /\ changes < MaxChanges
    /\ changes' = changes + 1
    /\ \/ /\ message[i] # "gone" /\ label # "gone"
          /\ on' = [on EXCEPT ![i] = ~on[i]]
          /\ UNCHANGED <<message, label>>
       \/ /\ message[i] # "gone"
          /\ message' = [message EXCEPT ![i] = "gone"]
          /\ UNCHANGED <<on, label>>
       \/ /\ label = "user"
          /\ label' = "gone"
          /\ on' = [j \in Positions |-> FALSE]
          /\ UNCHANGED message
    /\ UNCHANGED <<request, pending, touched, phase, attempt, reads, batch, result, accepted>>

RequestStep ==
    \/ Token \/ CheckLabel \/ PreflightDone \/ Receive \/ Finish
    \/ \E i \in Positions : CheckMessage(i) \/ Readback(i)

Elsewhere == \E i \in Positions : Apply(i) \/ Others(i)

Next == RequestStep \/ Elsewhere

Spec == Init /\ [][Next]_vars

------------------------------------------------------------------------------
(* Properties.                                                              *)

TypeOK ==
    /\ request \in Requests
    /\ message \in [Positions -> {"mail", "draft", "gone"}]
    /\ on \in [Positions -> BOOLEAN]
    /\ label \in {"user", "system", "gone"}
    /\ changes \in 0..MaxChanges
    /\ phase \in Phases
    /\ attempt \in 0..2
    /\ check \in [Positions -> Checks]
    /\ batch \subseteq Targets
    /\ observed \in [Positions -> {"none", "yes", "no"}]
    /\ pending \subseteq batch
    /\ answer \in Answers
    /\ outcome \in [Positions -> Outcomes]
    /\ touched \subseteq Positions
    /\ seen \subseteq Positions
    /\ accepted \in Nat
    /\ phase = "answered" <=> answer # "none"

\* A message reported as done was shown by Gmail, after the write, in the state that
\* was asked for: that message, and not its neighbour in the list of readbacks.
SucceededWasSeen ==
    /\ \A i \in Positions : outcome[i] = "succeeded" => i \in seen
    /\ answer = "done" /\ request.custom => 1 \in seen

\* Nothing reported as failed was changed by this request, or ever will be: failures
\* may be retried without looking.  The exception is a single request's "unavailable",
\* a failure that is also answered when the answer to its write was lost.
FailedIsUntouched ==
    /\ \A i \in Positions : outcome[i] = "failed" => i \notin touched \cup pending
    /\ answer \in {"rejected", "reauthenticate", "credential"} => touched \cup pending = {}

\* The request is never sent again once Gmail may have acted on it.
OneWrite == accepted <= 1

Ended == phase = "answered"
================================================================================
