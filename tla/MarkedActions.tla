----------------------------- MODULE MarkedActions -----------------------------
(****************************************************************************)
(* The handlers that work on marks: handlers/drafts.rs, handlers/deletion.rs, *)
(* handlers/bulk_drafts.rs and handlers/bulk_deletion.rs, over the store of *)
(* ActionMarks and over Gmail, whose drafts a person may edit meanwhile.    *)
(* A job is the execution of one consumed mark; the marks consumed by one   *)
(* request are a batch, a single-mark request being a batch of one.  A write *)
(* put on the wire may be applied, refused or lost, and may be applied after *)
(* the broker gave up waiting or restarted.                                 *)
(****************************************************************************)
EXTENDS Integers, FiniteSets, Functions

CONSTANTS Subjects, Messages, Drafts, NoDraft, MarkerIds, TTL, MaxMarks, MaxTime,
    Gone,        \* Gmail no longer has the draft
    MaxReads     \* bound on the revisions read and not yet registered

ASSUME StoreAssumption ==
    /\ NoDraft \notin Drafts
    /\ TTL \in Nat \ {0}
    /\ MaxMarks \in Nat
    /\ MaxTime \in Nat

VARIABLES
    marks, now, held, issued, spent,   \* the store: module ActionMarks
    draftAt,     \* Gmail: the message ID (revision) each draft has now, or Gone
    retired,     \* Gmail: message IDs that were a revision; never used again
    inTrash,     \* Gmail: messages in TRASH
    reading,     \* mark_draft_action / mark: revisions read, not yet registered
    jobs,        \* the marks being executed: marker -> job
    fatal,       \* batches whose `fatal` flag is set
    wire,        \* every write ever dispatched to Gmail, and what became of it
    answers,     \* history: the outcome reported for each executed marker
    editedSince  \* history: markers whose draft was edited after the last preflight

store == <<marks, now, held, issued, spent>>
gmail == <<draftAt, retired, inTrash>>
work == <<reading, jobs, fatal, wire, answers, editedSince>>
vars == <<store, gmail, work>>

Store == INSTANCE ActionMarks

DraftKinds == {"DeleteDraft", "SendDraft"}
\* What the caller is told.  Two of them say that the operation failed: "Failed", in a
\* bulk item or with a status or a check that the single handler names, and
\* "Unavailable", a single handler's "Gmail could not delete draft" or "Gmail could not
\* move the message to Trash", for every other error.
Outcomes == {"Succeeded", "Failed", "Unavailable", "Unknown", "NotAttempted"}
Phases == {"queued", "preflight", "write", "awaiting", "refresh", "readback", "done"}
Resource == [message : Messages, draft : Drafts \cup {NoDraft}]

Job == [batch : SUBSET MarkerIds, bulk : BOOLEAN, subject : Subjects, kind : Store!Kinds,
        about : Resource, phase : Phases, attempt : 1..2, outcome : Outcomes \cup {"none"}]

\* One HTTP request that changes something at Gmail.  `on` is the revision it was
\* applied to, `raced` whether an edit came between its preflight and that moment.
Write == [id : MarkerIds, attempt : 1..2, subject : Subjects, kind : Store!Kinds,
          about : Resource, state : {"sent", "applied", "refused", "denied"},
          on : Messages \cup {NoDraft}, raced : BOOLEAN]

Init ==
    /\ Store!Init
    /\ draftAt \in Injection(Subjects \X Drafts, Messages)
    /\ retired = {}
    /\ inTrash = {}
    /\ reading = {}
    /\ jobs = [i \in {} |-> {}]
    /\ fatal = {}
    /\ wire = {}
    /\ answers = [i \in {} |-> {}]
    /\ editedSince = {}

------------------------------------------------------------------------------
(* Marking.                                                                 *)

\* register_action_mark(s) succeeds, or is refused.
Register(s, rs, kind) ==
    \/ Store!RegisterActionMarks(s, rs, kind)
    \/ \E r \in rs : rs = {r} /\ Store!RegisterActionMark(s, r, kind)
    \/ Store!RegisterRefused(s, rs)

\* The provider call of mark_draft_action, and of each item of bulk_drafts::mark:
\* the draft's message ID is read long before the mark is registered.
ReadRevision(s, d, kind) ==
    /\ Cardinality(reading) < MaxReads
    /\ draftAt[<<s, d>>] # Gone
    /\ reading' = reading \cup
          {[subject |-> s, kind |-> kind, about |-> [message |-> draftAt[<<s, d>>], draft |-> d]]}
    /\ UNCHANGED <<store, gmail, jobs, fatal, wire, answers, editedSince>>

MarkDrafts(s, kind) ==
    \E rs \in (SUBSET {r.about : r \in {q \in reading : q.subject = s /\ q.kind = kind}}) \ {{}} :
        /\ Register(s, rs, kind)
        /\ reading' = {q \in reading : ~(q.subject = s /\ q.kind = kind /\ q.about \in rs)}
        /\ UNCHANGED <<gmail, jobs, fatal, wire, answers, editedSince>>

\* mark_emails_for_deletion does not call Gmail.
MarkEmails(s) ==
    /\ \E rs \in Store!Requests("TrashMessage") : Register(s, rs, "TrashMessage")
    /\ UNCHANGED <<gmail, work>>

------------------------------------------------------------------------------
(* Executing.                                                               *)

\* Mutant: the mark's message and draft swapped.
JobForSwapped(i, s, ids, kind, bulk) ==
    LET k == CHOOSE j \in DOMAIN marks : marks[j].id = i
    IN  [batch |-> ids, bulk |-> bulk, subject |-> s, kind |-> kind,
         about |-> [message |-> marks[k].draft, draft |-> k[2]],
         phase |-> "queued", attempt |-> 1, outcome |-> "none"]

\* A job works from the clone of its mark and from the request's account.
JobFor(i, s, ids, kind, bulk) ==
    LET k == CHOOSE j \in DOMAIN marks : marks[j].id = i
    IN  [batch |-> ids, bulk |-> bulk, subject |-> s, kind |-> kind,
         about |-> [message |-> k[2], draft |-> marks[k].draft],
         phase |-> "queued", attempt |-> 1, outcome |-> "none"]

\* consume_action_mark(s), then one job per mark.
Consume(s, ids, kind, bulk) ==
    /\ bulk \/ Cardinality(ids) = 1
    /\ Store!ConsumeActionMarks(s, ids, kind)
    /\ jobs' = [i \in DOMAIN jobs \cup ids |->
          IF i \in DOMAIN jobs THEN jobs[i] ELSE JobFor(i, s, ids, kind, bulk)]
    /\ UNCHANGED <<gmail, reading, fatal, wire, answers, editedSince>>

To(i, phase) == jobs' = [jobs EXCEPT ![i].phase = phase]
End(i, outcome) == jobs' = [jobs EXCEPT ![i] = [@ EXCEPT !.phase = "done", !.outcome = outcome]]

\* DraftOperationFailure::Credential stops the rest of the batch; nothing the job
\* dispatched was accepted.
CredentialFailure(i) ==
    /\ fatal' = fatal \cup {jobs[i].batch}
    /\ End(i, IF jobs[i].bulk THEN "NotAttempted" ELSE "Failed")

\* Mutant: every 401 is retried.
DeniedAlways(i) == To(i, "refresh")

\* A 401 from Gmail: refresh the token and repeat the operation, once.
Denied(i) ==
    IF jobs[i].attempt = 1 THEN To(i, "refresh") ELSE End(i, "Failed")

\* The last lines of the error mappings.  Bulk items and single sending say that they
\* do not know; single deletion and single moves to Trash say that Gmail could not do it.
Unnamed(i) ==
    IF jobs[i].bulk \/ jobs[i].kind = "SendDraft" THEN "Unknown" ELSE "Unavailable"

\* An error of the reads before the write.  A bulk handler sees that nothing was
\* dispatched; a single one maps it like an error of the write.
ReadError(i) == End(i, "Failed") \/ (~jobs[i].bulk /\ End(i, Unnamed(i)))

\* run_items: the flag is read before the item asks for a token.
Start(i) ==
    /\ jobs[i].phase = "queued"
    /\ IF jobs[i].batch \in fatal
       THEN End(i, "NotAttempted") /\ UNCHANGED fatal
       ELSE \/ To(i, "preflight") /\ UNCHANGED fatal
            \/ CredentialFailure(i)
    /\ UNCHANGED <<store, gmail, reading, wire, answers, editedSince>>

\* Mutant: the retry repeats the write alone.
AfterRefreshWrite == "write"

\* refresh_rejected_token, then the whole closure again, preflight included.
AfterRefresh == "preflight"
Refresh(i) ==
    /\ jobs[i].phase = "refresh"
    /\ \/ /\ jobs' = [jobs EXCEPT ![i] = [@ EXCEPT !.phase = AfterRefresh, !.attempt = 2]]
          /\ UNCHANGED fatal
       \/ CredentialFailure(i)
    /\ UNCHANGED <<store, gmail, reading, wire, answers, editedSince>>

DraftMessages(s) == {draftAt[<<s, d>>] : d \in Drafts}

\* execute_draft_action's revision check; trash_email's ensure_not_draft.
Unchanged(i) ==
    LET j == jobs[i]
    IN  IF j.kind \in DraftKinds THEN draftAt[<<j.subject, j.about.draft>>] = j.about.message
        ELSE j.about.message \notin DraftMessages(j.subject)

Preflight(i) ==
    /\ jobs[i].phase = "preflight"
    /\ \/ Denied(i) /\ UNCHANGED editedSince
       \/ ReadError(i) /\ UNCHANGED editedSince
       \/ /\ IF Unchanged(i) THEN To(i, "write") ELSE End(i, "Failed")
          /\ editedSince' = editedSince \ {i}
    /\ UNCHANGED <<store, gmail, reading, fatal, wire, answers>>

Dispatch(i) ==
    /\ jobs[i].phase = "write"
    /\ To(i, "awaiting")
    /\ wire' = wire \cup
          {[id |-> i, attempt |-> jobs[i].attempt, subject |-> jobs[i].subject,
            kind |-> jobs[i].kind, about |-> jobs[i].about, state |-> "sent",
            on |-> NoDraft, raced |-> FALSE]}
    /\ UNCHANGED <<store, gmail, reading, fatal, answers, editedSince>>

\* Only the bulk deletion of messages reads the label back.
Verified(i) == jobs[i].bulk /\ jobs[i].kind = "TrashMessage"

\* Mutants: an unanswered write is repeated; or a bulk item with one reported as failed.
UnansweredRetried(i) == Denied(i)
UnansweredFailed(i) == End(i, IF jobs[i].bulk THEN "Failed" ELSE Unnamed(i))

\* No usable answer to the write: a timeout, a lost connection, a 5xx, a body that does
\* not parse.  A bulk move to Trash reads the label, the others settle at once.
Unanswered(i) == IF Verified(i) THEN To(i, "readback") ELSE End(i, Unnamed(i))

Receive(i) ==
    /\ jobs[i].phase = "awaiting"
    /\ \/ Unanswered(i)
       \/ \E w \in wire :
             /\ w.id = i /\ w.attempt = jobs[i].attempt
             /\ \/ w.state = "applied"
                   /\ IF Verified(i) THEN To(i, "readback") ELSE End(i, "Succeeded")
                \/ w.state = "refused" /\ End(i, "Failed")
                \/ w.state = "denied" /\ Denied(i)
    /\ UNCHANGED <<store, gmail, reading, fatal, wire, answers, editedSince>>

\* trash_email_verified: anything but a TRASH label seen is an unknown write.
Readback(i) ==
    /\ jobs[i].phase = "readback"
    /\ \/ <<jobs[i].subject, jobs[i].about.message>> \in inTrash /\ End(i, "Succeeded")
       \/ End(i, "Unknown")
    /\ UNCHANGED <<store, gmail, reading, fatal, wire, answers, editedSince>>

\* Mutant: `let _ = ActionFinishGuard`, which drops the guard at once.
BatchOverAtOnce(i) == TRUE

\* When ActionFinishGuard is dropped: after every item of the batch.
BatchOver(i) == \A j \in jobs[i].batch \cap DOMAIN jobs : jobs[j].phase = "done"

FinishMark(i) ==
    /\ BatchOver(i)
    /\ \E h \in held : h.id = i /\ Store!FinishActionMark(h)
    /\ UNCHANGED <<gmail, work>>

\* The response leaves once the marks of the batch are finished.
Answer(i) ==
    /\ jobs[i].phase = "done"
    /\ BatchOver(i)
    /\ \A h \in held : h.id \notin jobs[i].batch
    /\ answers' = [j \in DOMAIN answers \cup {i} |->
                      IF j = i THEN jobs[i].outcome ELSE answers[j]]
    /\ jobs' = Restrict(jobs, DOMAIN jobs \ {i})
    /\ UNCHANGED <<store, gmail, reading, fatal, wire, editedSince>>

Restart ==
    /\ Store!Restart
    /\ reading' = {}
    /\ jobs' = [i \in {} |-> {}]
    /\ fatal' = {}
    /\ UNCHANGED <<gmail, wire, answers, editedSince>>

------------------------------------------------------------------------------
(* Gmail, and the people who use the same mailbox.                          *)

Becomes(w, state, on) ==
    wire' = (wire \ {w}) \cup
        {[w EXCEPT !.state = state, !.on = on, !.raced = w.id \in editedSince]}

\* drafts.send and drafts.delete act on the draft ID, whatever its revision is.
Applies(w) ==
    /\ w.state = "sent"
    /\ IF w.kind \in DraftKinds
       THEN LET at == <<w.subject, w.about.draft>>
            IN  /\ draftAt[at] # Gone
                /\ Becomes(w, "applied", draftAt[at])
                /\ draftAt' = [draftAt EXCEPT ![at] = Gone]
                /\ retired' = retired \cup {<<w.subject, draftAt[at]>>}
                /\ UNCHANGED inTrash
       ELSE /\ Becomes(w, "applied", NoDraft)
            /\ inTrash' = inTrash \cup {<<w.subject, w.about.message>>}
            /\ UNCHANGED <<draftAt, retired>>
    /\ UNCHANGED <<store, reading, jobs, fatal, answers, editedSince>>

\* A 4xx changes nothing: 401 is a rejected token, the others a refused request.
Rejects(w) ==
    /\ w.state = "sent"
    /\ Becomes(w, "refused", NoDraft) \/ Becomes(w, "denied", NoDraft)
    /\ UNCHANGED <<store, gmail, reading, jobs, fatal, answers, editedSince>>

\* An edit gives the draft a message ID Gmail never used before.
Edit(s, d, m) ==
    /\ draftAt[<<s, d>>] # Gone
    /\ m \notin DraftMessages(s)
    /\ <<s, m>> \notin retired \cup inTrash
    /\ draftAt' = [draftAt EXCEPT ![<<s, d>>] = m]
    /\ retired' = retired \cup {<<s, draftAt[<<s, d>>]>>}
    /\ editedSince' = editedSince \cup
          {i \in DOMAIN jobs \cup {w.id : w \in wire} :
              issued[i].subject = s /\ issued[i].draft = d}
    /\ UNCHANGED <<store, inTrash, reading, jobs, fatal, wire, answers>>

\* A person sends or deletes the draft.
Discard(s, d) ==
    /\ draftAt[<<s, d>>] # Gone
    /\ draftAt' = [draftAt EXCEPT ![<<s, d>>] = Gone]
    /\ retired' = retired \cup {<<s, draftAt[<<s, d>>]>>}
    /\ UNCHANGED <<store, inTrash, work>>

Tick == Store!Tick /\ UNCHANGED <<gmail, work>>

JobStep(i) ==
    /\ i \in DOMAIN jobs
    /\ \/ Start(i)
       \/ Preflight(i)
       \/ Dispatch(i)
       \/ Receive(i)
       \/ Refresh(i)
       \/ Readback(i)
       \/ FinishMark(i)
       \/ Answer(i)

\* Requests that mark or execute, the handlers' steps, what Gmail does, and a restart.
MailStep ==
    \/ \E s \in Subjects :
          \/ MarkEmails(s)
          \/ \E kind \in Store!Kinds, ids \in (SUBSET DOMAIN issued) \ {{}}, bulk \in BOOLEAN :
                Consume(s, ids, kind, bulk)
    \/ \E i \in MarkerIds : JobStep(i)
    \/ \E w \in wire : Applies(w) \/ Rejects(w)
    \/ Restart

\* Marking drafts, and people who edit, send and delete them.
DraftStep ==
    \E s \in Subjects :
       \/ \E kind \in DraftKinds :
             MarkDrafts(s, kind) \/ \E d \in Drafts : ReadRevision(s, d, kind)
       \/ \E d \in Drafts : Discard(s, d) \/ \E m \in Messages : Edit(s, d, m)

Next == MailStep \/ DraftStep \/ Tick

\* A handler's thread keeps running and its HTTP client waits at most 30 seconds.
\* Nothing is assumed of Gmail, of the people or of the requests that mark.
Fairness == \A i \in MarkerIds : WF_vars(JobStep(i))

Spec == Init /\ [][Next]_vars

------------------------------------------------------------------------------
TypeOK ==
    /\ draftAt \in [Subjects \X Drafts -> Messages \cup {Gone}]
    /\ retired \subseteq Subjects \X Messages
    /\ inTrash \subseteq Subjects \X Messages
    /\ reading \subseteq [subject : Subjects, kind : DraftKinds, about : Resource]
    /\ DOMAIN jobs \subseteq MarkerIds /\ \A i \in DOMAIN jobs : jobs[i] \in Job
    /\ fatal \subseteq SUBSET MarkerIds
    /\ wire \subseteq Write
    /\ DOMAIN answers \subseteq MarkerIds /\ \A i \in DOMAIN answers : answers[i] \in Outcomes
    /\ editedSince \subseteq MarkerIds

\* A marker is dispatched again only after Gmail rejected the token of its first
\* write: no timeout, 5xx or failed verification ever repeats a write, so one
\* marker never has two writes that could both take effect.
OneEffectPerMarker ==
    \A w, v \in wire : w.id = v.id /\ w.attempt < v.attempt => w.state = "denied"

\* Whatever was edited before or while the handler ran, and whichever attempt it
\* is, a draft is sent or deleted at the revision that was marked, unless the edit
\* fell in the window after that very attempt's check.
EffectOnMarkedRevision ==
    \A w \in wire :
        w.state = "applied" /\ w.kind \in DraftKinds
        => w.raced \/ w.on = issued[w.id].message

\* What the caller is told is true and stays true: "Failed" and "NotAttempted"
\* promise that no write of this marker took or will take effect, "Succeeded" that
\* it did (or, verified by label, that the message is in TRASH).  It says nothing of
\* "Unavailable": there a single deletion or move to Trash is told to have failed, and
\* the write whose answer was lost may have been, or may still be, carried out.
AnswersTruthful ==
    \A i \in DOMAIN answers :
        /\ answers[i] \in {"Failed", "NotAttempted"}
           => \A w \in wire : w.id = i => w.state \in {"refused", "denied"}
        /\ answers[i] = "Succeeded"
           => \/ \E w \in wire : w.id = i /\ w.state = "applied"
              \/ <<issued[i].subject, issued[i].message>> \in inTrash

\* "An in-flight action blocks transitions" (gmail-broker.md:98): no two handlers
\* wait for Gmail on one draft or one message of an account.
NoOverlappingWrites ==
    \A i, j \in DOMAIN jobs :
        i # j /\ {jobs[i].phase, jobs[j].phase} \subseteq {"write", "awaiting", "readback"}
        => ~Store!Conflict(issued[i], issued[j])

\* Every executed marker is answered and its slot freed, whatever Gmail, the token
\* endpoint and the rest of its batch do, unless the broker restarts.
EveryJobEnds ==
    \A i \in MarkerIds : (i \in DOMAIN jobs) ~> (i \notin DOMAIN jobs /\ \A h \in held : h.id # i)
================================================================================
