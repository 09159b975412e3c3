----------------------------- MODULE MarkedProofs -----------------------------
(****************************************************************************)
(* Proofs about the handlers that work on marks, for every number of        *)
(* accounts, drafts, messages and markers, and every sequence of edits,     *)
(* retries, late writes and restarts.  The store's part of the invariant is *)
(* the one proved in ActionMarksProofs.                                     *)
(****************************************************************************)
EXTENDS MarkedActions, TLAPS, FiniteSetTheorems

P == INSTANCE ActionMarksProofs

\* The draft of marker i is where the mark saw it, gone, or edited since the last check.
AtMarked(i) ==
    \/ draftAt[<<issued[i].subject, issued[i].draft>>] \in {issued[i].message, Gone}
    \/ i \in editedSince

\* What a reported outcome promises of the writes of marker i.
Truth(i, outcome) ==
    /\ outcome \in {"Failed", "NotAttempted"}
       => \A w \in wire : w.id = i => w.state \in {"refused", "denied"}
    /\ outcome = "Succeeded"
       => \/ \E w \in wire : w.id = i /\ w.state = "applied"
          \/ <<issued[i].subject, issued[i].message>> \in inTrash

\* A job or a write carries what marker i was issued for.
Carries(x, i) ==
    /\ x.subject = issued[i].subject
    /\ x.kind = issued[i].kind
    /\ x.about = [message |-> issued[i].message, draft |-> issued[i].draft]

\* Revisions read at Gmail and not yet registered.
Reading == [subject : Subjects, kind : DraftKinds, about : [message : Messages, draft : Drafts]]

Typed ==
    /\ draftAt \in [Subjects \X Drafts -> Messages \cup {Gone}]
    /\ retired \subseteq Subjects \X Messages
    /\ inTrash \subseteq Subjects \X Messages
    /\ reading \subseteq Reading
    /\ IsFiniteSet(reading)
    /\ fatal \subseteq SUBSET MarkerIds
    /\ wire \subseteq Write
    /\ editedSince \subseteq MarkerIds
    /\ \A i \in DOMAIN answers : answers[i] \in Outcomes

\* A mark of a draft names the draft.
IssuedDrafts == \A i \in DOMAIN issued : issued[i].kind \in DraftKinds => issued[i].draft \in Drafts

\* A job executes a consumed marker nobody was answered for yet, and holds its mark
\* until it is done.
JobsKnown ==
    \A i \in DOMAIN jobs :
        /\ i \in spent
        /\ i \notin DOMAIN answers
        /\ jobs[i] \in Job
        /\ i \in jobs[i].batch
        /\ Carries(jobs[i], i)
        /\ jobs[i].phase # "done" => \E h \in held : h.id = i

\* Only consumed markers were ever answered or written for.
HistoryKnown ==
    /\ DOMAIN answers \subseteq spent
    /\ \A w \in wire : w.id \in spent /\ Carries(w, w.id)
    /\ \A w, v \in wire : w.id = v.id /\ w.attempt = v.attempt => w = v

\* Where a job is tells what became of the writes of its marker.
Fits(i, phase, attempt, outcome) ==
    /\ phase = "refresh" => attempt = 1
    /\ \A w \in wire : w.id = i =>
          /\ w.attempt <= attempt
          /\ w.attempt < attempt => w.state = "denied"
          /\ phase \in {"queued", "preflight", "write"} => w.attempt < attempt
          /\ phase = "refresh" => w.state = "denied"
    /\ phase = "done" => outcome \in Outcomes /\ Truth(i, outcome)
    /\ phase = "write" /\ issued[i].kind \in DraftKinds => AtMarked(i)

JobFine(i) == Fits(i, jobs[i].phase, jobs[i].attempt, jobs[i].outcome)

\* A write that is still under way finds the draft as it was checked, or edited since.
SentAtMarked == \A w \in wire : w.state = "sent" /\ w.kind \in DraftKinds => AtMarked(w.id)

\* The inductive invariant.
Inv ==
    /\ P!IInv
    /\ Typed
    /\ IssuedDrafts
    /\ JobsKnown
    /\ HistoryKnown
    /\ \A i \in DOMAIN jobs : JobFine(i)
    /\ \A i \in DOMAIN answers : Truth(i, answers[i])
    /\ SentAtMarked
    /\ OneEffectPerMarker
    /\ EffectOnMarkedRevision

------------------------------------------------------------------------------
(* The store: what the handlers call is what ActionMarksProofs is about.    *)

\* The store's constants are the handlers'.
LEMMA StoreAssumed == P!ActionMarksAssumption
  BY StoreAssumption DEF P!ActionMarksAssumption

\* Both instances count alike.
LEMMA SameCardinality == \A S : Store!Cardinality(S) = P!Cardinality(S)
  BY DEF Store!Cardinality, P!Cardinality

\* And so does this module.
LEMMA SameFiniteness == \A S : IsFiniteSet(S) <=> P!IsFiniteSet(S)
  BY DEF IsFiniteSet, P!IsFiniteSet

\* Both keep the same marks.
LEMMA RetainedSame == Store!Retained = P!Retained /\ Store!NextSerial = P!NextSerial
  BY SameCardinality
     DEF Store!Retained, P!Retained, Store!Unexpired, P!Unexpired, Store!NextSerial, P!NextSerial

\* Both find the same marks in the way of a request.
LEMMA OverlappingSame == \A s, rs : Store!Overlapping(s, rs) = P!Overlapping(s, rs)
  BY RetainedSame DEF Store!Overlapping, P!Overlapping, Store!SameResource, P!SameResource

\* Both refuse a bulk registration alike.
LEMMA LimitsSame ==
  \A s, rs : /\ Store!InProgress(s, rs) = P!InProgress(s, rs)
             /\ Store!BulkLimit(s, rs) = P!BulkLimit(s, rs)
  BY RetainedSame, OverlappingSame, SameCardinality
     DEF Store!InProgress, P!InProgress, Store!BulkLimit, P!BulkLimit

\* Both refuse a single registration alike.
LEMMA SingleLimitSame == \A s, r : Store!SingleLimit(s, r) = P!SingleLimit(s, r)
  BY RetainedSame, OverlappingSame, SameCardinality DEF Store!SingleLimit, P!SingleLimit

\* Both draw the same markers and refuse the same repetitions.
LEMMA IdentitiesSame ==
  \A rs : Store!FreshIds(rs) = P!FreshIds(rs) /\ Store!Distinct(rs) = P!Distinct(rs)
  BY DEF Store!FreshIds, P!FreshIds, Store!Distinct, P!Distinct

\* Both replace the same marks by the same ones.
LEMMA ReplaceSame ==
  ASSUME NEW s, NEW rs, NEW kind, NEW id
  PROVE Store!Replace(s, rs, kind, id) <=> P!Replace(s, rs, kind, id)
  <1>1. Store!Retained \ Store!Overlapping(s, rs) = P!Retained \ P!Overlapping(s, rs)
    BY RetainedSame, OverlappingSame
  <1>2. \A r, i : Store!NewMark(r, kind, i) = P!NewMark(r, kind, i)
    BY DEF Store!NewMark, P!NewMark
  <1>3. Store!NextSerial = P!NextSerial
    BY RetainedSame
  <1> DEFINE keep == Store!Retained \ Store!Overlapping(s, rs)
             kept == P!Retained \ P!Overlapping(s, rs)
             new == {<<s, r.message>> : r \in rs}
             at(k) == CHOOSE r \in rs : r.message = k[2]
             who(i) == CHOOSE q \in rs : id[q] = i
             map(keys) == [k \in keys \cup new |->
                             IF k \in new THEN Store!NewMark(at(k), kind, id[at(k)]) ELSE marks[k]]
             log(n) == [i \in DOMAIN issued \cup {id[r] : r \in rs} |->
                            IF i \in DOMAIN issued THEN issued[i]
                            ELSE [subject |-> s, message |-> who(i).message, draft |-> who(i).draft,
                                  kind |-> kind, at |-> now, serial |-> n]]
  <1>4. Store!Replace(s, rs, kind, id) <=>
           /\ marks' = map(keep) /\ issued' = log(Store!NextSerial)
           /\ UNCHANGED <<now, held, spent>>
    BY DEF Store!Replace
  <1>5. P!Replace(s, rs, kind, id) <=>
           /\ marks' = map(kept) /\ issued' = log(P!NextSerial)
           /\ UNCHANGED <<now, held, spent>>
    BY DEF P!Replace, Store!NewMark, P!NewMark
  <1> HIDE DEF map, log
  <1>. QED
    BY <1>1, <1>3, <1>4, <1>5

\* register_action_marks, as the handlers call it, is the store's.
LEMMA MarksAreStoreStep ==
  ASSUME NEW s, NEW rs, NEW kind
  PROVE  Store!RegisterActionMarks(s, rs, kind) => P!RegisterActionMarks(s, rs, kind)
  BY LimitsSame, IdentitiesSame, ReplaceSame
     DEF Store!RegisterActionMarks, P!RegisterActionMarks

\* So is register_action_mark.
LEMMA MarkIsStoreStep ==
  ASSUME NEW s, NEW r, NEW kind
  PROVE  Store!RegisterActionMark(s, r, kind) => P!RegisterActionMark(s, r, kind)
  BY LimitsSame, SingleLimitSame, IdentitiesSame, ReplaceSame
     DEF Store!RegisterActionMark, P!RegisterActionMark

\* So is a refusal.
LEMMA RefusalIsStoreStep ==
  ASSUME NEW s, NEW rs
  PROVE  Store!RegisterRefused(s, rs) => P!RegisterRefused(s, rs)
  BY RetainedSame, LimitsSame, SingleLimitSame, IdentitiesSame
     DEF Store!RegisterRefused, P!RegisterRefused

\* So is consume_action_marks.
LEMMA ConsumeIsStoreStep ==
  ASSUME NEW s, NEW ids, NEW kind
  PROVE  Store!ConsumeActionMarks(s, ids, kind) => P!ConsumeActionMarks(s, ids, kind)
  BY DEF Store!ConsumeActionMarks, P!ConsumeActionMarks, Store!Redeemable, P!Redeemable, Store!Unexpired, P!Unexpired

\* Both are asked for the same resources.
LEMMA RequestsAreStoreRequests == \A kind : Store!Requests(kind) = P!Requests(kind)
  BY DEF Store!Requests, P!Requests, Store!Resources, P!Resources, Store!IsFiniteSet, P!IsFiniteSet

\* finish_action_mark, as the handlers call it, is the store's.
LEMMA FinishIsStoreStep ==
  ASSUME NEW h
  PROVE  Store!FinishActionMark(h) => P!FinishActionMark(h)
  BY DEF Store!FinishActionMark, P!FinishActionMark

\* So is the restart.
LEMMA RestartIsStoreStep == Store!Restart => P!Restart
  BY DEF Store!Restart, P!Restart

\* And the clock.
LEMMA TickIsStoreStep == Store!Tick => P!Tick
  BY DEF Store!Tick, P!Tick

\* A marker of a draft names a slot of the mailbox.
LEMMA IssuedSlot ==
  ASSUME Inv, NEW i \in DOMAIN issued, issued[i].kind \in DraftKinds
  PROVE  <<issued[i].subject, issued[i].draft>> \in Subjects \X Drafts
PROOF
  <1>1. issued[i].subject \in Subjects
    BY DEF Inv, P!IInv, P!TypeOK, P!Issue
  <1>2. QED
    BY <1>1 DEF Inv, IssuedDrafts

\* Only issued markers are executed or written for.
LEMMA ExecutedIssued ==
  ASSUME Inv
  PROVE  DOMAIN jobs \cup {w.id : w \in wire} \subseteq DOMAIN issued
  BY DEF Inv, P!IInv, P!TypeOK, JobsKnown, HistoryKnown

------------------------------------------------------------------------------
(* Steps of one job.                                                        *)

\* The job of marker i, and no other, is now at that phase, attempt and outcome.
Moved(i, phase, attempt, outcome) ==
    /\ DOMAIN jobs' = DOMAIN jobs
    /\ \A k \in DOMAIN jobs : k # i => jobs'[k] = jobs[k]
    /\ jobs'[i] \in Job
    /\ jobs'[i].batch = jobs[i].batch
    /\ jobs'[i].subject = jobs[i].subject
    /\ jobs'[i].kind = jobs[i].kind
    /\ jobs'[i].about = jobs[i].about
    /\ jobs'[i].phase = phase
    /\ jobs'[i].attempt = attempt
    /\ jobs'[i].outcome = outcome

\* What To, End and Refresh's assignment do to the job.
LEMMA ToMoves ==
  ASSUME NEW i \in DOMAIN jobs, jobs[i] \in Job, NEW phase \in Phases, To(i, phase)
  PROVE  Moved(i, phase, jobs[i].attempt, jobs[i].outcome)
PROOF
  <1>1. jobs'[i] = [jobs[i] EXCEPT !.phase = phase]
    BY DEF To
  <1>2. QED
    BY <1>1 DEF To, Moved, Job, Phases

\* The same of the end of a job.
LEMMA EndMoves ==
  ASSUME NEW i \in DOMAIN jobs, jobs[i] \in Job, NEW outcome \in Outcomes, End(i, outcome)
  PROVE  Moved(i, "done", jobs[i].attempt, outcome)
PROOF
  <1>1. jobs'[i] = [jobs[i] EXCEPT !.phase = "done", !.outcome = outcome]
    BY DEF End
  <1>2. QED
    BY <1>1 DEF End, Moved, Job, Phases

\* The same of the repetition after a refreshed token.
LEMMA RefreshMoves ==
  ASSUME NEW i \in DOMAIN jobs, jobs[i] \in Job,
         jobs' = [jobs EXCEPT ![i] = [@ EXCEPT !.phase = AfterRefresh, !.attempt = 2]]
  PROVE  Moved(i, "preflight", 2, jobs[i].outcome)
PROOF
  <1>1. jobs'[i] = [jobs[i] EXCEPT !.phase = "preflight", !.attempt = 2]
    BY DEF AfterRefresh
  <1>2. /\ DOMAIN jobs' = DOMAIN jobs
        /\ \A k \in DOMAIN jobs : k # i => jobs'[k] = jobs[k]
    OBVIOUS
  <1>3. jobs'[i] \in Job
    <2>1. 2 \in 1..2
      OBVIOUS
    <2>2. QED
      BY <1>1, <2>1 DEF Job, Phases
  <1>4. QED
    BY <1>1, <1>2, <1>3 DEF Moved, Job

\* A step of one handler that moves its job on and writes nothing at Gmail.
LEMMA MovePreserves ==
  ASSUME Inv, NEW i \in DOMAIN jobs, NEW phase, NEW attempt, NEW outcome,
         jobs[i].phase # "done", Moved(i, phase, attempt, outcome),
         Fits(i, phase, attempt, outcome),
         UNCHANGED <<store, gmail, reading, wire, answers>>,
         fatal' \subseteq SUBSET MarkerIds,
         \/ editedSince' = editedSince
         \/ /\ jobs[i].phase = "preflight"
            /\ editedSince' = editedSince \ {i}
            /\ phase = "write" /\ issued[i].kind \in DraftKinds
               => draftAt[<<issued[i].subject, issued[i].draft>>] = issued[i].message
  PROVE  Inv'
PROOF
  <1>0. /\ UNCHANGED <<marks, now, held, issued, spent>>
        /\ UNCHANGED <<draftAt, retired, inTrash>>
        /\ UNCHANGED <<reading, wire, answers>>
    BY DEF store, gmail
  <1>1. P!IInv'
    <2>1. P!IInv /\ UNCHANGED P!vars
      BY <1>0 DEF Inv, P!vars
    <2>2. QED
      BY <2>1, P!NextPreserves, StoreAssumed
  <1>2. Typed' /\ IssuedDrafts' /\ HistoryKnown'
    BY <1>0 DEF Inv, Typed, IssuedDrafts, HistoryKnown, Carries
  <1>3. JobsKnown'
    <2>1. SUFFICES ASSUME NEW k \in DOMAIN jobs
                   PROVE /\ jobs'[k] \in Job
                         /\ k \in jobs'[k].batch
                         /\ Carries(jobs'[k], k)
                         /\ jobs'[k].phase # "done" => \E h \in held : h.id = k
      BY <1>0 DEF Inv, JobsKnown, Moved, Carries
    <2>2. CASE k = i
      BY <2>2 DEF Inv, JobsKnown, Moved, Carries
    <2>3. CASE k # i
      BY <2>3 DEF Inv, JobsKnown, Moved
    <2>4. QED
      BY <2>2, <2>3
  <1>4. \A k \in DOMAIN jobs' : JobFine(k)'
    <2>1. SUFFICES ASSUME NEW k \in DOMAIN jobs PROVE JobFine(k)'
      BY DEF Moved
    <2>2. CASE k = i
      BY <1>0, <2>2 DEF JobFine, Fits, Moved, Truth, AtMarked
    <2>3. CASE k # i
      <3>1. JobFine(k) /\ jobs'[k] = jobs[k]
        BY <2>3 DEF Inv, Moved
      <3>2. QED
        BY <1>0, <2>3, <3>1 DEF JobFine, Fits, Truth, AtMarked
    <2>4. QED
      BY <2>2, <2>3
  <1>5. \A k \in DOMAIN answers' : Truth(k, answers[k])'
    BY <1>0 DEF Inv, Truth
  <1>6. SentAtMarked'
    <2>1. SUFFICES ASSUME NEW w \in wire, w.state = "sent", w.kind \in DraftKinds
                   PROVE AtMarked(w.id)'
      BY <1>0 DEF SentAtMarked
    <2>2. AtMarked(w.id)
      BY <2>1 DEF Inv, SentAtMarked
    <2>3. jobs[i].phase = "preflight" => w.id # i
      <3>1. JobFine(i) /\ jobs[i] \in Job /\ w \in Write
        BY DEF Inv, JobsKnown, Typed
      <3>2. QED
        BY <2>1, <3>1 DEF JobFine, Fits, Job, Write
    <2>4. QED
      BY <1>0, <2>2, <2>3 DEF AtMarked
  <1>7. OneEffectPerMarker' /\ EffectOnMarkedRevision'
    BY <1>0 DEF Inv, OneEffectPerMarker, EffectOnMarkedRevision
  <1>8. QED
    BY <1>1, <1>2, <1>3, <1>4, <1>5, <1>6, <1>7 DEF Inv

\* What the invariant says of a job and of the writes of its marker.
LEMMA JobFacts ==
  ASSUME Inv, NEW i \in DOMAIN jobs
  PROVE  /\ jobs[i] \in Job
         /\ JobFine(i)
         /\ Carries(jobs[i], i)
         /\ jobs[i].about.message = issued[i].message
         /\ jobs[i].about.draft = issued[i].draft
         /\ wire \subseteq Write
         /\ fatal \subseteq SUBSET MarkerIds
         /\ \A w, v \in wire : w.id = v.id /\ w.attempt = v.attempt => w = v
PROOF
  <1>1. Carries(jobs[i], i)
    BY DEF Inv, JobsKnown
  <1>2. jobs[i].about.message = issued[i].message /\ jobs[i].about.draft = issued[i].draft
    BY <1>1 DEF Carries
  <1>3. QED
    BY <1>1, <1>2 DEF Inv, JobsKnown, HistoryKnown, Typed

\* Before a write of this attempt is dispatched, a job may end without success.
LEMMA UnwrittenEnds ==
  ASSUME Inv, NEW i \in DOMAIN jobs, jobs[i].phase \in {"queued", "preflight", "refresh"},
         NEW outcome \in Outcomes, outcome # "Succeeded"
  PROVE  Fits(i, "done", jobs[i].attempt, outcome)
  BY JobFacts DEF JobFine, Fits, Truth

\* So does the job whose token cannot be had; its batch is marked to stop.
LEMMA CredentialPreserves ==
  ASSUME Inv, NEW i \in DOMAIN jobs, jobs[i].phase \in {"queued", "refresh"},
         CredentialFailure(i),
         UNCHANGED <<store, gmail, reading, wire, answers, editedSince>>
  PROVE  Inv'
PROOF
  <1>1. PICK outcome \in {"NotAttempted", "Failed"} : End(i, outcome)
    BY DEF CredentialFailure
  <1>2. outcome \in Outcomes /\ outcome # "Succeeded"
    BY DEF Outcomes
  <1>3. Moved(i, "done", jobs[i].attempt, outcome)
    BY <1>1, <1>2, JobFacts, EndMoves
  <1>4. Fits(i, "done", jobs[i].attempt, outcome)
    BY <1>2, UnwrittenEnds
  <1>5. fatal' \subseteq SUBSET MarkerIds
    BY JobFacts DEF CredentialFailure, Job
  <1>6. QED
    BY <1>3, <1>4, <1>5, MovePreserves

\* A job leaves the queue for its preflight, or ends there.
LEMMA StartPreserves ==
  ASSUME Inv, NEW i \in DOMAIN jobs, Start(i)
  PROVE  Inv'
PROOF
  <1>1. /\ jobs[i].phase = "queued"
        /\ UNCHANGED <<store, gmail, reading, wire, answers, editedSince>>
    BY DEF Start
  <1>2. CASE End(i, "NotAttempted") /\ UNCHANGED fatal
    <2>1. Moved(i, "done", jobs[i].attempt, "NotAttempted")
      BY <1>2, JobFacts, EndMoves DEF Outcomes
    <2>2. Fits(i, "done", jobs[i].attempt, "NotAttempted")
      BY <1>1, UnwrittenEnds DEF Outcomes
    <2>3. QED
      BY <1>1, <1>2, <2>1, <2>2, JobFacts, MovePreserves
  <1>3. CASE To(i, "preflight") /\ UNCHANGED fatal
    <2>1. Moved(i, "preflight", jobs[i].attempt, jobs[i].outcome)
      BY <1>3, JobFacts, ToMoves DEF Phases
    <2>2. Fits(i, "preflight", jobs[i].attempt, jobs[i].outcome)
      BY <1>1, JobFacts DEF JobFine, Fits
    <2>3. QED
      BY <1>1, <1>3, <2>1, <2>2, JobFacts, MovePreserves
  <1>4. CASE CredentialFailure(i)
    BY <1>1, <1>4, CredentialPreserves
  <1>5. QED
    BY <1>2, <1>3, <1>4 DEF Start

\* The whole operation again with a new token, or its end.
LEMMA RefreshPreserves ==
  ASSUME Inv, NEW i \in DOMAIN jobs, Refresh(i)
  PROVE  Inv'
PROOF
  <1>1. /\ jobs[i].phase = "refresh"
        /\ UNCHANGED <<store, gmail, reading, wire, answers, editedSince>>
    BY DEF Refresh
  <1>2. CASE /\ jobs' = [jobs EXCEPT ![i] = [@ EXCEPT !.phase = AfterRefresh, !.attempt = 2]]
             /\ UNCHANGED fatal
    <2>1. Moved(i, "preflight", 2, jobs[i].outcome)
      BY <1>2, JobFacts, RefreshMoves
    <2>2. /\ jobs[i].attempt = 1
          /\ \A w \in wire : w.id = i => w.attempt < 2 /\ w.attempt <= 2 /\ w.state = "denied"
      BY <1>1, JobFacts DEF JobFine, Fits, Write
    <2>3. Fits(i, "preflight", 2, jobs[i].outcome)
      BY <2>2 DEF Fits
    <2>4. fatal' \subseteq SUBSET MarkerIds
      BY <1>2, JobFacts
    <2>5. QED
      BY <1>1, <2>1, <2>3, <2>4, MovePreserves
  <1>3. CASE CredentialFailure(i)
    BY <1>1, <1>3, CredentialPreserves
  <1>4. QED
    BY <1>2, <1>3 DEF Refresh

\* A rejected token: once for a refresh, then for the end.
LEMMA DeniedMoves ==
  ASSUME Inv, NEW i \in DOMAIN jobs, Denied(i),
         \A w \in wire : w.id = i => w.state \in {"refused", "denied"},
         jobs[i].attempt = 1 => \A w \in wire : w.id = i => w.state = "denied"
  PROVE  \/ /\ Moved(i, "refresh", jobs[i].attempt, jobs[i].outcome)
            /\ Fits(i, "refresh", jobs[i].attempt, jobs[i].outcome)
         \/ /\ Moved(i, "done", jobs[i].attempt, "Failed")
            /\ Fits(i, "done", jobs[i].attempt, "Failed")
PROOF
  <1>1. CASE jobs[i].attempt = 1
    <2>1. Moved(i, "refresh", jobs[i].attempt, jobs[i].outcome)
      BY <1>1, JobFacts, ToMoves DEF Denied, Phases
    <2>2. Fits(i, "refresh", jobs[i].attempt, jobs[i].outcome)
      BY <1>1, JobFacts DEF JobFine, Fits
    <2>3. QED
      BY <2>1, <2>2
  <1>2. CASE jobs[i].attempt # 1
    <2>1. Moved(i, "done", jobs[i].attempt, "Failed")
      BY <1>2, JobFacts, EndMoves DEF Denied, Outcomes
    <2>2. Fits(i, "done", jobs[i].attempt, "Failed")
      BY <1>2, JobFacts DEF JobFine, Fits, Truth, Outcomes
    <2>3. QED
      BY <2>1, <2>2
  <1>3. QED
    BY <1>1, <1>2

\* The check that precedes every write.
LEMMA PreflightPreserves ==
  ASSUME Inv, NEW i \in DOMAIN jobs, Preflight(i)
  PROVE  Inv'
PROOF
  <1>1. /\ jobs[i].phase = "preflight"
        /\ UNCHANGED <<store, gmail, reading, wire, answers>>
        /\ fatal' \subseteq SUBSET MarkerIds
    BY JobFacts DEF Preflight
  <1>2. CASE Denied(i) /\ UNCHANGED editedSince
    <2>1. \A w \in wire : w.id = i => w.state = "denied" /\ w.attempt < jobs[i].attempt
      BY <1>1, JobFacts DEF JobFine, Fits
    <2>2. QED
      BY <1>1, <1>2, <2>1, DeniedMoves, MovePreserves
  <1>3. CASE ReadError(i) /\ UNCHANGED editedSince
    <2>1. PICK outcome \in {"Failed", "Unknown", "Unavailable"} : End(i, outcome)
      BY <1>3 DEF ReadError, Unnamed
    <2>2. outcome \in Outcomes /\ outcome # "Succeeded"
      BY DEF Outcomes
    <2>3. Moved(i, "done", jobs[i].attempt, outcome)
      BY <2>1, <2>2, JobFacts, EndMoves
    <2>4. Fits(i, "done", jobs[i].attempt, outcome)
      BY <1>1, <2>2, UnwrittenEnds
    <2>5. QED
      BY <1>1, <1>3, <2>3, <2>4, MovePreserves
  <1>4. CASE Unchanged(i) /\ To(i, "write") /\ editedSince' = editedSince \ {i}
    <2>1. Moved(i, "write", jobs[i].attempt, jobs[i].outcome)
      BY <1>4, JobFacts, ToMoves DEF Phases
    <2>2. issued[i].kind \in DraftKinds
          => draftAt[<<issued[i].subject, issued[i].draft>>] = issued[i].message
      <3>1. jobs[i].subject = issued[i].subject /\ jobs[i].kind = issued[i].kind
        BY JobFacts DEF Carries
      <3>2. QED
        BY <1>4, <3>1, JobFacts DEF Unchanged
    <2>3. Fits(i, "write", jobs[i].attempt, jobs[i].outcome)
      BY <1>1, <2>2, JobFacts DEF JobFine, Fits, AtMarked
    <2>4. QED
      BY <1>1, <1>4, <2>1, <2>2, <2>3, MovePreserves
  <1>5. CASE End(i, "Failed") /\ editedSince' = editedSince \ {i}
    <2>1. Moved(i, "done", jobs[i].attempt, "Failed")
      BY <1>5, JobFacts, EndMoves DEF Outcomes
    <2>2. Fits(i, "done", jobs[i].attempt, "Failed")
      BY <1>1, UnwrittenEnds DEF Outcomes
    <2>3. QED
      BY <1>1, <1>5, <2>1, <2>2, MovePreserves
  <1>6. QED
    BY <1>2, <1>3, <1>4, <1>5 DEF Preflight

\* The answer to a write, or none.
LEMMA ReceivePreserves ==
  ASSUME Inv, NEW i \in DOMAIN jobs, Receive(i)
  PROVE  Inv'
PROOF
  <1>1. /\ jobs[i].phase = "awaiting"
        /\ UNCHANGED <<store, gmail, reading, wire, answers, editedSince>>
        /\ fatal' \subseteq SUBSET MarkerIds
    BY JobFacts DEF Receive
  <1>2. CASE To(i, "readback")
    <2>1. Moved(i, "readback", jobs[i].attempt, jobs[i].outcome)
      BY <1>2, JobFacts, ToMoves DEF Phases
    <2>2. Fits(i, "readback", jobs[i].attempt, jobs[i].outcome)
      BY <1>1, JobFacts DEF JobFine, Fits
    <2>3. QED
      BY <1>1, <2>1, <2>2, MovePreserves
  <1>3. CASE End(i, Unnamed(i))
    <2>0. Unnamed(i) \in {"Unknown", "Unavailable"}
      BY DEF Unnamed
    <2>1. Moved(i, "done", jobs[i].attempt, Unnamed(i))
      BY <1>3, <2>0, JobFacts, EndMoves DEF Outcomes
    <2>2. Fits(i, "done", jobs[i].attempt, Unnamed(i))
      BY <1>1, <2>0, JobFacts DEF JobFine, Fits, Truth, Outcomes
    <2>3. QED
      BY <1>1, <2>1, <2>2, MovePreserves
  <1>4. ASSUME NEW w \in wire, w.id = i, w.attempt = jobs[i].attempt
        PROVE  /\ w.state = "applied" /\ End(i, "Succeeded") => Inv'
               /\ w.state = "refused" /\ End(i, "Failed") => Inv'
               /\ w.state = "denied" /\ Denied(i) => Inv'
    <2>1. /\ \A v \in wire : v.id = i => v = w \/ v.state = "denied"
          /\ \A v \in wire : v.id = i /\ jobs[i].attempt = 1 => v = w
      <3>1. SUFFICES ASSUME NEW v \in wire, v.id = i
                     PROVE (v = w \/ v.state = "denied") /\ (jobs[i].attempt = 1 => v = w)
        OBVIOUS
      <3>2. v.attempt \in 1..2 /\ jobs[i].attempt \in 1..2
        BY JobFacts DEF Write, Job
      <3>3. v.attempt <= jobs[i].attempt /\ (v.attempt < jobs[i].attempt => v.state = "denied")
        BY <3>1, JobFacts DEF JobFine, Fits
      <3>4. v.attempt = jobs[i].attempt => v = w
        BY <1>4, <3>1, JobFacts
      <3>5. QED
        BY <3>2, <3>3, <3>4
    <2>2. CASE w.state = "applied" /\ End(i, "Succeeded")
      <3>1. Moved(i, "done", jobs[i].attempt, "Succeeded")
        BY <2>2, JobFacts, EndMoves DEF Outcomes
      <3>2. Fits(i, "done", jobs[i].attempt, "Succeeded")
        BY <1>1, <1>4, <2>2, JobFacts DEF JobFine, Fits, Truth, Outcomes
      <3>3. QED
        BY <1>1, <3>1, <3>2, MovePreserves
    <2>3. CASE w.state = "refused" /\ End(i, "Failed")
      <3>1. Moved(i, "done", jobs[i].attempt, "Failed")
        BY <2>3, JobFacts, EndMoves DEF Outcomes
      <3>2. Fits(i, "done", jobs[i].attempt, "Failed")
        BY <1>1, <2>1, <2>3, JobFacts DEF JobFine, Fits, Truth, Outcomes
      <3>3. QED
        BY <1>1, <3>1, <3>2, MovePreserves
    <2>4. CASE w.state = "denied" /\ Denied(i)
      BY <1>1, <2>1, <2>4, DeniedMoves, MovePreserves
    <2>5. QED
      BY <2>2, <2>3, <2>4
  <1>5. QED
    BY <1>2, <1>3, <1>4 DEF Receive, Unanswered

\* Success by label is a message in TRASH; anything else claims nothing.
LEMMA ReadbackPreserves ==
  ASSUME Inv, NEW i \in DOMAIN jobs, Readback(i)
  PROVE  Inv'
PROOF
  <1>1. /\ jobs[i].phase = "readback"
        /\ UNCHANGED <<store, gmail, reading, wire, answers, editedSince>>
        /\ fatal' \subseteq SUBSET MarkerIds
    BY JobFacts DEF Readback
  <1>2. PICK outcome \in {"Succeeded", "Unknown"} :
           /\ End(i, outcome)
           /\ outcome = "Succeeded" => <<issued[i].subject, issued[i].message>> \in inTrash
    <2>1. jobs[i].subject = issued[i].subject
      BY JobFacts DEF Carries
    <2>2. QED
      BY <2>1, JobFacts DEF Readback
  <1>3. outcome \in Outcomes
    BY DEF Outcomes
  <1>4. Moved(i, "done", jobs[i].attempt, outcome)
    BY <1>2, <1>3, JobFacts, EndMoves
  <1>5. Fits(i, "done", jobs[i].attempt, outcome)
    BY <1>1, <1>2, <1>3, JobFacts DEF JobFine, Fits, Truth
  <1>6. QED
    BY <1>1, <1>4, <1>5, MovePreserves

\* The write a job has just dispatched.
Sent(i) ==
    [id |-> i, attempt |-> jobs[i].attempt, subject |-> jobs[i].subject,
     kind |-> jobs[i].kind, about |-> jobs[i].about, state |-> "sent",
     on |-> NoDraft, raced |-> FALSE]

\* A write is put on the wire: the only one of this attempt, every earlier one denied.
LEMMA DispatchPreserves ==
  ASSUME Inv, NEW i \in DOMAIN jobs, Dispatch(i)
  PROVE  Inv'
PROOF
  <1>0. /\ UNCHANGED <<marks, now, held, issued, spent>>
        /\ UNCHANGED <<draftAt, retired, inTrash>>
        /\ UNCHANGED <<reading, fatal, answers, editedSince>>
        /\ jobs[i].phase = "write"
        /\ wire' = wire \cup {Sent(i)}
    BY DEF Dispatch, Sent, store, gmail
  <1>1. Moved(i, "awaiting", jobs[i].attempt, jobs[i].outcome)
    BY JobFacts, ToMoves DEF Dispatch, Phases
  <1>2. /\ i \in spent /\ i \notin DOMAIN answers /\ i \in MarkerIds
        /\ Carries(jobs[i], i)
        /\ AtMarked(i) \/ issued[i].kind \notin DraftKinds
        /\ \A w \in wire : w.id = i => w.attempt < jobs[i].attempt /\ w.state = "denied"
    <2>1. JobFine(i) /\ i \in spent /\ i \notin DOMAIN answers /\ Carries(jobs[i], i)
      BY DEF Inv, JobsKnown
    <2>2. i \in MarkerIds
      BY <2>1 DEF Inv, P!IInv, P!TypeOK
    <2>3. QED
      BY <1>0, <2>1, <2>2 DEF JobFine, Fits
  <1>3. /\ Sent(i) \in Write
        /\ Sent(i).id = i
        /\ Sent(i).attempt = jobs[i].attempt
        /\ Sent(i).state = "sent"
        /\ Sent(i).kind = issued[i].kind
        /\ Carries(Sent(i), i)
    <2>1. jobs[i] \in Job
      BY JobFacts
    <2>2. Sent(i) \in Write
      BY <1>2, <2>1 DEF Sent, Write, Job
    <2>3. QED
      BY <1>2, <2>2 DEF Sent, Carries
  <1> HIDE DEF Sent
  <1>4. P!IInv'
    <2>1. P!IInv /\ UNCHANGED P!vars
      BY <1>0 DEF Inv, P!vars
    <2>2. QED
      BY <2>1, P!NextPreserves, StoreAssumed
  <1>5. Typed' /\ IssuedDrafts'
    BY <1>0, <1>3 DEF Inv, Typed, IssuedDrafts
  <1>6. HistoryKnown'
    <2>1. /\ DOMAIN answers \subseteq spent
          /\ \A w \in wire : w.id \in spent /\ Carries(w, w.id)
          /\ \A w, v \in wire : w.id = v.id /\ w.attempt = v.attempt => w = v
      BY DEF Inv, HistoryKnown
    <2>2. \A w \in wire' : w.id \in spent /\ Carries(w, w.id)
      BY <1>0, <1>2, <1>3, <2>1
    <2>3. \A w, v \in wire' : w.id = v.id /\ w.attempt = v.attempt => w = v
      <3>1. \A w \in wire : w.id = i => w.attempt # jobs[i].attempt
        BY <1>2, JobFacts DEF Write, Job
      <3>2. QED
        BY <1>0, <1>3, <2>1, <3>1
    <2>4. QED
      BY <1>0, <2>1, <2>2, <2>3 DEF HistoryKnown, Carries
  <1>7. JobsKnown'
    <2>1. SUFFICES ASSUME NEW k \in DOMAIN jobs
                   PROVE /\ jobs'[k] \in Job
                         /\ k \in jobs'[k].batch
                         /\ Carries(jobs'[k], k)
                         /\ jobs'[k].phase # "done" => \E h \in held : h.id = k
      BY <1>0, <1>1 DEF Inv, JobsKnown, Moved, Carries
    <2>2. CASE k = i
      BY <1>0, <1>1, <2>2 DEF Inv, JobsKnown, Moved, Carries
    <2>3. CASE k # i
      BY <1>1, <2>3 DEF Inv, JobsKnown, Moved
    <2>4. QED
      BY <2>2, <2>3
  <1>8. \A k : k # i => \A o : Truth(k, o) => Truth(k, o)'
    BY <1>0, <1>3 DEF Truth
  <1>9. \A k : AtMarked(k)' <=> AtMarked(k)
    BY <1>0 DEF AtMarked
  <1>10. \A k \in DOMAIN jobs' : JobFine(k)'
    <2>1. SUFFICES ASSUME NEW k \in DOMAIN jobs PROVE JobFine(k)'
      BY <1>1 DEF Moved
    <2>2. CASE k = i
      <3>1. jobs'[i].phase = "awaiting" /\ jobs'[i].attempt = jobs[i].attempt
        BY <1>1 DEF Moved
      <3>2. \A w \in wire' : w.id = i => /\ w.attempt <= jobs[i].attempt
                                         /\ w.attempt < jobs[i].attempt => w.state = "denied"
        BY <1>0, <1>2, <1>3, JobFacts DEF Job, Write
      <3>3. QED
        BY <2>2, <3>1, <3>2 DEF JobFine, Fits
    <2>3. CASE k # i
      <3>1. JobFine(k) /\ jobs'[k] = jobs[k]
        BY <1>1, <2>3 DEF Inv, Moved
      <3>2. \A w \in wire' : w.id = k => w \in wire
        BY <1>0, <1>3, <2>3
      <3>3. QED
        BY <1>0, <1>8, <1>9, <2>3, <3>1, <3>2 DEF JobFine, Fits
    <2>4. QED
      BY <2>2, <2>3
  <1>11. \A k \in DOMAIN answers' : Truth(k, answers[k])'
    BY <1>0, <1>2, <1>8 DEF Inv
  <1>12. SentAtMarked'
    BY <1>0, <1>2, <1>3, <1>9 DEF Inv, SentAtMarked
  <1>13. OneEffectPerMarker'
    <2>1. \A w \in wire : w.id = i => ~(jobs[i].attempt < w.attempt)
      BY <1>2, JobFacts DEF Job, Write
    <2>2. QED
      BY <1>0, <1>2, <1>3, <2>1, JobFacts DEF Inv, OneEffectPerMarker, Job
  <1>14. EffectOnMarkedRevision'
    BY <1>0, <1>3 DEF Inv, EffectOnMarkedRevision
  <1>15. QED
    BY <1>4, <1>5, <1>6, <1>7, <1>10, <1>11, <1>12, <1>13, <1>14 DEF Inv

\* The job's guard frees the slot once the whole batch is done.
LEMMA FinishMarkPreserves ==
  ASSUME Inv, NEW i \in DOMAIN jobs, FinishMark(i)
  PROVE  Inv'
PROOF
  <1>0. PICK h \in held : h.id = i /\ Store!FinishActionMark(h)
    BY DEF FinishMark
  <1>1. /\ UNCHANGED <<issued, spent>>
        /\ held' = held \ {h}
        /\ UNCHANGED <<draftAt, retired, inTrash>>
        /\ UNCHANGED <<reading, jobs, fatal, wire, answers, editedSince>>
    BY <1>0 DEF FinishMark, Store!FinishActionMark, gmail, work
  <1>2. jobs[i].phase = "done"
    BY DEF FinishMark, BatchOver, Inv, JobsKnown
  <1>3. P!IInv'
    BY <1>0, StoreAssumed, FinishIsStoreStep, P!FinishPreserves DEF Inv
  <1>4. JobsKnown'
    <2>1. SUFFICES ASSUME NEW k \in DOMAIN jobs, jobs[k].phase # "done"
                   PROVE \E g \in held' : g.id = k
      BY <1>1 DEF Inv, JobsKnown, Carries
    <2>2. PICK g \in held : g.id = k
      BY <2>1 DEF Inv, JobsKnown
    <2>3. QED
      BY <1>0, <1>1, <1>2, <2>1, <2>2
  <1>5. Typed' /\ IssuedDrafts' /\ HistoryKnown' /\ SentAtMarked'
    BY <1>1 DEF Inv, Typed, IssuedDrafts, HistoryKnown, SentAtMarked, Carries, AtMarked
  <1>6. (\A k \in DOMAIN jobs : JobFine(k))' /\ (\A k \in DOMAIN answers : Truth(k, answers[k]))'
    BY <1>1 DEF Inv, JobFine, Fits, Truth, AtMarked
  <1>7. OneEffectPerMarker' /\ EffectOnMarkedRevision'
    BY <1>1 DEF Inv, OneEffectPerMarker, EffectOnMarkedRevision
  <1>8. QED
    BY <1>3, <1>4, <1>5, <1>6, <1>7 DEF Inv

\* The outcome of a job becomes the answer.
LEMMA AnswerPreserves ==
  ASSUME Inv, NEW i \in DOMAIN jobs, Answer(i)
  PROVE  Inv'
PROOF
  <1>1. /\ UNCHANGED <<marks, now, held, issued, spent>>
        /\ UNCHANGED <<draftAt, retired, inTrash>>
        /\ UNCHANGED <<reading, fatal, wire, editedSince>>
    BY DEF Answer, store, gmail
  <1>2. /\ DOMAIN jobs' = DOMAIN jobs \ {i}
        /\ \A k \in DOMAIN jobs \ {i} : jobs'[k] = jobs[k]
    BY DEF Answer, Restrict
  <1>3. /\ DOMAIN answers' = DOMAIN answers \cup {i}
        /\ answers'[i] = jobs[i].outcome
        /\ \A k \in DOMAIN answers : k # i => answers'[k] = answers[k]
    BY DEF Answer
  <1>4. i \in spent /\ jobs[i].outcome \in Outcomes /\ Truth(i, jobs[i].outcome)
    BY DEF Inv, JobsKnown, JobFine, Fits, Answer
  <1>5. P!IInv'
    <2>1. P!IInv /\ UNCHANGED P!vars
      BY <1>1 DEF Inv, P!vars
    <2>2. QED
      BY <2>1, P!NextPreserves, StoreAssumed
  <1>6. JobsKnown'
    <2>1. SUFFICES ASSUME NEW k \in DOMAIN jobs, k # i
                   PROVE /\ k \in spent /\ k \notin DOMAIN answers'
                         /\ jobs[k] \in Job /\ k \in jobs[k].batch /\ Carries(jobs[k], k)
                         /\ jobs[k].phase # "done" => \E h \in held : h.id = k
      BY <1>1, <1>2 DEF JobsKnown, Carries
    <2>2. QED
      BY <1>3, <2>1 DEF Inv, JobsKnown
  <1>7. Typed' /\ IssuedDrafts' /\ HistoryKnown' /\ SentAtMarked'
    BY <1>1, <1>3, <1>4
       DEF Inv, Typed, IssuedDrafts, HistoryKnown, SentAtMarked, Carries, AtMarked
  <1>8. (\A k \in DOMAIN jobs : JobFine(k))'
    BY <1>1, <1>2 DEF Inv, JobFine, Fits, Truth, AtMarked
  <1>9. (\A k \in DOMAIN answers : Truth(k, answers[k]))'
    BY <1>1, <1>3, <1>4 DEF Inv, Truth
  <1>10. OneEffectPerMarker' /\ EffectOnMarkedRevision'
    BY <1>1 DEF Inv, OneEffectPerMarker, EffectOnMarkedRevision
  <1>11. QED
    BY <1>5, <1>6, <1>7, <1>8, <1>9, <1>10 DEF Inv

\* The broker forgets its marks and its jobs; the writes stay on the wire.
LEMMA RestartPreserves ==
  ASSUME Inv, Restart
  PROVE  Inv'
PROOF
  <1>1. /\ UNCHANGED <<issued, spent>>
        /\ UNCHANGED <<draftAt, retired, inTrash>>
        /\ UNCHANGED <<wire, answers, editedSince>>
        /\ reading' = {} /\ fatal' = {} /\ DOMAIN jobs' = {}
    BY DEF Restart, Store!Restart, gmail
  <1>2. P!IInv'
    BY StoreAssumed, RestartIsStoreStep, P!RestartPreserves DEF Inv, Restart
  <1>3. Typed'
    BY <1>1, FS_EmptySet DEF Inv, Typed
  <1>4. IssuedDrafts' /\ HistoryKnown' /\ SentAtMarked'
    BY <1>1 DEF Inv, IssuedDrafts, HistoryKnown, SentAtMarked, Carries, AtMarked
  <1>5. JobsKnown' /\ (\A k \in DOMAIN jobs : JobFine(k))'
    BY <1>1 DEF JobsKnown
  <1>6. (\A k \in DOMAIN answers : Truth(k, answers[k]))'
    BY <1>1 DEF Inv, Truth
  <1>7. OneEffectPerMarker' /\ EffectOnMarkedRevision'
    BY <1>1 DEF Inv, OneEffectPerMarker, EffectOnMarkedRevision
  <1>8. QED
    BY <1>2, <1>3, <1>4, <1>5, <1>6, <1>7 DEF Inv

------------------------------------------------------------------------------
(* Steps of Gmail and of the people.                                        *)

\* Drafts change, and every marker that is executed or under way either finds its
\* draft as before or is recorded as edited.
LEMMA MailboxPreserves ==
  ASSUME Inv,
         UNCHANGED <<store, reading, jobs, fatal, wire, answers, inTrash>>,
         draftAt' \in [Subjects \X Drafts -> Messages \cup {Gone}],
         retired' \subseteq Subjects \X Messages,
         editedSince' \subseteq MarkerIds,
         \A i \in DOMAIN jobs \cup {w.id : w \in wire} :
            issued[i].kind \in DraftKinds /\ AtMarked(i) => AtMarked(i)'
  PROVE  Inv'
PROOF
  <1>1. /\ UNCHANGED <<marks, now, held, issued, spent>>
        /\ UNCHANGED <<reading, jobs, fatal, wire, answers, inTrash>>
    BY DEF store
  <1>2. P!IInv'
    <2>1. P!IInv /\ UNCHANGED P!vars
      BY <1>1 DEF Inv, P!vars
    <2>2. QED
      BY <2>1, P!NextPreserves, StoreAssumed
  <1>3. Typed' /\ IssuedDrafts' /\ HistoryKnown' /\ JobsKnown'
    BY <1>1 DEF Inv, Typed, IssuedDrafts, HistoryKnown, JobsKnown, Carries
  <1>4. (\A k \in DOMAIN jobs : JobFine(k))'
    BY <1>1 DEF Inv, JobFine, Fits, Truth
  <1>5. SentAtMarked'
    BY <1>1 DEF Inv, SentAtMarked, HistoryKnown, Carries
  <1>6. (\A k \in DOMAIN answers : Truth(k, answers[k]))'
    BY <1>1 DEF Inv, Truth
  <1>7. OneEffectPerMarker' /\ EffectOnMarkedRevision'
    BY <1>1 DEF Inv, OneEffectPerMarker, EffectOnMarkedRevision
  <1>8. QED
    BY <1>2, <1>3, <1>4, <1>5, <1>6, <1>7 DEF Inv

\* A person sends or deletes a draft.
LEMMA DiscardPreserves ==
  ASSUME Inv, NEW s \in Subjects, NEW d \in Drafts, Discard(s, d)
  PROVE  Inv'
PROOF
  <1>1. /\ UNCHANGED <<store, reading, jobs, fatal, wire, answers, inTrash>>
        /\ editedSince' = editedSince
        /\ UNCHANGED issued
    BY DEF Discard, work, store
  <1>2. draftAt \in [Subjects \X Drafts -> Messages \cup {Gone}]
        /\ retired \subseteq Subjects \X Messages /\ editedSince \subseteq MarkerIds
    BY DEF Inv, Typed
  <1>3. draftAt' = [draftAt EXCEPT ![<<s, d>>] = Gone] /\ draftAt[<<s, d>>] \in Messages
    BY <1>2 DEF Discard
  <1>4. draftAt' \in [Subjects \X Drafts -> Messages \cup {Gone}]
    BY <1>2, <1>3
  <1>5. retired' \subseteq Subjects \X Messages
    BY <1>2, <1>3 DEF Discard
  <1>6. ASSUME NEW i \in DOMAIN issued, issued[i].kind \in DraftKinds, AtMarked(i)
        PROVE  AtMarked(i)'
    <2>1. <<issued[i].subject, issued[i].draft>> \in Subjects \X Drafts
      BY <1>6, IssuedSlot
    <2>2. QED
      BY <1>1, <1>2, <1>3, <1>6, <2>1 DEF AtMarked
  <1>7. DOMAIN jobs \cup {w.id : w \in wire} \subseteq DOMAIN issued
    BY ExecutedIssued
  <1>8. QED
    BY <1>1, <1>2, <1>4, <1>5, <1>6, <1>7, MailboxPreserves

\* A person edits a draft: every job and every write of it is recorded as edited.
LEMMA EditPreserves ==
  ASSUME Inv, NEW s \in Subjects, NEW d \in Drafts, NEW m \in Messages, Edit(s, d, m)
  PROVE  Inv'
PROOF
  <1> DEFINE seen == DOMAIN jobs \cup {w.id : w \in wire}
  <1>1. /\ UNCHANGED <<store, reading, jobs, fatal, wire, answers, inTrash>>
        /\ UNCHANGED issued
    BY DEF Edit, store
  <1>2. draftAt \in [Subjects \X Drafts -> Messages \cup {Gone}]
        /\ retired \subseteq Subjects \X Messages /\ editedSince \subseteq MarkerIds
    BY DEF Inv, Typed
  <1>3. draftAt' = [draftAt EXCEPT ![<<s, d>>] = m] /\ draftAt[<<s, d>>] \in Messages
    BY <1>2 DEF Edit
  <1>4. draftAt' \in [Subjects \X Drafts -> Messages \cup {Gone}]
    BY <1>2, <1>3
  <1>5. retired' \subseteq Subjects \X Messages
    BY <1>2, <1>3 DEF Edit
  <1>6. seen \subseteq DOMAIN issued /\ DOMAIN issued \subseteq MarkerIds
    BY ExecutedIssued DEF Inv, P!IInv, P!TypeOK
  <1>7. editedSince' = editedSince \cup
           {i \in seen : issued[i].subject = s /\ issued[i].draft = d}
    BY DEF Edit
  <1> HIDE DEF seen
  <1>8. editedSince' \subseteq MarkerIds
    BY <1>2, <1>6, <1>7
  <1>9. ASSUME NEW i \in seen, issued[i].kind \in DraftKinds, AtMarked(i)
        PROVE  AtMarked(i)'
    <2>1. <<issued[i].subject, issued[i].draft>> \in Subjects \X Drafts
      BY <1>6, <1>9, IssuedSlot
    <2>2. CASE issued[i].subject = s /\ issued[i].draft = d
      BY <1>7, <2>2 DEF AtMarked
    <2>3. CASE <<issued[i].subject, issued[i].draft>> # <<s, d>>
      BY <1>1, <1>2, <1>3, <1>7, <1>9, <2>1, <2>3 DEF AtMarked
    <2>4. QED
      BY <2>2, <2>3
  <1>10. QED
    BY <1>1, <1>4, <1>5, <1>8, <1>9, MailboxPreserves DEF seen

\* A write under way is settled: applied on the draft it finds, refused or denied.
LEMMA SettledPreserves ==
  ASSUME Inv, NEW w \in wire, w.state = "sent",
         NEW state \in {"applied", "refused", "denied"}, NEW on \in Messages \cup {NoDraft},
         Becomes(w, state, on),
         UNCHANGED <<store, reading, jobs, fatal, answers, editedSince>>,
         draftAt' \in [Subjects \X Drafts -> Messages \cup {Gone}],
         retired' \subseteq Subjects \X Messages,
         inTrash' \subseteq Subjects \X Messages,
         inTrash \subseteq inTrash',
         state = "applied" /\ w.kind \in DraftKinds
         => w.id \in editedSince \/ on = issued[w.id].message,
         \A i \in DOMAIN jobs \cup {v.id : v \in wire} :
            issued[i].kind \in DraftKinds /\ AtMarked(i) => AtMarked(i)'
  PROVE  Inv'
PROOF
  <1> DEFINE new == [w EXCEPT !.state = state, !.on = on, !.raced = w.id \in editedSince]
  <1>0. /\ UNCHANGED <<marks, now, held, issued, spent>>
        /\ UNCHANGED <<reading, jobs, fatal, answers, editedSince>>
        /\ wire' = (wire \ {w}) \cup {new}
    BY DEF store, Becomes
  <1>1. w \in Write
    BY DEF Inv, Typed
  <1>2. /\ new.id = w.id /\ new.attempt = w.attempt /\ new.kind = w.kind
        /\ new.subject = w.subject /\ new.about = w.about
        /\ new.state = state /\ new.on = on
        /\ new.raced <=> w.id \in editedSince
        /\ new \in Write
    <2>1. (w.id \in editedSince) \in BOOLEAN
      OBVIOUS
    <2>2. /\ new.id = w.id /\ new.attempt = w.attempt /\ new.kind = w.kind
          /\ new.subject = w.subject /\ new.about = w.about
          /\ new.state = state /\ new.on = on
      BY <1>1 DEF Write
    <2>3. new.raced <=> w.id \in editedSince
      BY <1>1 DEF Write
    <2>4. new \in Write
      BY <1>1, <2>1 DEF Write
    <2>5. QED
      BY <2>2, <2>3, <2>4
  <1> HIDE DEF new
  <1>3. /\ DOMAIN answers \subseteq spent
        /\ \A v \in wire : v.id \in spent /\ Carries(v, v.id)
        /\ \A u, v \in wire : u.id = v.id /\ u.attempt = v.attempt => u = v
    BY DEF Inv, HistoryKnown
  <1>4. P!IInv'
    <2>1. P!IInv /\ UNCHANGED P!vars
      BY <1>0 DEF Inv, P!vars
    <2>2. QED
      BY <2>1, P!NextPreserves, StoreAssumed
  <1>5. Typed' /\ IssuedDrafts' /\ JobsKnown'
    <2>1. IssuedDrafts' /\ JobsKnown'
      BY <1>0 DEF Inv, IssuedDrafts, JobsKnown, Carries
    <2>2. QED
      BY <1>0, <1>2, <2>1 DEF Inv, Typed
  <1>6. HistoryKnown'
    <2>1. \A v \in wire' : v.id \in spent /\ Carries(v, v.id)
      BY <1>0, <1>2, <1>3 DEF Carries
    <2>2. \A u, v \in wire' : u.id = v.id /\ u.attempt = v.attempt => u = v
      BY <1>0, <1>2, <1>3
    <2>3. QED
      BY <1>0, <1>3, <2>1, <2>2 DEF HistoryKnown, Carries
  <1>7. ASSUME NEW k, NEW outcome, Truth(k, outcome)
        PROVE  Truth(k, outcome)'
    <2>1. outcome \in {"Failed", "NotAttempted"}
          => \A v \in wire' : v.id = k => v.state \in {"refused", "denied"}
      BY <1>0, <1>2, <1>7 DEF Truth
    <2>2. (\E v \in wire : v.id = k /\ v.state = "applied")
          => \E v \in wire' : v.id = k /\ v.state = "applied"
      BY <1>0
    <2>3. QED
      BY <1>0, <1>7, <2>1, <2>2 DEF Truth
  <1>8. \A k \in DOMAIN jobs' : JobFine(k)'
    <2>1. SUFFICES ASSUME NEW k \in DOMAIN jobs PROVE JobFine(k)'
      BY <1>0
    <2>2. JobFine(k) /\ Carries(jobs[k], k)
      BY DEF Inv, JobsKnown
    <2>3. \A v \in wire' : v.id = k =>
             /\ v.attempt <= jobs[k].attempt
             /\ v.attempt < jobs[k].attempt => v.state = "denied"
             /\ jobs[k].phase \in {"queued", "preflight", "write"} => v.attempt < jobs[k].attempt
             /\ jobs[k].phase = "refresh" => v.state = "denied"
      BY <1>0, <1>2, <2>2 DEF JobFine, Fits
    <2>4. QED
      BY <1>0, <1>7, <2>2, <2>3 DEF JobFine, Fits
  <1>9. (\A k \in DOMAIN answers : Truth(k, answers[k]))'
    BY <1>0, <1>7 DEF Inv
  <1>10. SentAtMarked'
    <2>1. SUFFICES ASSUME NEW v \in wire, v.state = "sent", v.kind \in DraftKinds
                   PROVE  AtMarked(v.id)'
      BY <1>0, <1>2 DEF SentAtMarked
    <2>2. AtMarked(v.id) /\ issued[v.id].kind \in DraftKinds
      BY <1>3, <2>1 DEF Inv, SentAtMarked, Carries
    <2>3. QED
      BY <2>2
  <1>11. OneEffectPerMarker'
    BY <1>0, <1>2 DEF Inv, OneEffectPerMarker
  <1>12. EffectOnMarkedRevision'
    BY <1>0, <1>2 DEF Inv, EffectOnMarkedRevision
  <1>13. QED
    BY <1>4, <1>5, <1>6, <1>8, <1>9, <1>10, <1>11, <1>12 DEF Inv

\* Gmail refuses a write.
LEMMA RejectPreserves ==
  ASSUME Inv, NEW w \in wire, Rejects(w)
  PROVE  Inv'
PROOF
  <1>1. PICK state \in {"refused", "denied"} : Becomes(w, state, NoDraft)
    BY DEF Rejects
  <1>2. /\ w.state = "sent" /\ state # "applied"
        /\ UNCHANGED <<store, reading, jobs, fatal, answers, editedSince>>
        /\ UNCHANGED <<draftAt, retired, inTrash, issued>>
    BY DEF Rejects, gmail, store
  <1>3. \A i : AtMarked(i) => AtMarked(i)'
    BY <1>2 DEF AtMarked
  <1>4. /\ draftAt' \in [Subjects \X Drafts -> Messages \cup {Gone}]
        /\ retired' \subseteq Subjects \X Messages
        /\ inTrash' \subseteq Subjects \X Messages
        /\ inTrash \subseteq inTrash'
    BY <1>2 DEF Inv, Typed
  <1>5. QED
    BY <1>1, <1>2, <1>3, <1>4, SettledPreserves

\* Gmail performs a write, on whatever the draft is now.
LEMMA ApplyPreserves ==
  ASSUME Inv, NEW w \in wire, Applies(w)
  PROVE  Inv'
PROOF
  <1>0. /\ w.state = "sent"
        /\ UNCHANGED <<store, reading, jobs, fatal, answers, editedSince>>
        /\ UNCHANGED issued
    BY DEF Applies, store
  <1>1. /\ w \in Write
        /\ w.subject = issued[w.id].subject
        /\ w.kind = issued[w.id].kind
        /\ w.about.message = issued[w.id].message
        /\ w.about.draft = issued[w.id].draft
        /\ issued[w.id].message \in Messages
        /\ w.id \in DOMAIN issued
    <2>1. Carries(w, w.id) /\ w.id \in DOMAIN issued /\ w \in Write
      BY DEF Inv, HistoryKnown, Typed, P!IInv, P!TypeOK
    <2>2. issued[w.id].message \in Messages
      BY <2>1 DEF Inv, P!IInv, P!TypeOK, P!Issue
    <2>3. w.about = [message |-> issued[w.id].message, draft |-> issued[w.id].draft]
          /\ w.subject = issued[w.id].subject /\ w.kind = issued[w.id].kind
      BY <2>1 DEF Carries
    <2>4. QED
      BY <2>1, <2>2, <2>3
  <1>2. /\ draftAt \in [Subjects \X Drafts -> Messages \cup {Gone}]
        /\ retired \subseteq Subjects \X Messages
        /\ inTrash \subseteq Subjects \X Messages
    BY DEF Inv, Typed
  <1>3. CASE w.kind \in DraftKinds
    <2> DEFINE at == <<w.subject, w.about.draft>>
    <2>1. /\ draftAt[at] # Gone
          /\ Becomes(w, "applied", draftAt[at])
          /\ draftAt' = [draftAt EXCEPT ![at] = Gone]
          /\ retired' = retired \cup {<<w.subject, draftAt[at]>>}
          /\ inTrash' = inTrash
      BY <1>3 DEF Applies
    <2>2. at = <<issued[w.id].subject, issued[w.id].draft>> /\ at \in Subjects \X Drafts
      BY <1>1, <1>3, IssuedSlot
    <2>3. AtMarked(w.id)
      BY <1>0, <1>3 DEF Inv, SentAtMarked
    <2> HIDE DEF at
    <2>4. draftAt[at] \in Messages
      BY <1>2, <2>1, <2>2
    <2>5. w.id \in editedSince \/ draftAt[at] = issued[w.id].message
      BY <2>1, <2>2, <2>3 DEF AtMarked
    <2>6. draftAt' \in [Subjects \X Drafts -> Messages \cup {Gone}]
      BY <1>2, <2>1
    <2>7. retired' \subseteq Subjects \X Messages
      <3>1. w.subject \in Subjects
        BY <1>1 DEF Write
      <3>2. QED
        BY <1>2, <2>1, <2>4, <3>1
    <2>8. ASSUME NEW i \in DOMAIN issued, issued[i].kind \in DraftKinds, AtMarked(i)
          PROVE  AtMarked(i)'
      <3>1. <<issued[i].subject, issued[i].draft>> \in Subjects \X Drafts
        BY <2>8, IssuedSlot
      <3>2. QED
        BY <1>0, <1>2, <2>1, <2>8, <3>1 DEF AtMarked
    <2>9. DOMAIN jobs \cup {v.id : v \in wire} \subseteq DOMAIN issued
      BY ExecutedIssued
    <2>10. QED
      BY <1>0, <1>2, <2>1, <2>4, <2>5, <2>6, <2>7, <2>8, <2>9, SettledPreserves
  <1>4. CASE w.kind \notin DraftKinds
    <2>1. /\ Becomes(w, "applied", NoDraft)
          /\ inTrash' = inTrash \cup {<<w.subject, w.about.message>>}
          /\ UNCHANGED <<draftAt, retired>>
      BY <1>4 DEF Applies
    <2>2. w.subject \in Subjects /\ w.about.message \in Messages
      BY <1>1 DEF Write
    <2>3. inTrash' \subseteq Subjects \X Messages /\ inTrash \subseteq inTrash'
      BY <1>2, <2>1, <2>2
    <2>4. \A i : AtMarked(i) => AtMarked(i)'
      BY <1>0, <2>1 DEF AtMarked
    <2>5. QED
      BY <1>0, <1>2, <1>4, <2>1, <2>3, <2>4, SettledPreserves
  <1>5. QED
    BY <1>3, <1>4

------------------------------------------------------------------------------
(* Steps that mark and steps that execute.                                  *)

\* New markers are issued and nothing an older one says changes.
IssuedGrows(kind, drafts) ==
    /\ held' = held /\ spent' = spent
    /\ DOMAIN issued \subseteq DOMAIN issued'
    /\ \A i \in DOMAIN issued : issued'[i] = issued[i]
    /\ \A i \in DOMAIN issued' \ DOMAIN issued :
          issued'[i].kind = kind /\ issued'[i].draft \in drafts

\* A registration issues markers of its kind, for the resources it names.
LEMMA RegisterIssues ==
  ASSUME P!IInv, NEW s \in Subjects, NEW kind \in P!Kinds, NEW rs \in P!Requests(kind),
         Register(s, rs, kind)
  PROVE  P!IInv' /\ IssuedGrows(kind, {r.draft : r \in rs})
PROOF
  <1>1. ASSUME NEW qs \in P!Requests(kind), qs \subseteq rs, NEW id \in P!FreshIds(qs),
               P!Distinct(qs), P!Replace(s, qs, kind, id)
        PROVE  IssuedGrows(kind, {r.draft : r \in rs})
    <2>1. P!Recorded(s, qs, kind, id)
      BY <1>1, P!ReplaceEffect, StoreAssumed
    <2>2. UNCHANGED <<now, held, spent>>
      BY <1>1 DEF P!Replace
    <2>3. \A i \in DOMAIN issued' \ DOMAIN issued :
             issued'[i].kind = kind /\ \E r \in qs : issued'[i].draft = r.draft
      <3>1. TAKE i \in DOMAIN issued' \ DOMAIN issued
      <3>2. PICK r \in qs : i = id[r]
        BY <2>1, <3>1 DEF P!Recorded
      <3>3. issued'[i] = [subject |-> s, message |-> r.message, draft |-> r.draft,
                          kind |-> kind, at |-> now, serial |-> P!NextSerial]
        BY <2>1, <3>2 DEF P!Recorded
      <3>4. QED
        BY <3>3
    <2>4. DOMAIN issued \subseteq DOMAIN issued' /\ \A i \in DOMAIN issued : issued'[i] = issued[i]
      BY <2>1 DEF P!Recorded
    <2>5. QED
      BY <1>1, <2>2, <2>3, <2>4 DEF IssuedGrows
  <1>2. CASE Store!RegisterActionMarks(s, rs, kind)
    <2>1. P!RegisterActionMarks(s, rs, kind)
      BY <1>2, MarksAreStoreStep
    <2>2. P!IInv'
      BY <2>1, P!RegisterPreserves, StoreAssumed
    <2>3. QED
      BY <1>1, <2>1, <2>2 DEF P!RegisterActionMarks
  <1>3. ASSUME NEW r \in rs, rs = {r}, Store!RegisterActionMark(s, r, kind)
        PROVE  P!IInv' /\ IssuedGrows(kind, {q.draft : q \in rs})
    <2>1. P!RegisterActionMark(s, r, kind)
      BY <1>3, MarkIsStoreStep
    <2>2. r \in P!Resources(kind)
      BY DEF P!Requests
    <2>3. P!IInv'
      BY <2>1, <2>2, P!RegisterPreserves, StoreAssumed
    <2>4. P!Distinct({r})
      BY DEF P!Distinct
    <2>5. QED
      BY <1>1, <1>3, <2>1, <2>3, <2>4 DEF P!RegisterActionMark
  <1>4. CASE Store!RegisterRefused(s, rs)
    <2>1. P!RegisterRefused(s, rs)
      BY <1>4, RefusalIsStoreStep
    <2>2. P!Next
      BY <2>1 DEF P!Next
    <2>3. P!IInv'
      BY <2>2, P!NextPreserves, StoreAssumed
    <2>4. QED
      BY <2>1, <2>3 DEF P!RegisterRefused, IssuedGrows
  <1>5. QED
    BY <1>2, <1>3, <1>4 DEF Register

\* Marking disturbs nothing that is being executed or was answered.
LEMMA MarkingPreserves ==
  ASSUME Inv, P!IInv', NEW kind \in P!Kinds, NEW drafts, IssuedGrows(kind, drafts),
         kind \in DraftKinds => drafts \subseteq Drafts,
         UNCHANGED <<gmail, jobs, fatal, wire, answers, editedSince>>,
         reading' \subseteq Reading, IsFiniteSet(reading')
  PROVE  Inv'
PROOF
  <1>0. /\ UNCHANGED <<held, spent>>
        /\ UNCHANGED <<draftAt, retired, inTrash>>
        /\ UNCHANGED <<jobs, fatal, wire, answers, editedSince>>
        /\ \A i \in spent : i \in DOMAIN issued /\ issued'[i] = issued[i]
    BY DEF gmail, IssuedGrows, Inv, P!IInv, P!TypeOK
  <1>1. Typed'
    BY <1>0 DEF Inv, Typed
  <1>2. IssuedDrafts'
    BY DEF Inv, IssuedDrafts, IssuedGrows
  <1>3. JobsKnown' /\ HistoryKnown'
    <2>1. JobsKnown'
      BY <1>0 DEF Inv, JobsKnown, Carries
    <2>2. HistoryKnown'
      BY <1>0 DEF Inv, HistoryKnown, Carries
    <2>3. QED
      BY <2>1, <2>2
  <1>4. \A i \in spent : AtMarked(i)' <=> AtMarked(i)
    BY <1>0 DEF AtMarked
  <1>5. \A i \in spent : \A o : Truth(i, o)' <=> Truth(i, o)
    BY <1>0 DEF Truth
  <1>6. \A k \in DOMAIN jobs' : JobFine(k)'
    <2>1. SUFFICES ASSUME NEW k \in DOMAIN jobs PROVE JobFine(k)'
      BY <1>0
    <2>2. k \in spent /\ JobFine(k)
      BY DEF Inv, JobsKnown
    <2>3. QED
      BY <1>0, <1>4, <1>5, <2>2 DEF JobFine, Fits
  <1>7. (\A k \in DOMAIN answers : Truth(k, answers[k]))'
    BY <1>0, <1>5 DEF Inv, HistoryKnown
  <1>8. SentAtMarked'
    BY <1>0, <1>4 DEF Inv, HistoryKnown, SentAtMarked
  <1>9. OneEffectPerMarker' /\ EffectOnMarkedRevision'
    BY <1>0 DEF Inv, HistoryKnown, OneEffectPerMarker, EffectOnMarkedRevision
  <1>10. QED
    BY <1>1, <1>2, <1>3, <1>6, <1>7, <1>8, <1>9 DEF Inv

\* A revision is read for a mark that is registered later.
LEMMA ReadPreserves ==
  ASSUME Inv, NEW s \in Subjects, NEW d \in Drafts, NEW kind \in DraftKinds,
         ReadRevision(s, d, kind)
  PROVE  Inv'
PROOF
  <1> DEFINE new == [subject |-> s, kind |-> kind,
                     about |-> [message |-> draftAt[<<s, d>>], draft |-> d]]
  <1>1. /\ UNCHANGED <<marks, now, held, issued, spent>>
        /\ UNCHANGED <<gmail, jobs, fatal, wire, answers, editedSince>>
        /\ reading' = reading \cup {new}
    BY DEF ReadRevision, store
  <1>2. draftAt[<<s, d>>] \in Messages
    BY DEF ReadRevision, Inv, Typed
  <1>3. new \in Reading
    BY <1>2 DEF Reading
  <1> HIDE DEF new
  <1>4. reading' \subseteq Reading /\ IsFiniteSet(reading')
    BY <1>1, <1>3, FS_AddElement DEF Inv, Typed
  <1>5. P!IInv'
    <2>1. P!IInv /\ UNCHANGED P!vars
      BY <1>1 DEF Inv, P!vars
    <2>2. QED
      BY <2>1, P!NextPreserves, StoreAssumed
  <1>6. IssuedGrows(kind, {})
    BY <1>1 DEF IssuedGrows
  <1>7. kind \in P!Kinds
    BY DEF DraftKinds, P!Kinds
  <1>8. QED
    BY <1>1, <1>4, <1>5, <1>6, <1>7, MarkingPreserves

\* The revisions read so far make a request the store is specified for.
LEMMA MarkDraftsRequest ==
  ASSUME Inv, NEW s \in Subjects, NEW kind \in DraftKinds, MarkDrafts(s, kind)
  PROVE  \E rs \in P!Requests(kind) :
            /\ Register(s, rs, kind)
            /\ {r.draft : r \in rs} \subseteq Drafts
            /\ reading' \subseteq reading
            /\ UNCHANGED <<gmail, jobs, fatal, wire, answers, editedSince>>
PROOF
  <1> DEFINE mine == {q \in reading : q.subject = s /\ q.kind = kind}
             about == [r \in mine |-> r.about]
             all == {about[r] : r \in mine}
  <1>1. all = {r.about : r \in mine}
    OBVIOUS
  <1>2. PICK rs \in (SUBSET all) \ {{}} :
           /\ Register(s, rs, kind)
           /\ reading' = {q \in reading : ~(q.subject = s /\ q.kind = kind /\ q.about \in rs)}
           /\ UNCHANGED <<gmail, jobs, fatal, wire, answers, editedSince>>
    BY <1>1 DEF MarkDrafts
  <1>3. reading \subseteq Reading /\ IsFiniteSet(reading) /\ P!IInv
    BY DEF Inv, Typed
  <1>4. IsFiniteSet(rs)
    <2>1. IsFiniteSet(mine)
      BY <1>3, FS_Subset
    <2>2. IsFiniteSet(all)
      <3>1. DOMAIN about = mine /\ about = [r \in mine |-> about[r]]
        OBVIOUS
      <3> HIDE DEF mine, about
      <3>2. about \in Surjection(mine, all)
        BY <3>1 DEF Surjection
      <3>3. QED
        BY <2>1, <3>2, FS_Surjection
    <2>3. QED
      BY <1>2, <2>2, FS_Subset
  <1>5. kind \in P!Kinds /\ kind # "TrashMessage"
    BY DEF DraftKinds, P!Kinds
  <1>6. \A r \in rs : r \in [message : Messages, draft : Drafts]
    <2>1. TAKE r \in rs
    <2>2. PICK q \in mine : r = q.about
      BY <1>1, <1>2
    <2>3. q \in Reading
      BY <1>3, <2>2
    <2>4. QED
      BY <2>2, <2>3 DEF Reading
  <1>7. rs \in P!Requests(kind)
    <2>1. P!Resources(kind) = [message : Messages, draft : Drafts]
      BY <1>5 DEF P!Resources
    <2>2. rs \subseteq P!Resources(kind) /\ rs # {}
      BY <1>2, <1>6, <2>1
    <2>3. P!IsFiniteSet(rs)
      BY <1>4, SameFiniteness
    <2>4. rs \in SUBSET P!Resources(kind)
      BY <2>2
    <2> HIDE DEF mine, all
    <2>5. QED
      BY <2>2, <2>3, <2>4 DEF P!Requests
  <1>8. {r.draft : r \in rs} \subseteq Drafts
    BY <1>6
  <1>9. reading' \subseteq reading
    BY <1>2
  <1>10. QED
    BY <1>2, <1>7, <1>8, <1>9

\* The marks of the revisions read are registered, or refused.
LEMMA MarkDraftsPreserves ==
  ASSUME Inv, NEW s \in Subjects, NEW kind \in DraftKinds, MarkDrafts(s, kind)
  PROVE  Inv'
PROOF
  <1>1. PICK rs \in P!Requests(kind) :
           /\ Register(s, rs, kind)
           /\ {r.draft : r \in rs} \subseteq Drafts
           /\ reading' \subseteq reading
           /\ UNCHANGED <<gmail, jobs, fatal, wire, answers, editedSince>>
    BY MarkDraftsRequest
  <1>2. kind \in P!Kinds
    BY DEF DraftKinds, P!Kinds
  <1>3. P!IInv' /\ IssuedGrows(kind, {r.draft : r \in rs})
    BY <1>1, <1>2, RegisterIssues DEF Inv
  <1>4. reading' \subseteq Reading /\ IsFiniteSet(reading')
    BY <1>1, FS_Subset DEF Inv, Typed
  <1>5. QED
    BY <1>1, <1>2, <1>3, <1>4, MarkingPreserves

\* Messages are marked without a call to Gmail.
LEMMA MarkEmailsPreserves ==
  ASSUME Inv, NEW s \in Subjects, MarkEmails(s)
  PROVE  Inv'
PROOF
  <1>1. PICK rs \in P!Requests("TrashMessage") : Register(s, rs, "TrashMessage")
    BY RequestsAreStoreRequests DEF MarkEmails
  <1>2. /\ UNCHANGED <<gmail, jobs, fatal, wire, answers, editedSince>>
        /\ reading' = reading
    BY DEF MarkEmails, work
  <1>3. "TrashMessage" \in P!Kinds /\ "TrashMessage" \notin DraftKinds
    BY DEF P!Kinds, DraftKinds
  <1>4. P!IInv' /\ IssuedGrows("TrashMessage", {r.draft : r \in rs})
    BY <1>1, <1>3, RegisterIssues DEF Inv
  <1>5. reading' \subseteq Reading /\ IsFiniteSet(reading')
    BY <1>2 DEF Inv, Typed
  <1>6. QED
    BY <1>2, <1>3, <1>4, <1>5, MarkingPreserves

\* The clock.
LEMMA TickPreserves ==
  ASSUME Inv, Tick
  PROVE  Inv'
PROOF
  <1>1. /\ UNCHANGED <<gmail, jobs, fatal, wire, answers, editedSince>>
        /\ reading' = reading
    BY DEF Tick, work
  <1>2. P!IInv'
    BY TickIsStoreStep, P!NextPreserves, StoreAssumed DEF Tick, Inv, P!Next
  <1>3. IssuedGrows("TrashMessage", {})
    BY DEF Tick, Store!Tick, IssuedGrows
  <1>4. "TrashMessage" \in P!Kinds /\ reading' \subseteq Reading /\ IsFiniteSet(reading')
    BY <1>1 DEF P!Kinds, Inv, Typed
  <1>5. QED
    BY <1>1, <1>2, <1>3, <1>4, MarkingPreserves

\* What one consumed marker gives its job: a mark of this account and this kind, not
\* yet consumed, whose entry in the store is the one the marker was issued for.
LEMMA JobForFacts ==
  ASSUME Inv, NEW s \in Subjects, NEW kind \in P!Kinds, NEW ids \in SUBSET MarkerIds,
         NEW bulk \in BOOLEAN, P!ConsumeActionMarks(s, ids, kind), NEW i \in ids
  PROVE  /\ i \in DOMAIN issued /\ i \notin spent
         /\ \E h \in held' : h.id = i
         /\ JobFor(i, s, ids, kind, bulk) \in Job
         /\ JobFor(i, s, ids, kind, bulk).batch = ids
         /\ JobFor(i, s, ids, kind, bulk).phase = "queued"
         /\ JobFor(i, s, ids, kind, bulk).attempt = 1
         /\ Carries(JobFor(i, s, ids, kind, bulk), i)
PROOF
  <1> DEFINE found == {k \in DOMAIN marks : marks[k].id \in ids}
             at == CHOOSE j \in DOMAIN marks : marks[j].id = i
             job == [batch |-> ids, bulk |-> bulk, subject |-> s, kind |-> kind,
                     about |-> [message |-> at[2], draft |-> marks[at].draft],
                     phase |-> "queued", attempt |-> 1, outcome |-> "none"]
  <1>1. at \in found /\ marks[at].id = i
    <2>1. \E k \in DOMAIN marks : marks[k].id = i
      BY DEF P!ConsumeActionMarks
    <2>2. QED
      BY <2>1
  <1>2. P!Redeemable(at, s, kind)
    BY <1>1 DEF P!ConsumeActionMarks
  <1>3. \E h \in held' : h.id = i
    <2>1. held' = held \cup {[id |-> marks[k].id, subject |-> s, kind |-> kind,
                              key |-> k] : k \in found}
      BY DEF P!ConsumeActionMarks
    <2> HIDE DEF found, at
    <2>2. [id |-> marks[at].id, subject |-> s, kind |-> kind, key |-> at] \in held'
      BY <1>1, <2>1
    <2>3. [id |-> marks[at].id, subject |-> s, kind |-> kind, key |-> at].id = i
      BY <1>1
    <2>4. QED
      BY <2>2, <2>3
  <1>4. JobFor(i, s, ids, kind, bulk) = job
    BY DEF JobFor
  <1> HIDE DEF found, at
  <1>5. at \in DOMAIN marks
    BY <1>1 DEF found
  <1>6. /\ i \in DOMAIN issued
        /\ issued[i].subject = s
        /\ issued[i].message = at[2]
        /\ issued[i].draft = marks[at].draft
        /\ issued[i].kind = kind
    BY <1>1, <1>2, <1>5 DEF Inv, P!IInv, P!MarksIssued, P!Redeemable
  <1>7. i \notin spent
    BY <1>1, <1>2, <1>5 DEF Inv, P!IInv, P!SpentExecuting, P!Redeemable
  <1>8. issued[i].message \in Messages /\ issued[i].draft \in Drafts \cup {NoDraft}
    BY <1>6 DEF Inv, P!IInv, P!TypeOK, P!Issue
  <1>9. job \in Job
    <2>1. [message |-> at[2], draft |-> marks[at].draft] \in Resource
      BY <1>6, <1>8 DEF Resource
    <2>2. kind \in Store!Kinds
      BY DEF Store!Kinds, P!Kinds
    <2>3. QED
      BY <2>1, <2>2 DEF Job, Phases
  <1>10. Carries(job, i)
    BY <1>6 DEF Carries
  <1>11. QED
    BY <1>3, <1>4, <1>6, <1>7, <1>9, <1>10

\* A batch is consumed: its jobs carry what was issued, and nobody was answered for
\* them or wrote for them before.
LEMMA ConsumePreserves ==
  ASSUME Inv, NEW s \in Subjects, NEW kind \in P!Kinds, NEW ids \in SUBSET DOMAIN issued,
         NEW bulk \in BOOLEAN, Consume(s, ids, kind, bulk)
  PROVE  Inv'
PROOF
  <1>1. P!ConsumeActionMarks(s, ids, kind)
    BY ConsumeIsStoreStep DEF Consume
  <1>2. /\ issued' = issued /\ spent' = spent \cup ids
        /\ held \subseteq held'
        /\ UNCHANGED <<draftAt, retired, inTrash>>
        /\ UNCHANGED <<reading, fatal, wire, answers, editedSince>>
    BY <1>1 DEF Consume, P!ConsumeActionMarks, gmail
  <1>3. ids \in SUBSET MarkerIds
    BY DEF Inv, P!IInv, P!TypeOK
  <1>4. /\ DOMAIN jobs' = DOMAIN jobs \cup ids
        /\ \A k \in DOMAIN jobs : jobs'[k] = jobs[k]
        /\ \A k \in ids \ DOMAIN jobs : jobs'[k] = JobFor(k, s, ids, kind, bulk)
    BY DEF Consume
  <1>5. P!IInv'
    BY <1>1, P!ConsumePreserves, StoreAssumed DEF Inv
  <1>6. Typed' /\ IssuedDrafts' /\ HistoryKnown' /\ SentAtMarked'
    BY <1>2 DEF Inv, Typed, IssuedDrafts, HistoryKnown, SentAtMarked, Carries, AtMarked
  <1>7. ASSUME NEW k \in ids
        PROVE  /\ k \notin spent /\ k \notin DOMAIN answers
               /\ \A w \in wire : w.id # k
               /\ jobs'[k] \in Job
               /\ jobs'[k].batch = ids
               /\ jobs'[k].phase = "queued" /\ jobs'[k].attempt = 1
               /\ Carries(jobs'[k], k)
               /\ \E h \in held' : h.id = k
    <2>1. k \notin spent
      BY <1>1, <1>3, JobForFacts
    <2>2. k \notin DOMAIN answers /\ k \notin DOMAIN jobs /\ \A w \in wire : w.id # k
      BY <2>1 DEF Inv, HistoryKnown, JobsKnown
    <2>3. jobs'[k] = JobFor(k, s, ids, kind, bulk)
      BY <1>4, <2>2
    <2>4. QED
      BY <1>1, <1>3, <2>1, <2>2, <2>3, JobForFacts
  <1>8. JobsKnown'
    <2>1. SUFFICES ASSUME NEW k \in DOMAIN jobs \cup ids
                   PROVE /\ k \in spent' /\ k \notin DOMAIN answers
                         /\ jobs'[k] \in Job /\ k \in jobs'[k].batch /\ Carries(jobs'[k], k)
                         /\ jobs'[k].phase # "done" => \E h \in held' : h.id = k
      BY <1>2, <1>4 DEF JobsKnown, Carries
    <2>2. CASE k \in ids
      BY <1>2, <1>7, <2>2
    <2>3. CASE k \in DOMAIN jobs
      BY <1>2, <1>4, <2>3 DEF Inv, JobsKnown
    <2>4. QED
      BY <2>2, <2>3
  <1>9. \A k \in DOMAIN jobs' : JobFine(k)'
    <2>1. SUFFICES ASSUME NEW k \in DOMAIN jobs \cup ids PROVE JobFine(k)'
      BY <1>4
    <2>2. CASE k \in ids
      BY <1>2, <1>7, <2>2 DEF JobFine, Fits
    <2>3. CASE k \in DOMAIN jobs
      <3>1. JobFine(k) /\ jobs'[k] = jobs[k]
        BY <1>4, <2>3 DEF Inv
      <3>2. QED
        BY <1>2, <3>1 DEF JobFine, Fits, Truth, AtMarked
    <2>4. QED
      BY <2>2, <2>3
  <1>10. (\A k \in DOMAIN answers : Truth(k, answers[k]))'
    BY <1>2 DEF Inv, Truth
  <1>11. OneEffectPerMarker' /\ EffectOnMarkedRevision'
    BY <1>2 DEF Inv, OneEffectPerMarker, EffectOnMarkedRevision
  <1>12. QED
    BY <1>5, <1>6, <1>8, <1>9, <1>10, <1>11 DEF Inv

------------------------------------------------------------------------------
(* The invariant.                                                           *)

\* Nothing is marked, executed or under way at first.
LEMMA InitInvariant ==
  ASSUME Init
  PROVE  Inv
PROOF
  <1>1. /\ DOMAIN issued = {} /\ DOMAIN jobs = {} /\ DOMAIN answers = {}
        /\ wire = {} /\ reading = {} /\ fatal = {} /\ editedSince = {}
        /\ retired = {} /\ inTrash = {}
    BY DEF Init, Store!Init
  <1>2. draftAt \in [Subjects \X Drafts -> Messages \cup {Gone}]
    BY DEF Init, Injection
  <1>3. P!IInv
    <2>1. P!Init
      BY DEF Init, Store!Init, P!Init
    <2>2. QED
      BY <2>1, P!InitInvariant, StoreAssumed
  <1>4. Typed
    BY <1>1, <1>2, FS_EmptySet DEF Typed
  <1>5. IssuedDrafts /\ JobsKnown /\ HistoryKnown /\ SentAtMarked
        /\ OneEffectPerMarker /\ EffectOnMarkedRevision
    BY <1>1 DEF IssuedDrafts, JobsKnown, HistoryKnown, SentAtMarked,
                OneEffectPerMarker, EffectOnMarkedRevision
  <1>6. QED
    BY <1>1, <1>3, <1>4, <1>5 DEF Inv

\* Every step preserves the invariant.
LEMMA NextPreserves ==
  ASSUME Inv, [Next]_vars
  PROVE  Inv'
PROOF
  <1>1. CASE UNCHANGED vars
    <2>1. UNCHANGED <<marks, now, held, issued, spent>>
      BY <1>1 DEF vars, store
    <2>2. /\ UNCHANGED <<gmail, jobs, fatal, wire, answers, editedSince>>
          /\ reading' = reading
      BY <1>1 DEF vars, work
    <2>3. P!IInv'
      <3>1. P!IInv /\ UNCHANGED P!vars
        BY <2>1 DEF Inv, P!vars
      <3>2. QED
        BY <3>1, P!NextPreserves, StoreAssumed
    <2>4. IssuedGrows("TrashMessage", {}) /\ "TrashMessage" \in P!Kinds
      BY <2>1 DEF IssuedGrows, P!Kinds
    <2>5. reading' \subseteq Reading /\ IsFiniteSet(reading')
      BY <2>2 DEF Inv, Typed
    <2>6. QED
      BY <2>2, <2>3, <2>4, <2>5, MarkingPreserves
  <1>2. ASSUME NEW i \in DOMAIN jobs, JobStep(i)
        PROVE  Inv'
    BY <1>2, StartPreserves, PreflightPreserves, DispatchPreserves, ReceivePreserves,
       RefreshPreserves, ReadbackPreserves, FinishMarkPreserves, AnswerPreserves DEF JobStep
  <1>3. CASE MailStep
    <2>1. ASSUME NEW s \in Subjects, NEW kind \in Store!Kinds,
                 NEW ids \in (SUBSET DOMAIN issued) \ {{}}, NEW bulk \in BOOLEAN,
                 Consume(s, ids, kind, bulk)
          PROVE  Inv'
      BY <2>1, ConsumePreserves DEF Store!Kinds, P!Kinds
    <2>2. \A i : JobStep(i) => i \in DOMAIN jobs
      BY DEF JobStep
    <2>3. QED
      BY <1>2, <1>3, <2>1, <2>2, MarkEmailsPreserves, ApplyPreserves, RejectPreserves,
         RestartPreserves DEF MailStep
  <1>4. CASE DraftStep
    BY <1>4, MarkDraftsPreserves, ReadPreserves, DiscardPreserves, EditPreserves DEF DraftStep
  <1>5. CASE Tick
    BY <1>5, TickPreserves
  <1>6. QED
    BY <1>1, <1>3, <1>4, <1>5 DEF Next

\* The invariant holds in every reachable state.
THEOREM Invariant == Spec => []Inv
PROOF
  <1>1. QED
    BY InitInvariant, NextPreserves, PTL DEF Spec

\* draft_operation_with_refresh and the bulk handlers: a marker is dispatched again only
\* after Gmail rejected the token of its first write.
THEOREM OneEffect == Spec => []OneEffectPerMarker
PROOF
  <1>1. Inv => OneEffectPerMarker
    BY DEF Inv
  <1>2. QED
    BY <1>1, Invariant, PTL

\* execute_draft_action: a draft is sent or deleted at the revision that was marked, but
\* for an edit after that very attempt's check.
THEOREM RevisionsKept == Spec => []EffectOnMarkedRevision
PROOF
  <1>1. Inv => EffectOnMarkedRevision
    BY DEF Inv
  <1>2. QED
    BY <1>1, Invariant, PTL

\* What the handlers report of a marker is true and stays true, whatever becomes of the
\* writes still on the wire.
THEOREM AnswersTrue == Spec => []AnswersTruthful
PROOF
  <1>1. Inv => AnswersTruthful
    BY DEF Inv, Truth, AnswersTruthful
  <1>2. QED
    BY <1>1, Invariant, PTL

\* Two jobs that still hold their marks never work on one draft or one message.
THEOREM WritesDisjoint == Spec => []NoOverlappingWrites
PROOF
  <1>1. ASSUME Inv, NEW i \in DOMAIN jobs, NEW j \in DOMAIN jobs, i # j,
               {jobs[i].phase, jobs[j].phase} \subseteq {"write", "awaiting", "readback"}
        PROVE  ~Store!Conflict(issued[i], issued[j])
    <2>1. PICK g \in held : g.id = i
      BY <1>1 DEF Inv, JobsKnown
    <2>2. PICK h \in held : h.id = j
      BY <1>1 DEF Inv, JobsKnown
    <2>3. /\ g.key \in DOMAIN marks /\ marks[g.key].id = i
          /\ h.key \in DOMAIN marks /\ marks[h.key].id = j
      BY <1>1, <2>1, <2>2 DEF Inv, P!IInv, P!HeldIsExecuting
    <2>4. /\ g.key = <<issued[i].subject, issued[i].message>>
          /\ h.key = <<issued[j].subject, issued[j].message>>
      BY <1>1, <2>1, <2>2 DEF Inv, P!IInv, P!HeldAuthorised
    <2>5. /\ issued[i].draft = marks[g.key].draft /\ issued[i].subject = g.key[1]
          /\ issued[j].draft = marks[h.key].draft /\ issued[j].subject = h.key[1]
      BY <1>1, <2>3 DEF Inv, P!IInv, P!MarksIssued
    <2>6. g.key # h.key
      BY <1>1, <2>3
    <2>7. ~(/\ g.key[1] = h.key[1]
            /\ marks[g.key].draft # NoDraft
            /\ marks[g.key].draft = marks[h.key].draft)
      BY <1>1, <2>3, <2>6 DEF Inv, P!IInv, P!DraftSlotExclusive
    <2>8. QED
      BY <2>4, <2>5, <2>6, <2>7 DEF Store!Conflict
  <1>2. Inv => NoOverlappingWrites
    BY <1>1 DEF NoOverlappingWrites
  <1>3. QED
    BY <1>2, Invariant, PTL

\* Type correctness of the handlers' and of Gmail's state.
THEOREM TypeCorrect == Spec => []TypeOK
PROOF
  <1>1. Inv => TypeOK
    <2>1. SUFFICES ASSUME Inv PROVE TypeOK
      OBVIOUS
    <2>2. Reading \subseteq [subject : Subjects, kind : DraftKinds, about : Resource]
      BY DEF Reading, Resource
    <2>3. DOMAIN jobs \subseteq MarkerIds /\ DOMAIN answers \subseteq MarkerIds
      BY <2>1 DEF Inv, JobsKnown, HistoryKnown, P!IInv, P!TypeOK
    <2>4. \A i \in DOMAIN jobs : jobs[i] \in Job
      BY <2>1 DEF Inv, JobsKnown
    <2>5. Typed
      BY <2>1 DEF Inv
    <2>6. reading \subseteq [subject : Subjects, kind : DraftKinds, about : Resource]
      BY <2>2, <2>5 DEF Typed
    <2>7. QED
      BY <2>3, <2>4, <2>5, <2>6 DEF Typed, TypeOK
  <1>2. QED
    BY <1>1, Invariant, PTL

------------------------------------------------------------------------------
(* The handlers use the store by its rules.                                 *)

\* A registration is a step of the store.
LEMMA RegisterIsStoreStep ==
  ASSUME NEW s \in Subjects, NEW kind \in P!Kinds, NEW rs \in P!Requests(kind),
         Register(s, rs, kind)
  PROVE  P!Next
PROOF
  <1>1. CASE Store!RegisterActionMarks(s, rs, kind)
    BY <1>1, MarksAreStoreStep DEF P!Next
  <1>2. ASSUME NEW r \in rs, Store!RegisterActionMark(s, r, kind)
        PROVE  P!Next
    <2>1. r \in P!Resources(kind)
      BY DEF P!Requests
    <2>2. QED
      BY <1>2, <2>1, MarkIsStoreStep DEF P!Next
  <1>3. CASE Store!RegisterRefused(s, rs)
    BY <1>3, RefusalIsStoreStep DEF P!Next
  <1>4. QED
    BY <1>1, <1>2, <1>3 DEF Register

\* Whatever the handlers, Gmail and the people do is a step of the store or leaves it alone.
LEMMA StepIsStoreStep ==
  ASSUME Inv, [Next]_vars
  PROVE  [P!Next]_P!vars
PROOF
  <1>1. UNCHANGED store => UNCHANGED P!vars
    BY DEF store, P!vars
  <1>2. ASSUME NEW i, JobStep(i)
        PROVE  [P!Next]_P!vars
    <2>1. CASE FinishMark(i)
      BY <2>1, FinishIsStoreStep DEF FinishMark, P!Next
    <2>2. CASE ~FinishMark(i)
      BY <1>1, <1>2, <2>2
         DEF JobStep, Start, Preflight, Dispatch, Receive, Refresh, Readback, Answer
    <2>3. QED
      BY <2>1, <2>2
  <1>3. ASSUME NEW s \in Subjects, MarkEmails(s)
        PROVE  P!Next
    <2>1. "TrashMessage" \in P!Kinds
      BY DEF P!Kinds
    <2>2. QED
      BY <1>3, <2>1, RequestsAreStoreRequests, RegisterIsStoreStep DEF MarkEmails
  <1>4. ASSUME NEW s \in Subjects, NEW kind \in DraftKinds, MarkDrafts(s, kind)
        PROVE  P!Next
    <2>1. kind \in P!Kinds
      BY DEF DraftKinds, P!Kinds
    <2>2. QED
      BY <1>4, <2>1, MarkDraftsRequest, RegisterIsStoreStep
  <1>5. ASSUME NEW s \in Subjects, NEW kind \in Store!Kinds,
               NEW ids \in (SUBSET DOMAIN issued) \ {{}}, NEW bulk \in BOOLEAN,
               Consume(s, ids, kind, bulk)
        PROVE  P!Next
    <2>1. kind \in P!Kinds
      BY DEF Store!Kinds, P!Kinds
    <2>2. P!ConsumeActionMarks(s, ids, kind)
      BY <1>5, ConsumeIsStoreStep DEF Consume
    <2>3. QED
      BY <2>1, <2>2 DEF P!Next
  <1>6. \A w : Applies(w) \/ Rejects(w) => UNCHANGED store
    BY DEF Applies, Rejects
  <1>7. Restart => P!Next
    BY RestartIsStoreStep DEF Restart, P!Next
  <1>8. MailStep => [P!Next]_P!vars
    BY <1>1, <1>2, <1>3, <1>5, <1>6, <1>7 DEF MailStep
  <1>9. \A s, d, kind, m : ReadRevision(s, d, kind) \/ Discard(s, d) \/ Edit(s, d, m)
                           => UNCHANGED store
    BY DEF ReadRevision, Discard, Edit
  <1>10. DraftStep => [P!Next]_P!vars
    BY <1>1, <1>4, <1>9 DEF DraftStep
  <1>11. Tick => P!Next
    BY TickIsStoreStep DEF Tick, P!Next
  <1>12. UNCHANGED vars => UNCHANGED P!vars
    BY <1>1 DEF vars
  <1>13. QED
    BY <1>8, <1>10, <1>11, <1>12 DEF Next

\* The handlers touch the store only through its operations, each called as the store's
\* own specification allows, so all that is proved of the store holds of it in use.
THEOREM StoreUsedByItsRules == Spec => P!Spec
PROOF
  <1>1. Init => P!Init
    BY DEF Init, Store!Init, P!Init
  <1>2. Inv /\ [Next]_vars => [P!Next]_P!vars
    BY StepIsStoreStep
  <1>3. QED
    BY <1>1, <1>2, Invariant, PTL DEF Spec, P!Spec

\* A marker starts at most one execution in the broker's lifetime, and in time.
THEOREM ExecutedOnce == Spec => P!OneUseInTime
PROOF
  <1>1. P!Spec => P!OneUseInTime
    BY P!MarkersOneUseInTime, StoreAssumed
  <1>2. QED
    BY <1>1, StoreUsedByItsRules

\* The handlers never hold, refuse or repeat an authority the store's promise denies them.
THEOREM AuthorityKept == Spec => P!ImplementsAuthority
PROOF
  <1>1. P!Spec => P!ImplementsAuthority
    BY P!StoreImplementsAuthority, StoreAssumed
  <1>2. QED
    BY <1>1, StoreUsedByItsRules
================================================================================
