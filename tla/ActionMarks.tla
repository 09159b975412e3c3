------------------------------ MODULE ActionMarks ------------------------------
(****************************************************************************)
(* The broker's pending-action store: BrokerState.pending_actions and the   *)
(* five functions of broker/actions.rs and broker/actions/bulk.rs that touch *)
(* it.  Each of them runs under the store's mutex, so each is one action.   *)
(* The handler that consumed a mark works without the lock and calls        *)
(* finish_action_mark later; what it holds in between is `held`.            *)
(****************************************************************************)
EXTENDS Integers, FiniteSets

CONSTANTS
    Subjects,    \* Google subjects, one per account
    Messages,    \* Gmail message IDs (an edit gives a draft a new one)
    Drafts,      \* stable Gmail draft IDs
    NoDraft,     \* PendingActionMark.draft_id = None
    MarkerIds,   \* the UUIDs a run may draw
    TTL,         \* DELETION_MARK_TTL, in ticks of the clock
    MaxMarks,    \* MAX_PENDING_ACTION_MARKS
    MaxTime      \* bound on the clock

ASSUME ActionMarksAssumption ==
    /\ NoDraft \notin Drafts
    /\ TTL \in Nat \ {0}
    /\ MaxMarks \in Nat
    /\ MaxTime \in Nat

VARIABLES
    marks,   \* the HashMap: (subject, message) -> PendingActionMark
    now,     \* Instant::now()
    held,    \* the marks a handler has consumed and not yet finished
    issued,  \* history: every marker ever returned and what it was issued for
    spent    \* history: the markers that were ever consumed

vars == <<marks, now, held, issued, spent>>

Keys == Subjects \X Messages
Kinds == {"TrashMessage", "DeleteDraft", "SendDraft"}

\* ActionResource: what a mark is about.  Draft kinds name the draft too.
Resources(kind) ==
    [message : Messages, draft : IF kind = "TrashMessage" THEN {NoDraft} ELSE Drafts]
AnyResource == [message : Messages, draft : Drafts \cup {NoDraft}]

\* What one request may name: a non-empty list, as a set.
Requests(kind) == {rs \in SUBSET Resources(kind) : rs # {} /\ IsFiniteSet(rs)}

Mark == [id : MarkerIds, draft : Drafts \cup {NoDraft}, kind : Kinds,
         expires_at : Nat, executing : BOOLEAN]

\* The clone a handler works from: the marker it presented, the account it runs
\* for, the operation it performs and the map key it will finish.
Handle == [id : MarkerIds, subject : Subjects, kind : Kinds, key : Keys]

\* History of one marker; serial orders the registrations.
Issue == [subject : Subjects, message : Messages, draft : Drafts \cup {NoDraft},
          kind : Kinds, at : Nat, serial : Nat]

Unexpired(m) == m.expires_at > now

\* Mutant: the purge forgets that an executing mark outlives its expiry.
RetainedUnexpired == {k \in DOMAIN marks : Unexpired(marks[k])}

\* marks.retain(|mark| mark.executing || mark.expires_at > now)
Retained == {k \in DOMAIN marks : marks[k].executing \/ Unexpired(marks[k])}

\* Mutant: a mark is looked up by its message alone.
SameMessage(k, s, r) == k[1] = s /\ k[2] = r.message

\* The closure same_resource: one account, and the same message or the same draft.
SameResource(k, s, r) ==
    /\ k[1] = s
    /\ \/ k[2] = r.message
       \/ r.draft # NoDraft /\ marks[k].draft = r.draft

Overlapping(s, rs) == {k \in Retained : \E r \in rs : SameResource(k, s, r)}

\* Mutant: only the named messages are checked for a running action.
MessageInProgress(s, rs) ==
    \E k \in Retained : k[1] = s /\ marks[k].executing /\ \E r \in rs : k[2] = r.message

InProgress(s, rs) == \E k \in Overlapping(s, rs) : marks[k].executing

\* Mutants: one mark too many; the replaced marks are counted as well.
BulkLimitOffByOne(s, rs) ==
    Cardinality(Retained \ Overlapping(s, rs)) + Cardinality(rs) > MaxMarks + 1
BulkLimitBeforeReplacing(s, rs) == Cardinality(Retained) + Cardinality(rs) > MaxMarks

\* ActionMarkFailure::Limit, as each of the two registrations computes it.
SingleLimit(s, r) == Overlapping(s, {r}) = {} /\ Cardinality(Retained) >= MaxMarks
BulkLimit(s, rs) ==
    Cardinality(Retained \ Overlapping(s, rs)) + Cardinality(rs) > MaxMarks

\* register_action_marks refuses a set that names a message or a draft twice.
Distinct(rs) ==
    \A r, q \in rs :
        r.message = q.message \/ (r.draft # NoDraft /\ r.draft = q.draft) => r = q

NextSerial == Cardinality(DOMAIN issued)

\* Mutant: draft and message swapped.
NewMarkSwapped(r, kind, id) ==
    [id |-> id, draft |-> r.message, kind |-> kind, expires_at |-> now + TTL,
     executing |-> FALSE]

NewMark(r, kind, id) ==
    [id |-> id, draft |-> r.draft, kind |-> kind, expires_at |-> now + TTL,
     executing |-> FALSE]

\* Drop the expired and the overlapping marks and insert one mark per resource;
\* id gives each resource its fresh UUID.
Replace(s, rs, kind, id) ==
    LET new == {<<s, r.message>> : r \in rs}
        at(k) == CHOOSE r \in rs : r.message = k[2]
    IN  /\ marks' = [k \in (Retained \ Overlapping(s, rs)) \cup new |->
                        IF k \in new THEN NewMark(at(k), kind, id[at(k)]) ELSE marks[k]]
        /\ issued' = [i \in DOMAIN issued \cup {id[r] : r \in rs} |->
                        IF i \in DOMAIN issued THEN issued[i]
                        ELSE LET r == CHOOSE q \in rs : id[q] = i
                             IN  [subject |-> s, message |-> r.message, draft |-> r.draft,
                                  kind |-> kind, at |-> now, serial |-> NextSerial]]
        /\ UNCHANGED <<now, held, spent>>

\* Uuid::new_v4: distinct and never drawn before.
FreshIds(rs) ==
    {id \in [rs -> MarkerIds \ DOMAIN issued] : \A r, q \in rs : id[r] = id[q] => r = q}

------------------------------------------------------------------------------
Init ==
    /\ marks = [k \in {} |-> {}]
    /\ now = 0
    /\ held = {}
    /\ issued = [i \in {} |-> {}]
    /\ spent = {}

RegisterActionMark(s, r, kind) ==
    /\ ~InProgress(s, {r})
    /\ ~SingleLimit(s, r)
    /\ \E id \in FreshIds({r}) : Replace(s, {r}, kind, id)

RegisterActionMarks(s, rs, kind) ==
    /\ Distinct(rs)
    /\ ~InProgress(s, rs)
    /\ ~BulkLimit(s, rs)
    /\ \E id \in FreshIds(rs) : Replace(s, rs, kind, id)

\* Both registrations purge before they refuse with InProgress or Limit.
RegisterRefused(s, rs) ==
    /\ Distinct(rs)
    /\ \/ InProgress(s, rs)
       \/ \E r \in rs : rs = {r} /\ SingleLimit(s, r)
       \/ BulkLimit(s, rs)
    /\ marks' = [k \in Retained |-> marks[k]]
    /\ UNCHANGED <<now, held, issued, spent>>

\* Mutants: a marker redeemed for another account or kind; after its expiry.
RedeemableByAnyone(k, s, kind) == Unexpired(marks[k]) /\ ~marks[k].executing
RedeemableForever(k, s, kind) ==
    k[1] = s /\ marks[k].kind = kind /\ ~marks[k].executing

\* What consume_action_mark demands of the mark it finds by its marker.
Redeemable(k, s, kind) ==
    /\ k[1] = s
    /\ marks[k].kind = kind
    /\ Unexpired(marks[k])
    /\ ~marks[k].executing

\* consume_action_marks is all or nothing; a refusal (Required) changes nothing.
ConsumeActionMarks(s, ids, kind) ==
    LET found == {k \in DOMAIN marks : marks[k].id \in ids}
    IN  /\ \A i \in ids : \E k \in found : marks[k].id = i
        /\ \A k \in found : Redeemable(k, s, kind)
        /\ marks' = [k \in DOMAIN marks |->
                        IF k \in found THEN [marks[k] EXCEPT !.executing = TRUE]
                                       ELSE marks[k]]
        /\ held' = held \cup {[id |-> marks[k].id, subject |-> s, kind |-> kind,
                               key |-> k] : k \in found}
        /\ spent' = spent \cup ids
        /\ UNCHANGED <<now, issued>>

\* finish_action_mark; the bulk guard calls it once per mark, retaking the lock.
FinishActionMark(h) ==
    /\ h \in held
    /\ held' = held \ {h}
    /\ marks' = [k \in {j \in DOMAIN marks : ~(j = h.key /\ marks[j].id = h.id)} |-> marks[k]]
    /\ UNCHANGED <<now, issued, spent>>

\* The store is process-local: a restarted broker knows no marker.
Restart ==
    /\ marks' = [k \in {} |-> {}]
    /\ held' = {}
    /\ UNCHANGED <<now, issued, spent>>

Tick ==
    /\ now < MaxTime
    /\ now' = now + 1
    /\ UNCHANGED <<marks, held, issued, spent>>

Next ==
    \/ \E s \in Subjects, kind \in Kinds :
          \/ \E r \in Resources(kind) : RegisterActionMark(s, r, kind)
          \/ \E rs \in Requests(kind) :
                RegisterActionMarks(s, rs, kind) \/ RegisterRefused(s, rs)
          \/ \E ids \in (SUBSET DOMAIN issued) \ {{}} : ConsumeActionMarks(s, ids, kind)
    \/ \E h \in held : FinishActionMark(h)
    \/ Restart
    \/ Tick

Spec == Init /\ [][Next]_vars

------------------------------------------------------------------------------
TypeOK ==
    /\ DOMAIN marks \subseteq Keys
    /\ \A k \in DOMAIN marks : marks[k] \in Mark
    /\ marks = [k \in DOMAIN marks |-> marks[k]]
    /\ now \in Nat
    /\ held \subseteq Handle
    /\ DOMAIN issued \subseteq MarkerIds
    /\ \A i \in DOMAIN issued : issued[i] \in Issue
    /\ issued = [i \in DOMAIN issued |-> issued[i]]
    /\ IsFiniteSet(DOMAIN issued)
    /\ spent \subseteq DOMAIN issued

\* "A draft ID survives edits while its underlying message ID changes. Keep both
\* identities exclusive" (broker/actions.rs:49): the map key keeps messages apart;
\* no two marks of an account may name one draft under two revisions either.
DraftSlotExclusive ==
    \A k, j \in DOMAIN marks :
        /\ k[1] = j[1]
        /\ marks[k].draft # NoDraft
        /\ marks[k].draft = marks[j].draft
        => k = j

\* From consume to finish the slot stays the handler's: whatever purges and
\* registrations run meanwhile, the mark it holds is in the map, executing and
\* under the same marker; and nobody executes without a handler that will finish.
HeldIsExecuting ==
    /\ \A h \in held :
          /\ h.key \in DOMAIN marks
          /\ marks[h.key].id = h.id
          /\ marks[h.key].executing
    /\ \A k \in DOMAIN marks :
          marks[k].executing => \E h \in held : h.key = k /\ h.id = marks[k].id

\* A handler performs the operation its marker was issued for, on that account.
HeldAuthorised ==
    \A h \in held :
        /\ h.id \in DOMAIN issued
        /\ issued[h.id].subject = h.subject
        /\ issued[h.id].kind = h.kind
        /\ h.key = <<issued[h.id].subject, issued[h.id].message>>

Conflict(a, b) ==
    /\ a.subject = b.subject
    /\ \/ a.message = b.message
       \/ a.draft # NoDraft /\ a.draft = b.draft

\* A new mark replaces the pending ones of its resource: no mark in the map,
\* pending or executing, is older than another marker issued for its resource.
LatestMarkWins ==
    \A k \in DOMAIN marks : \A j \in DOMAIN issued :
        /\ marks[k].id \in DOMAIN issued
        /\ issued[j].serial > issued[marks[k].id].serial
        => ~Conflict(issued[j], issued[marks[k].id])

\* The map never outgrows MAX_PENDING_ACTION_MARKS, executing marks included.
WithinLimit == Cardinality(DOMAIN marks) <= MaxMarks

\* On one resource the two registrations, written separately, refuse alike.
PathsAgree ==
    \A s \in Subjects, r \in AnyResource :
        ~InProgress(s, {r}) => (SingleLimit(s, r) <=> BulkLimit(s, {r}))

\* "Markers remain account-bound, one-use, and 10-minute" (gmail-broker.md): a
\* marker is consumed at most once in the broker's lifetime, within its TTL.
OneUseInTime ==
    [][\A i \in DOMAIN issued :
          /\ \E h \in held' : h.id = i
          /\ \A h \in held : h.id # i
          => i \notin spent /\ issued[i].at <= now /\ now < issued[i].at + TTL]_vars

------------------------------------------------------------------------------
(****************************************************************************)
(* Refinement: what the store promises its callers (module OneShotAuthority). *)
(****************************************************************************)
IdsOf(ks) == {marks[k].id : k \in ks}
ExecutingKeys == {k \in DOMAIN marks : marks[k].executing}

Authority == INSTANCE OneShotAuthority WITH
    Ids       <- MarkerIds,
    Clash     <- Conflict,
    about     <- issued,
    granted   <- IdsOf(DOMAIN marks \ ExecutingKeys),
    executing <- IdsOf(ExecutingKeys)

ImplementsAuthority == Authority!Spec
================================================================================
