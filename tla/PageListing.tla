------------------------------ MODULE PageListing ------------------------------
(****************************************************************************)
(* One page of mail or drafts: list_emails (gmail/client.rs) and            *)
(* list_drafts (gmail/client/drafts.rs) list the identifiers, read every    *)
(* one of them on several threads, and answer with all or with none.  The   *)
(* repetition after a 401 (broker/handlers/tokens.rs) lists again.  Mail    *)
(* comes and goes meanwhile.                                                *)
(****************************************************************************)
EXTENDS Integers, FiniteSetsExt

CONSTANTS
    N,            \* identifiers there may be, listed in their order
    MaxChanges    \* bound on the changes others make

VARIABLES
    mailbox,   \* Gmail: what the page would list now
    changes,   \* changes made by others so far
    phase,     \* where the request is
    attempt,   \* which token it uses: 0 none yet, 1 the cached one, 2 the refreshed one
    listed,    \* the identifiers the last list named
    detail,    \* what reading each of them gave
    answer,    \* the kind of answer
    page,      \* the entries of the answer
    moments    \* history: what the mailbox held at each moment of the request

vars == <<mailbox, changes, phase, attempt, listed, detail, answer, page, moments>>

Mail == 1..N
Phases == {"token", "list", "details", "answered"}
Details == {"none", "ok", "gone", "denied", "failed"}
Answers == {"none", "page", "not_found", "unavailable", "reauthenticate", "credential"}

Init ==
    /\ mailbox \in SUBSET Mail
    /\ changes = 0
    /\ phase = "token"
    /\ attempt = 0
    /\ listed = {}
    /\ detail = [m \in Mail |-> "none"]
    /\ answer = "none"
    /\ page = {}
    /\ moments = {mailbox}

Respond(a, entries) ==
    /\ phase' = "answered"
    /\ answer' = a
    /\ page' = entries

Go(p) ==
    /\ phase' = p
    /\ UNCHANGED <<answer, page>>

\* A 401 for the list or for an entry: the whole page is read once more.
Rejected ==
    \/ attempt = 1 /\ Go("token")
    \/ attempt = 2 /\ Respond("reauthenticate", {})

Token ==
    /\ phase = "token"
    /\ \/ Go("list") /\ attempt' = IF attempt = 2 THEN 2 ELSE attempt + 1
       \/ Respond("credential", {}) /\ UNCHANGED attempt
    /\ UNCHANGED <<mailbox, changes, listed, detail, moments>>

\* Mutant: what a first attempt has read is not read again.
ListKeeping ==
    /\ phase = "list"
    /\ \/ /\ Go("details")
          /\ listed' = listed \cup mailbox
          /\ detail' = [m \in Mail |-> IF detail[m] = "ok" THEN "ok" ELSE "none"]
       \/ (Rejected \/ Respond("unavailable", {})) /\ UNCHANGED <<listed, detail>>
    /\ UNCHANGED <<mailbox, changes, attempt, moments>>

List ==
    /\ phase = "list"
    /\ \/ /\ Go("details")
          /\ listed' = mailbox
          /\ detail' = [m \in Mail |-> "none"]
       \/ (Rejected \/ Respond("unavailable", {})) /\ UNCHANGED <<listed, detail>>
    /\ UNCHANGED <<mailbox, changes, attempt, moments>>

\* One entry; an identity that differs from the list's, or a draft without its label
\* or identifiers, is a failure too.
Read(m) ==
    /\ phase = "details" /\ m \in listed /\ detail[m] = "none"
    /\ \E d \in {"denied", "failed"} \cup {IF m \in mailbox THEN "ok" ELSE "gone"} :
          detail' = [detail EXCEPT ![m] = d]
    /\ UNCHANGED <<mailbox, changes, phase, attempt, listed, answer, page, moments>>

Failures == {m \in listed : detail[m] # "ok"}

\* Mutant: the entries that could be read make a page.
CollectReadable == Respond("page", listed \ Failures)

\* collect::<Result<Vec>>: the page, or the error of the first entry that has one; a
\* 401 behind another error is not retried.
Collect ==
    IF Failures = {} THEN Respond("page", listed)
    ELSE LET first == detail[Min(Failures)]
         IN  \/ first = "denied" /\ Rejected
             \/ first = "gone" /\ Respond("not_found", {})
             \/ first = "failed" /\ Respond("unavailable", {})

\* bounded_map returns when every entry has been read, the failed ones included.
Finish ==
    /\ phase = "details"
    /\ \A m \in listed : detail[m] # "none"
    /\ Collect
    /\ UNCHANGED <<mailbox, changes, attempt, listed, detail, moments>>

\* Something arrives, is sent or is deleted.
Others(m) ==
    /\ changes < MaxChanges
    /\ changes' = changes + 1
    /\ mailbox' = IF m \in mailbox THEN mailbox \ {m} ELSE mailbox \cup {m}
    /\ moments' = IF phase = "answered" THEN moments ELSE moments \cup {mailbox'}
    /\ UNCHANGED <<phase, attempt, listed, detail, answer, page>>

RequestStep == Token \/ List \/ Finish \/ \E m \in Mail : Read(m)

Elsewhere == \E m \in Mail : Others(m)

Next == RequestStep \/ Elsewhere

Spec == Init /\ [][Next]_vars

------------------------------------------------------------------------------
(* Properties.                                                              *)

TypeOK ==
    /\ mailbox \in SUBSET Mail
    /\ changes \in 0..MaxChanges
    /\ phase \in Phases
    /\ attempt \in 0..2
    /\ listed \in SUBSET Mail
    /\ detail \in [Mail -> Details]
    /\ answer \in Answers
    /\ page \in SUBSET Mail
    /\ moments \in SUBSET SUBSET Mail
    /\ phase = "answered" <=> answer # "none"

\* "No partial page was returned": a page is everything the mailbox held at one moment
\* of the request, every entry of it read, whatever failed or was repeated on the way;
\* an error answer has no entries.
PageComplete ==
    IF answer = "page"
    THEN page \in moments /\ \A m \in page : detail[m] = "ok"
    ELSE page = {}

Ended == phase = "answered"
================================================================================
