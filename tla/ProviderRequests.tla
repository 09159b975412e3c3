--------------------------- MODULE ProviderRequests ---------------------------
(****************************************************************************)
(* A request of the MCP server that works on Gmail itself, of any kind:     *)
(* labels on messages, the labels themselves, new drafts, a page of mail or *)
(* drafts, a set of messages to read.  Each kind has a module; this one     *)
(* takes one request of one kind and states what docs/api/mcp.md promises   *)
(* of all of them, and that each of them is answered.  Variables of the     *)
(* same name are the same; those of the other kinds stay Unused.            *)
(****************************************************************************)
EXTENDS Integers, FiniteSets

CONSTANTS N, MaxChanges, Labels, System, MaxLabelChanges, MaxPageChanges,
          Window, Bodies, Budget

\* Of the parts' constants.  An answer made of placeholders, of two units each, fits: a
\* request names at most 20 messages.
ASSUME ProviderRequestsAssumption ==
    /\ N \in Nat \ {0} /\ Window \in Nat \ {0}
    /\ MaxChanges \in Nat /\ MaxLabelChanges \in Nat /\ MaxPageChanges \in Nat
    /\ System \subseteq Labels
    /\ Bodies \subseteq Nat /\ Budget \in Nat /\ 2 * N <= Budget

VARIABLES
    kind,
    request, phase, attempt, changes, outcome, answer, fatal, wire,
    message, on, label, check, batch, observed, pending, touched, seen, accepted,
    exists, targets, stage, checked, aborted, effects, missing,
    drafts,
    mailbox, listed, detail, page, moments,
    body, next, result, exhausted, over, fetched

Messages == INSTANCE MessageLabels
Catalogue == INSTANCE LabelCatalogue WITH MaxChanges <- MaxLabelChanges
Drafts == INSTANCE DraftCreation WITH N <- 2
Pages == INSTANCE PageListing WITH MaxChanges <- MaxPageChanges
Reads == INSTANCE ReadAssembly

messageVars == <<message, on, label, check, batch, observed, pending, touched, seen, accepted>>
catalogueVars == <<exists, targets, stage, checked, aborted, effects, missing>>
pageVars == <<mailbox, listed, detail, page, moments>>
readVars == <<body, next, result, exhausted, over, fetched>>
vars == <<kind, request, phase, attempt, changes, outcome, answer, fatal, wire, messageVars,
          catalogueVars, drafts, pageVars, readVars>>

Unused == "unused"

Kinds == {"messages", "catalogue", "drafts", "page", "reads"}

\* The variables a request of each kind does not use.
besideMessages == <<kind, fatal, wire, catalogueVars, drafts, pageVars, readVars>>
besideCatalogue == <<kind, answer, messageVars, drafts, pageVars, readVars>>
besideDrafts == <<kind, changes, answer, messageVars, catalogueVars, pageVars, readVars>>
besidePage == <<kind, request, outcome, fatal, wire, messageVars, catalogueVars, drafts, readVars>>
besideReads == <<kind, request, changes, answer, wire, messageVars, catalogueVars, drafts, pageVars>>

NoMessages == /\ message = Unused /\ on = Unused /\ label = Unused /\ check = Unused
              /\ batch = Unused /\ observed = Unused /\ pending = Unused /\ touched = Unused
              /\ seen = Unused /\ accepted = Unused
NoCatalogue == /\ exists = Unused /\ targets = Unused /\ stage = Unused /\ checked = Unused
               /\ aborted = Unused /\ effects = Unused /\ missing = Unused
NoDrafts == drafts = Unused
NoPages == /\ mailbox = Unused /\ listed = Unused /\ detail = Unused /\ page = Unused
           /\ moments = Unused
NoReads == /\ body = Unused /\ next = Unused /\ result = Unused /\ exhausted = Unused
           /\ over = Unused /\ fetched = Unused

Init ==
    \/ /\ kind = "messages" /\ Messages!Init
       /\ fatal = Unused /\ wire = Unused
       /\ NoCatalogue /\ NoDrafts /\ NoPages /\ NoReads
    \/ /\ kind = "catalogue" /\ Catalogue!Init
       /\ answer = Unused
       /\ NoMessages /\ NoDrafts /\ NoPages /\ NoReads
    \/ /\ kind = "drafts" /\ Drafts!Init
       /\ changes = Unused /\ answer = Unused
       /\ NoMessages /\ NoCatalogue /\ NoPages /\ NoReads
    \/ /\ kind = "page" /\ Pages!Init
       /\ request = Unused /\ outcome = Unused /\ fatal = Unused /\ wire = Unused
       /\ NoMessages /\ NoCatalogue /\ NoDrafts /\ NoReads
    \/ /\ kind = "reads" /\ Reads!Init
       /\ request = Unused /\ changes = Unused /\ answer = Unused /\ wire = Unused
       /\ NoMessages /\ NoCatalogue /\ NoDrafts /\ NoPages

RequestStep ==
    \/ kind = "messages" /\ Messages!RequestStep /\ UNCHANGED besideMessages
    \/ kind = "catalogue" /\ Catalogue!RequestStep /\ UNCHANGED besideCatalogue
    \/ kind = "drafts" /\ Drafts!RequestStep /\ UNCHANGED besideDrafts
    \/ kind = "page" /\ Pages!RequestStep /\ UNCHANGED besidePage
    \/ kind = "reads" /\ Reads!RequestStep /\ UNCHANGED besideReads

Elsewhere ==
    \/ kind = "messages" /\ Messages!Elsewhere /\ UNCHANGED besideMessages
    \/ kind = "catalogue" /\ Catalogue!Elsewhere /\ UNCHANGED besideCatalogue
    \/ kind = "drafts" /\ Drafts!Elsewhere /\ UNCHANGED besideDrafts
    \/ kind = "page" /\ Pages!Elsewhere /\ UNCHANGED besidePage

Next == RequestStep \/ Elsewhere

\* The broker's threads run and every call to the provider returns within its timeout;
\* nothing is assumed of Gmail or of anybody else.
Spec == Init /\ [][Next]_vars /\ WF_vars(RequestStep)

------------------------------------------------------------------------------
(* Properties.                                                              *)

TypeOK ==
    /\ kind \in Kinds
    /\ kind = "messages" => Messages!TypeOK
    /\ kind = "catalogue" => Catalogue!TypeOK
    /\ kind = "drafts" => Drafts!TypeOK
    /\ kind = "page" => Pages!TypeOK
    /\ kind = "reads" => Reads!TypeOK

\* "Each structured result contains one indexed item per input with succeeded, failed,
\* unknown, or not_attempted status" (docs/api/mcp.md): success was seen after the
\* write, and what failed or was not attempted has changed nothing and never will.  The
\* same holds of single requests but for the failure gmail_unavailable ("unavailable").
OutcomesTruthful ==
    /\ TypeOK
    /\ kind = "messages" => Messages!SucceededWasSeen /\ Messages!FailedIsUntouched
    /\ kind = "catalogue" => Catalogue!OutcomesTruthful /\ Catalogue!RejectedSetUntouched
    /\ kind = "drafts" => Drafts!OutcomesTruthful

\* A write that Gmail may have acted on is not sent again: not after an answer that was
\* lost, and not by the repetition of a whole operation after a 401.
WrittenOnce ==
    /\ kind = "messages" => Messages!OneWrite
    /\ kind = "catalogue" => Catalogue!OneEffectPerLabel
    /\ kind = "drafts" => Drafts!OneDraftPerItem

\* What is read is what was there: a page is one whole listing or none of it, and a set
\* of messages fits its budget with every message accounted for in its own place.
ReadsTruthful ==
    /\ kind = "page" => Pages!PageComplete
    /\ kind = "reads" => Reads!WithinBudget /\ Reads!PlacesTruthful

------------------------------------------------------------------------------
(* Refinement: what a request promises of its items (module RequestPromise). *)

Names == 1..N \cup 1..2 \cup Labels

\* An answer to the whole request, where there is none to the item.
OfAll(a) ==
    CASE a = "done" -> "succeeded"
      [] a \in {"rejected", "reauthenticate", "credential"} -> "failed"
      [] a = "unavailable" -> "unavailable"
      [] OTHER -> "none"

Status(i) ==
    CASE kind = "messages" /\ i \in Messages!Targets ->
            IF outcome[i] = "none" THEN OfAll(answer) ELSE outcome[i]
      [] kind = "catalogue" /\ i \in targets ->
            IF aborted \/ outcome[i] = "system" THEN "failed" ELSE outcome[i]
      [] kind = "drafts" /\ i \in Drafts!Items -> outcome[i]
      [] OTHER -> "none"

Effect(i) ==
    CASE kind = "messages" /\ i \in touched -> 1
      [] kind = "catalogue" /\ i \in Labels -> effects[i]
      [] kind = "drafts" /\ i \in Drafts!Items -> drafts[i]
      [] OTHER -> 0

Creates == kind = "drafts" \/ (kind = "catalogue" /\ request.create)

Promise == INSTANCE RequestPromise WITH
    Items <- Names,
    creates <- Creates,
    status <- [i \in Names |-> Status(i)],
    effect <- [i \in Names |-> Effect(i)]

\* A request of any kind keeps that promise, whatever Gmail, its answers and other
\* people do; of a single request's gmail_unavailable it promises less.
KeepsPromise == Promise!Spec

\* Every request is answered.
EveryRequestEnds ==
    <>(\/ kind = "messages" /\ Messages!Ended
       \/ kind = "catalogue" /\ Catalogue!Ended
       \/ kind = "drafts" /\ Drafts!Ended
       \/ kind = "page" /\ Pages!Ended
       \/ kind = "reads" /\ Reads!Ended)
================================================================================
