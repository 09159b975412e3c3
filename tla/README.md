# A verification project for Arqen

Arqen lets an MCP client work with one Gmail account without ever holding a
credential. This directory holds TLA+ models of its core, translated from the
Rust source, the TLC configurations that check them on small instances, and
TLAPS proofs of the results that hold for every value of the constants. Paths
below are relative to the repository; `broker/...` is `src/broker/...`.

## The system

One binary plays four roles, usually four processes:

| role | state it keeps | who it talks to |
| --- | --- | --- |
| terminal interface (`tui/`) | the account list as last loaded, the current screen, an OAuth login in progress | SQLite, the secret store, Google's OAuth endpoints |
| `credential-broker` (`broker/`, `gmail/`) | access-token cache, refresh locks, pending action marks, the provider gate; all in memory, all shared by its request threads | SQLite, the secret store, Google's token endpoint, Gmail |
| `mcp-server` (`server/`) | none | the broker, one request per Unix-socket connection |
| `control-gateway` (`control/`) | sessions, the failed-login counter, the ttyd child | browsers; ttyd starts one terminal interface per connection |

What they share: the SQLite database (`store/`: accounts, granted scopes, the
single MCP target), the secret store (`secrets/`: the OS keyring or OpenBao, one
refresh token per account), and Google. There is no lock across processes.

### Components, their operations and what makes them correct

* **Pending-action store** (`broker/actions.rs`, `broker/actions/bulk.rs`). A map
  from (account, message) to a mark; register (single, bulk), consume (single,
  bulk), finish. Correct when a marker is redeemed once, in time, by the account
  and for the operation it was issued for; when a message and a draft have one
  slot, whatever IDs an edit gives them; when the newest mark wins and a running
  one blocks; when 256 is never exceeded.
* **Marked-action handlers** (`broker/handlers/{drafts,deletion,bulk_drafts,bulk_deletion}.rs`).
  Mark, then execute in two to five calls to Gmail with a refresh in between.
  Correct when one marker has at most one effect, on the revision that was marked,
  and what a bulk item or a sending is reported as is so (see Observations for the
  others).
* **Token cache** (`broker/handlers/tokens.rs`). Look up, refresh under the
  account's lock, retry once after a 401. Correct when one retry is enough, one
  refresh is shared and nobody waits forever.
* **Credential lifecycle** (`auth/`, `tui/app/{auth,account}.rs`, `store/accounts.rs`,
  `secrets/`). Login, disconnect, refresh, rotation over database, secret store and
  Google. Correct when an account shown as connected can be used, wherever a
  process stops.
* **Executor and gate** (`gmail/concurrency.rs`, `broker/handlers/bulk.rs`). Four
  workers per batch, eight provider requests at a time in the process. Correct when
  no permit leaks, no wakeup is lost, every input runs once and keeps its outcome.
* **Label and read-state changes** (`gmail/client/bulk.rs`, `gmail/client.rs`).
  Preflight of every message, one write, readback, all of it once more after a 401.
  Correct when success was seen, failure changed nothing and everything else in a
  bulk result is called unknown.
* **Label creation and deletion** (`gmail/client.rs`, `broker/handlers/bulk_labels.rs`).
  Creation verified by a second read, deletion after a check of the whole set.
  Correct when nothing is created or deleted twice and a rejected set is untouched.
* **Drafts, listings and bulk reads** (`gmail/client/drafts.rs`, `gmail/client.rs`,
  `gmail/bulk/budget.rs`, `broker/handlers/bulk_emails.rs`). Correct when a POST that
  may have been applied is not repeated and, in bulk, not called failed, when a page is one
  whole listing or none, when a set of bodies fits its budget and every message has
  its own account.
* **Broker socket and protocol** (`broker/{runtime,protocol,client}.rs`). One bounded
  request per connection, on a thread of its own. Correct when a broker that started
  alone keeps its socket, both sides agree on each operation's answer and on the
  limits, and a caller whose connection is lost is not told that nothing was done.
* **MCP target** (`store/{target,queries,accounts}.rs`, `broker/handlers/target.rs`).
  Correct when a request runs for one account that was eligible while it was checked.
* **Login dialogue** (`tui/app/`, `callback/`). Correct when an account is saved only
  from the authorization its own dialogue asked for and only while that stands, when
  the listener and the browser end with the dialogue, and when no callback is lost.
* **Control gateway** (`control/`). Correct when interfaces live exactly as long as
  their connections and the limiter counts every failure.
* **MCP server** (`server/`): translates tool calls, keeps nothing. **Drawing** (`ui/`):
  nothing the others depend on.

The behaviours that are hard to test are listed, each at its line, under `hazards`
in `PROJECT.json`.

## Modules

| module | models | state |
| --- | --- | --- |
| `ActionMarks` | `broker/actions.rs`, `broker/actions/bulk.rs` | `marks` is the `HashMap`, `now` the clock, `held` the marks handlers have consumed and not finished; `issued` and `spent` are history |
| `OneShotAuthority` | what that store promises: a token is granted, executes at most once, and clashing tokens never coexist | |
| `ActionMarksProofs` | the theorems about `ActionMarks` | |
| `MarkedActions` | the handlers, over an instance of `ActionMarks` and a model of Gmail | `jobs` (one per executing mark), `wire` (every write ever sent and what became of it), `draftAt`, `retired`, `inTrash` (Gmail), `answers` (history) |
| `TokenCache` | `broker/handlers/tokens.rs` | `cache`, `fresh`, `lock`; one phase per operation; Google's `minted`, `valid`, `granted` |
| `CredentialLifecycle` | login, disconnect, refresh | `state` (the row), `secret` (the entry), `live` (Google's grants); a place per interface and per refresh |
| `ProviderExecutor` | `bounded_map`, `run_items`, `ProviderGate` | `next`, `results`, `fatal` per batch; `active` of the gate; a place per worker |
| `MessageLabels` | `modify_message_set` and its single forms | `check`, `observed` (the two `bounded_map`s), `batch`, `phase`, `attempt`; Gmail's `message`, `on`, `label`, and `pending`, what the last write may still change |
| `LabelCatalogue` | `create_label(s)`, `delete_label(s)` | a place per label and thread, `checked`, `outcome`, `fatal`; Gmail's `exists` and `wire` |
| `DraftCreation` | `create_draft(s)`, `create_reply_draft(s)` | a place per item, `fatal`, `outcome`; the POST's `wire`, how many `drafts` Gmail has made of it |
| `PageListing` | `list_emails`, `list_drafts` | `listed` and each entry's `detail`, `page`, `answer`; Gmail's `mailbox`; `moments` is history: what the mailbox held since the listing |
| `ReadAssembly` | `read_emails` | `next` (the place filled next, whose window is being read), `result` (what a fetch gave), `outcome` (the place in the answer), `exhausted` |
| `ProviderRequests` | composes the five above: `kind` says which one request is made | theirs |
| `RequestPromise` | what a request that changes Gmail promises of each item, without threads, tokens or retries | `status`, `effect` |
| `BrokerSocket` | `broker/runtime.rs`, call by call | `path` (whose socket file), `stage` of each run of the program, its `identity`; `near` is history |
| `TargetSelection` | the target, the accounts and how they are read | `target`, `state`, `scopes` (SQLite), `view` (each interface's list), `reader` (what a request has read) |
| `ToolProtocol` | operators: the answer to each operation in the broker and in the client, the refusals of both, who needs the modify scope | none |
| `ToolCalls` | composes the last three: a call's client and its broker thread | `call` (the encoded length, the answer, the frame), `result` (what the caller was told, what was done) |
| `LoginFlow` | the login dialogue and the callback listener | `screen`, `oauth`, `listener`, `inbox`, `browser` of each interface; Google's `consented`, `spent` |
| `ControlGateway` | the gateway | `limiter`, `session`, `logins` in flight, `connection` of each browser tab, `gateway` |
| `TerminalSessions` | composes the last two: a websocket opens with its interface and ends with it | theirs |
| `TokenCacheProofs`, `ExecutorProofs`, `CredentialProofs` | the theorems about `TokenCache`, `ProviderExecutor`, `CredentialLifecycle` | |
| `CallProofs` | the theorems about `ToolCalls`: the socket, the calls and the target | |
| `RequestProofs` | the theorems about `ProviderRequests`: an invariant for each kind of request, and their composition | |
| `SessionsProofs` | the theorems about `TerminalSessions` | |
| `MarkedProofs` | the theorems about `MarkedActions`, and that its steps are steps of `ActionMarks` | |

The modules `MC*` give the constants values. `MCMarkedActions` also restricts
`MarkedActions` for its two runs: `SafetySpec` to the states with one marker, or with
one message and no time passed; `BatchSpec` to the steps on mail.

Each function that runs under a mutex is one action; everything between two calls
to Gmail, Google, the database or the secret store is one action; a thread may be
interrupted between any two. The operators named "Mutant" in a comment are
plausible bugs, put in place of the definition that follows them to confirm that
the property named for it in `PROJECT.json` really depends on that code.

### How Gmail, Google and people are modelled

* A write put on the wire may be applied, refused (a 4xx: nothing changed), denied
  (a 401), or never answered, and may be applied after the broker gave up on it or
  was restarted. An edit by a person gives a draft a message ID never used before.
  Nobody moves a message out of Trash.
* Google's access tokens are numbered in the order they are minted. One may die
  early, or the whole grant may be withdrawn. A refresh token is named by the
  login it came from; a rotated token belongs to the same grant, and revoking
  either withdraws that grant and no other.
* In `ProviderRequests` there is one request; everybody else, the broker's other
  requests included, is an action `Others`, which changes labels, messages and the
  mailbox at any moment. Gmail may change the messages of one batch one at a time,
  but an answer that rejects a batch means that none was or will be changed, as the
  code assumes of a 4xx.
* One account is enough for `TokenCache` and `CredentialLifecycle`: no function
  relates two. `ActionMarks` is checked with two.
* A person's browser may bring any answer of Google's consent page, late or twice,
  to whichever listener is behind the redirect URI; a code is exchanged once.
* Sizes are counted in small units. A frame of `n` units is `n - 1` of result and one
  of envelope and newline, so that a value just below, at and above each limit exists.
* A handler's work in `ToolCalls` is one step. The write of one resource that is answered
  with its result was done; a bulk write is answered with a result whatever became of its
  items, so its effect is open (`Effects`); `gmail_unavailable` to a single write leaves
  the effect open too. What is said of the items is the other modules' subject.

### How an error becomes an answer

Truthful answers are the subject of several properties, so each module keeps the
words of the code apart:

| in the model | in the code | what the properties promise |
| --- | --- | --- |
| `"Failed"`, `"failed"`, `"system"`, `"rejected"` | a failed bulk item, or a single request's code for a reason: 400, 401, 404, 409, 429, a changed draft, a system label | the write did not and will not take effect |
| `"NotAttempted"`, `"not_attempted"` | a credential failure | the same |
| `"Unknown"`, `"unknown"` | an `unknown` bulk item; "could not confirm whether the draft was sent" (`handlers/drafts.rs:432-435`); "may have succeeded but could not be verified" (`handlers/errors.rs:117-120`, `159-162`) | it takes effect at most once; of a label, that a write was sent |
| `"Unavailable"`, `"unavailable"` | every other `gmail_unavailable` of a single request: "Gmail could not ..." | nothing but that it is final and the effect at most one |

The last row covers an error of a read before the write, a refusal with another status,
and an answer to the write that was lost: the code words them alike (`Unnamed`, `NoDraft`,
`Failures`). What that means for the caller is the first of the Observations.

## Runs

| run | question | instance | result |
| --- | --- | --- | --- |
| `action_marks` | is the store safe and does it implement the authority? | 2 accounts, 2 messages, 1 draft, 3 markers, limit 2, TTL 1, 2 ticks | holds |
| `marked_safety` | is the marked revision the one acted on, is the answer true (but for `"Unavailable"`), do two handlers ever work on one draft, is a write ever repeated? | a draft with 3 message IDs (two edits), 1 marker, expiry; then 2 markers while one message is named | holds, outside the documented window after the preflight |
| `marked_batch` | does every job end? | a batch of 2 messages, fairness | holds |
| `token_cache` | is one retry enough, is the refresh shared, does everyone end? | 3 operations, 4 tokens, fairness | holds |
| `credential_kept` | does an interrupted step, or a stale list, ever leave a false claim or a dead secret? | 2 interfaces, 1 refresh, 3 logins, rotation | holds, but for the overwriting refresh of the next run and two interfaces at work at one moment |
| `credential_lost_update` | is every connected account usable? | 1 interface, 2 refreshes, 3 logins | violated |
| `credential_retry` | can a cleanup always be retried? | the same | violated |
| `provider_executor` | are gate and executor safe and live? | 2 batches of 3 inputs, 2 workers each, 2 permits, fairness | holds |
| `provider_requests` | is what is reported of every item so (but for a single request's `"unavailable"`), is nothing written twice, is what is read what was there, is every request answered, do all kinds implement `RequestPromise`? | 3 messages; 2 custom labels and a system label; 2 drafts; a page of 3; a read of 3 in windows of 2, bodies of 1, 3 and 6 in a budget of 8; 1 or 2 changes by others; fairness | holds |
| `label_system_member` | does a system member always reject its set? | 2 custom labels and a system label | violated |
| `tool_calls` | does a broker keep its socket, is the account eligible, do both sides agree, is the caller told the truth, does every call end? | 3 brokers; every operation, every size around each limit; 1 account, 3 changes of the database; fairness | holds |
| `terminal_sessions` | do interfaces end with their connections, is a login saved only from its own dialogue, do listener and browser end with it, are failures bounded, is every callback handled? | 2 interfaces, 2 authorizations, 2 login requests, a window of 2 and 4 ticks, fairness | holds |

Deadlock checking is off throughout: every instance stops when its bounded supply
of markers, tokens, logins, changes or inputs is used up. The type invariants of the
composed modules are conjuncts of a property of their runs: `OutcomesTruthful` in
`provider_requests`, `OutcomeTruthful` in `tool_calls`, `RunsWhileConnected` in
`terminal_sessions`. In `marked_batch` the mailbox has no drafts and no marker expires, so
it takes only `MailStep` of `Next`. `HeldAuthorised` of `ActionMarks` and `TypeOK` of
`MarkedActions` follow from the proofs and are not checked by a run.

### Bounds

`MaxTime`, `MarkerIds`, `MaxReads`, `MaxTokens`, `MaxGrants`, `MaxChanges`,
`MaxLabelChanges`, `MaxPageChanges`, `MaxAuthorizations` and `Items` bound what
would grow for ever. Three markers are the fewest with which one mark replaces a
second while a third executes; a TTL of one tick and two ticks let a mark expire
while another is fresh; a limit of two is reached with both accounts. Three message
IDs give a draft two edits: one before and one during execution. Three operations on
the token cache are the fewest in which one is rejected with an old token while a
second has refreshed and a third waits for the lock; the fourth token is the one
nobody needs. Three messages are the fewest of which one can fail its preflight and
leave two readbacks to confuse; one change by others suffices to undo a write before
its readback, or to create or delete a label between the two attempts of a request.
Two changes of a page let a message vanish and another arrive between the listing
and its details. A read of three in windows of two has a window after one in which
the budget ran out; bodies of 1, 3 and 6 in a budget of 8 fit together, alone, or not
beside the placeholders. Two batches of two workers on two permits have waiting, woken and
overtaking threads at once, and three inputs make a worker come back for another.

`tool_calls` and `terminal_sessions` start in one of several parts, each large where
another is small (`Scenarios`, `Budgets`): three brokers that start, stop and crash;
one call while two brokers come and go; every operation and every size with one
broker; an account and target that change three times under one operation; two
logins while the clock stands still; two login requests at once over two windows.
Three brokers are needed for one to find a socket that a second left behind while a
third starts; three changes let a target be chosen, lose its eligibility and be
chosen again between the statements of one read.

### Fairness

The fair specifications of `MarkedActions`, `TokenCache`, `ProviderExecutor` and
`ProviderRequests` assume weak fairness of each thread's own next step and nothing
else: threads are scheduled, and every HTTP client involved gives up after 30 seconds
(`gmail/client.rs:259`, `auth/tokens.rs:13`), so a thread that waits for an answer is
never stuck. Nothing is assumed of Gmail, Google, people or further requests, and
spurious wakeups and the notification of a particular waiter are never assumed to
happen. In `TokenCache` weak fairness is enough for the lock because the number of
operations is finite: each takes it at most twice.

`ToolCalls` assumes the same of a call's client and of its broker thread, and of a
broker that has begun to start or to end; that a running broker accepts a queued
connection; and nothing of stopping, crashing, abandoning or the database's failure.
`TerminalSessions` assumes only that each interface keeps polling, which its loop
does at least every 250 ms (`tui/runtime.rs:36`).

### Disagreements

* `credential_lost_update`: `refresh_google_access_token` (`auth/tokens.rs:27`) stores
  a rotated refresh token whatever happened to the entry while Google answered. A
  disconnect and a new login in between are overwritten: the row says connected, the
  entry holds a token of the revoked grant, and the new one is lost.
* `credential_retry`: a disconnect stopped between deleting the secret and saving
  "disconnected" leaves an account whose offered retry always fails, because
  `revoke_google_account` begins by loading the secret. A new login repairs it.
* `label_system_member`: `delete_labels` rejects a set when the check of a member says
  "system"; when that check fails for another reason the member alone fails and the
  other labels are deleted, against "a system member aborts the set"
  (`broker/handlers/bulk_labels.rs:36`) and "any system label rejects the entire
  request" (`server/routes.rs:136`).

### Observations

Met while modelling, kept out of the properties, and stated where the exception is made:

* A request for one resource whose write got no usable answer is told that Gmail could not
  do it, in the words of an error before the write: creating, replying with and deleting a
  draft (`handlers/drafts.rs:390-393`), moving to Trash (`handlers/deletion.rs:178-181`),
  read state and labels of a message (`handlers/errors.rs:110-113`, `294-301`), and a 5xx
  when a label is created or deleted (`152-155`, `203-206`). The write may have been, or
  may still be, carried out. `docs/api/mcp.md:313` promises no more than that "a Gmail
  request failed", and `docs/development/testing.md:82-83` has testers read back "writes that report
  failure", so no property says otherwise: `AnswersTruthful`, `OutcomesTruthful` and
  `KeepsPromise` are about bulk items, sending and the answers that name a reason. A caller
  that takes the answer at its word and asks again makes a second draft. Only sending and
  the labels' transport errors warn of this.
* The result of a bulk write (`LabelsCreated`, `LabelsDeleted`, `DraftsCreated`, ...) is
  returned also when every item failed, is unknown or was not attempted
  (`bulk_labels.rs:29`, `104`; `run_items`). `OutcomeTruthful` therefore takes "ok" for an
  effect only of the write of one resource.
* Control-C on the authorization screen, then "n" at the quit question, returns to the
  account list without stopping the browser Arqen owns (`tui/runtime.rs:49-72`):
  `leftOpen`, the exception in `EndsWithLogin`. `docs/ui-style.md:76-77` says the
  temporary profile is removed when the flow ends; it is removed when the
  next browser is opened or the interface ends.
* Two brokers that start together over one stale socket may both find it dead; one then
  removes the socket the other has just bound. `AloneKeepsSocket` is about a broker
  beside which none other starts.
* Two interfaces that log in or disconnect at the same moment can leave a connected
  account with a revoked secret: `together`, the exception in the properties of
  `credential_kept`.
* A label that vanishes after `delete_labels` has checked it is reported as
  `message_not_found`, where `docs/api/mcp.md:321-322` says `label_not_found`.
* Each window of `read_emails` has a credential flag of its own, so a later window tries
  again; and an outcome longer than the placeholder it replaces can itself exceed the
  budget, and is then given as `response_budget_exceeded` for a message that was not read.
* In a listing, a 401 behind an earlier entry's other error is not repeated with a new
  token: the first error in order decides.
* Failed logins are counted after the request's body arrives, so a window can see as many
  beyond the limit as were in flight when it was reached; `FailuresBounded` says so.

## Proofs

`ActionMarksProofs` proves, for any sets of accounts, messages, drafts and markers,
any TTL of at least one tick and any limit, assuming only `ActionMarksAssumption`
(the four facts about the constants, evaluated by TLC as well): type correctness;
every safety property of `action_marks`, and `HeldAuthorised`; the action property `OneUseInTime`; and that
the store implements `OneShotAuthority`.

None of the properties is inductive alone. The inductive invariant is their
conjunction with the facts that tie the map to the history: every marker in the map
or in a handler's hands was issued for exactly that key, draft, kind and expiry;
markers in the map are distinct; a marker that executes is spent and one that is
pending is not; serial numbers grow. `DraftSlotExclusive` needs them because a
replaced draft mark is found through its draft ID and not through its key;
`HeldIsExecuting` because the key a handler finishes is its own only while no newer
marker has taken it, which is what the running mark prevents; `LatestMarkWins` because
a registration removes every mark it overlaps. One lemma per action shows that the
invariant is kept; the theorems are corollaries. The refinement is shown step by step:
a registration is a grant that withdraws clashing grants, a consumption starts
execution, a finish ends it, a purge withdraws expired grants, the clock stutters.

The other proof modules have the same form: an inductive invariant `IInv` made of named
parts, a lemma for each group of actions, `InitInv`, `StepInv`, and the properties as
corollaries.

* **`TokenCacheProofs`**, for any number of operations and tokens. `RefreshOnlyWhenNeeded`
  rests on `LockHeld` (only the holder of the refresh lock is at Google's endpoint) and
  `CacheIsNewest` (a token on its way to the cache is the last one minted; none on its
  way, the cached one is). `OneRetrySuffices` needs `LaterTokensGood` besides: whatever was
  minted since a steady operation took its first token is still good, so the token of
  its second attempt, which is a later one, is.
* **`ExecutorProofs`**, for finitely many batches, any number of inputs and workers and
  any limit. The gate's part counts workers on the wire, by cardinalities;
  the batches' part says that a busy worker has an input of its own whose slot is empty,
  and that an empty slot is not taken yet or has a worker at it, which is what makes a
  joined batch complete.
* **`CredentialProofs`**, for finitely many interfaces and any number of refreshes and
  logins. The three properties hold while no two interfaces have been at work at once,
  as in the runs; the invariant says what the one at work has done so far: from
  `MarkIndeterminate` on, the row is not connected until the disconnect is over.
* **`CallProofs`**, for any number of callers, brokers, accounts and interfaces. The
  socket first: a broker that nobody was near when it began starts alone and owns the
  path until it ends; the others only find it. A broker that was not alone gets no such
  promise (see Observations). Then the calls: `Fine`
  relates one call's record to what was done for it: nothing before its thread works, an
  answer that tells what ran (and, of the write of one resource, that it was done), a frame that carries that answer or less, and a caller told
  something definite only when the thread can do no more. That the tables of both sides
  of the protocol agree is proved entry by entry. `ReadingSeen` is why three statements
  outside a transaction are enough: the accounts that are connected while a request reads
  have all been seen with their present scopes, and only a login changes scopes.
* **`SessionsProofs`**, for any number of interfaces, browser tabs, authorizations and
  login requests. `Ownership` (an authorization held is one's own, not given up and not
  completed) gives `SavedFromOwnLogin`; `FailuresBounded` counts what is in flight against
  the window's failures.

* **`MarkedProofs`**, for any number of accounts, drafts, messages and markers, and any
  sequence of edits, late writes, retries and restarts. The store's part of the invariant
  is `IInv` of `ActionMarksProofs`, used through an instance: one lemma per action of the
  store shows that the operator the handlers call makes a step of the store's own
  specification (`StoreUsedByItsRules`), so that its results hold for the handlers
  (`ExecutedOnce`, `AuthorityKept`). The handlers' part ties every job to the mark it
  holds and every write to the marker it was sent for. `OneEffectPerMarker` is not
  inductive alone: that a second attempt begins needs to know that the first write was
  denied, which is what `JobFine` says of each phase and attempt; that a marker without a
  job gets no new write needs `answers`, `spent` and `held` together. `AnswersTrue` needs
  that a job told `"Failed"` has no write that may still be applied (`Truth`), and says
  nothing of `"Unavailable"`. `NoOverlappingWrites`
  follows from the store's conflict rules, because a job that waits for Gmail holds its
  mark.
* **`RequestProofs`**, for any number of messages, drafts, labels and changes by others,
  every window, every size of a body and every budget that has room for the placeholders
  (two units each; a request names at most 20 messages). `Inv` gives each kind of request
  an invariant of its own, proved step by step; `WrittenOnce`, `OutcomesTruthful` and
  `ReadsTruthful` follow from it.
  * Messages (`MessagesSent`, `MessagesRead`): what phase and attempt say of the one write,
    which is accepted only from a phase that cannot send again. The results of the second
    reading come back as a list without the messages that were not written, so that the
    proof needs that `Rank`, the place of a message in that list, is one-to-one: each
    outcome then is what was read of that message and not of its neighbour.
  * Labels (`LabelFits`): `effects` is one exactly where the last write was applied, a
    thread that may write again has a write that was rejected or none, and an outcome other
    than success, `unknown` or `unavailable` is such a thread's. A deletion may be reported because of a
    404 read later, hence `missing` is related to `exists` and not to `effects`. That a
    rejected set is untouched needs that nothing is on the wire during the preflight.
  * Drafts (`DraftFits`): the same relation of a thread and its POST.
  * Pages (`PagesInv`): what the mailbox holds is a moment of the request until the answer,
    so what a list named remains one, whatever changes after it.
  * Reads (`Threads`, `Filled`, `Refusals`): no thread of a later window has started; a
    place before `next` tells what its own thread did, a place after it is still a
    placeholder; a refusal is in the last window. That the budget is never exceeded is
    inductive because what replaces a body that does not fit is no longer than the
    placeholder that fitted: the units of the answer are counted as a set, so that this is
    monotonicity of cardinality.

  `PromiseKept` shows that labels on messages, the label catalogue and drafts, alone or in
  bulk, implement one abstract specification, `RequestPromise`. The mapping takes an item's
  outcome, or the answer to the whole request where the item has none, for its `status`,
  and what Gmail did for this request for its `effect`. A step of a thread is `Tell`: it
  settles an item that was open, or nothing; `Inv` supplies that the item was open, and
  `Inv'` that what is said is so. A write carried out, even late, is `Change`: it needs that
  such a write is never on its way for an item said to have failed, and never a second
  time. So a status is final, which no invariant says. `unavailable`, the answer whose
  write may still be on its way, is not among the statuses that exclude an effect
  (`Untouched`).

The assumptions are the `ASSUME`s of the modules proved about, all evaluated by TLC too:
the sets that are counted are finite, the distinguished values are outside the sets they
extend, the limits are numbers, a scenario of `ToolCalls` names only operations, and the
placeholders of a read fit its budget.

Every safety property of the passing runs is a theorem. Model-checked only: the liveness
properties (`EveryJobEnds`, `EveryOperationEnds`, `EveryBatchEnds`, `EveryRequestEnds`,
`EveryCallEnds`, `CallbackHandled`), since fairness and `ENABLED` are out of the prover's
reach, and the three violations, which are counterexamples.

## Plan

Every component with state of its own has a module, and every safety property a proof.
What is left, in this order:

1. The safe half of the liveness properties: a bound on the steps a request, a job or an
   operation may still take, which every step of its own decreases.
2. A token's life in `TokenCache` and an account's in `CredentialLifecycle` against
   abstract specifications, as the store's and the requests' are.

## Not modelled

* Wording, formatting, message texts and MIME encoding, HTTP and JSON details, the
  static pages, configuration, and the drawing code in `ui/`.
* The validation of the contents of fields (`gmail/models.rs`, `gmail/bulk/contracts.rs`):
  an input is valid or not; which code an invalid one gets is compared on both sides.
* `proxy_http` of the gateway and the bearer check of the MCP server: they pass or
  refuse one request and keep no state.
* The stubs of the broker's client for systems without Unix sockets.
* The disconnect dialogue's screen: its confirmation is the guard of
  `MarkIndeterminate` in `CredentialLifecycle`. `LoginFlow` has the other screens.
* OpenBao is one entry with put, get and delete, like the keyring.
* Poisoned mutexes: no code that runs under one of the broker's locks panics.
* Two interfaces at work on one account at the same moment are modelled, and excluded
  from what the properties of `credential_kept` say (see Observations).
