------------------------------ MODULE TokenCache -------------------------------
(****************************************************************************)
(* The broker's access-token cache and its refresh lock for one account:    *)
(* handlers/tokens.rs.  Every provider operation of the broker runs through *)
(* draft_operation_with_refresh or one of its nine hand-written copies: take *)
(* a token, call Gmail, and on a 401 take another token and call once more. *)
(* BrokerState.access_tokens and refresh_locks are keyed by Google subject  *)
(* and no function relates two subjects, so one account is modelled.        *)
(****************************************************************************)
EXTENDS Integers

CONSTANTS
    Ops,        \* provider operations, one per thread
    NoOp,       \* the refresh lock is free
    MaxTokens   \* bound on the access tokens Google mints

ASSUME TokenCacheAssumption == NoOp \notin Ops /\ MaxTokens \in Nat

VARIABLES
    cache,     \* access_tokens[subject]: its token, or 0 when there is none
    fresh,     \* is the cached token's expires_at still ahead?
    lock,      \* refresh_locks[subject]: the operation that holds it
    phase,     \* where each operation is
    attempt,   \* 1 or 2
    token,     \* the token the operation holds
    rejected,  \* the token Gmail answered 401 to on the first attempt, or 0
    minted,    \* Google: access tokens minted so far, numbered from 1
    valid,     \* Google: the tokens Gmail accepts
    granted,   \* Google and secret store: is the stored refresh token good?
    steady     \* history: operations during which no credential was withdrawn

cacheVars == <<cache, fresh>>
google == <<minted, valid, granted>>
vars == <<cacheVars, lock, phase, attempt, token, rejected, google, steady>>

Tokens == 1..MaxTokens
Active == {"lookup", "lock", "post", "insert", "call"}
Ended == {"done", "unauthorized", "credential"}

Init ==
    /\ cache = 0
    /\ fresh = FALSE
    /\ lock = NoOp
    /\ phase = [o \in Ops |-> "idle"]
    /\ attempt = [o \in Ops |-> 1]
    /\ token = [o \in Ops |-> 0]
    /\ rejected = [o \in Ops |-> 0]
    /\ minted = 0
    /\ valid = {}
    /\ granted = TRUE
    /\ steady = {}

Goes(o, p) == phase' = [phase EXCEPT ![o] = p]

\* .get(&account.subject).filter(|token| token.expires_at > Instant::now())
Usable == cache # 0 /\ fresh

Begin(o) ==
    /\ phase[o] = "idle"
    /\ Goes(o, "lookup")
    /\ steady' = IF granted THEN steady \cup {o} ELSE steady
    /\ UNCHANGED <<cacheVars, lock, attempt, token, rejected, google>>

\* cached_or_refresh_token, before it asks for the refresh lock.
Lookup(o) ==
    /\ phase[o] = "lookup"
    /\ IF Usable
       THEN token' = [token EXCEPT ![o] = cache] /\ Goes(o, "call")
       ELSE UNCHANGED token /\ Goes(o, "lock")
    /\ UNCHANGED <<cacheVars, lock, attempt, rejected, google, steady>>

\* Mutant: the rejected token stays cached.
CacheKeepsRejected(o) == cache

\* refresh_token_using: forget the rejected token, unless another operation has
\* replaced it already.
CacheAfterRejection(o) == IF cache = rejected[o] THEN 0 ELSE cache

\* Mutant: no second look once the lock is held.
NeverFound(o) == FALSE

\* Is there a token to share after all, now that the lock is held?
FoundMeanwhile(o) == CacheAfterRejection(o) # 0 /\ fresh

\* Mutant: a lock made afresh on every call excludes nobody.
AlwaysFree == TRUE
\* The subject's entry of refresh_locks is not held.
LockFree == lock = NoOp

\* Take the lock; look again; refresh only if there is still nothing usable.
Acquire(o) ==
    /\ phase[o] = "lock"
    /\ LockFree
    /\ cache' = CacheAfterRejection(o)
    /\ IF FoundMeanwhile(o)
       THEN /\ token' = [token EXCEPT ![o] = cache']
            /\ Goes(o, "call")
            /\ UNCHANGED lock
       ELSE /\ lock' = o
            /\ Goes(o, "post")
            /\ UNCHANGED token
    /\ UNCHANGED <<fresh, attempt, rejected, google, steady>>

\* The token endpoint mints a token while the grant stands.
Mint(o) ==
    /\ phase[o] = "post"
    /\ granted
    /\ minted < MaxTokens
    /\ minted' = minted + 1
    /\ valid' = valid \cup {minted'}
    /\ token' = [token EXCEPT ![o] = minted']
    /\ Goes(o, "insert")
    /\ UNCHANGED <<cacheVars, lock, attempt, rejected, granted, steady>>

\* Mutant: a failed refresh keeps the lock.
RefreshFailsLocked(o) ==
    /\ phase[o] = "post"
    /\ Goes(o, "credential")
    /\ UNCHANGED <<cacheVars, lock, attempt, token, rejected, google, steady>>

\* refresh()? returns early: unreachable endpoint, invalid_grant, no secret.
RefreshFails(o) ==
    /\ phase[o] = "post"
    /\ lock' = NoOp
    /\ Goes(o, "credential")
    /\ UNCHANGED <<cacheVars, attempt, token, rejected, google, steady>>

\* Cache the token; its lifetime is at least 30 seconds from now.
Insert(o) ==
    /\ phase[o] = "insert"
    /\ cache' = token[o]
    /\ fresh' = TRUE
    /\ lock' = NoOp
    /\ Goes(o, "call")
    /\ UNCHANGED <<attempt, token, rejected, google, steady>>

\* Gmail accepts the token, whatever else it answers.
Accepted(o) ==
    /\ phase[o] = "call"
    /\ token[o] \in valid
    /\ Goes(o, "done")
    /\ UNCHANGED <<cacheVars, lock, attempt, token, rejected, google, steady>>

\* Mutant: every 401 is retried.
UnauthorizedAgain(o) ==
    /\ phase[o] = "call"
    /\ token[o] \notin valid
    /\ attempt' = [attempt EXCEPT ![o] = @ + 1]
    /\ rejected' = [rejected EXCEPT ![o] = token[o]]
    /\ Goes(o, "lock")
    /\ UNCHANGED <<cacheVars, lock, token, google, steady>>

\* A 401: refresh_rejected_token after the first, the error itself after the second.
Unauthorized(o) ==
    /\ phase[o] = "call"
    /\ token[o] \notin valid
    /\ IF attempt[o] = 1
       THEN /\ attempt' = [attempt EXCEPT ![o] = 2]
            /\ rejected' = [rejected EXCEPT ![o] = token[o]]
            /\ Goes(o, "lock")
       ELSE Goes(o, "unauthorized") /\ UNCHANGED <<attempt, rejected>>
    /\ UNCHANGED <<cacheVars, lock, token, google, steady>>

\* The cached expiry passes.
CacheExpires ==
    /\ fresh
    /\ fresh' = FALSE
    /\ UNCHANGED <<cache, lock, phase, attempt, token, rejected, google, steady>>

\* One access token dies before its cached expiry, or the whole grant is withdrawn;
\* no operation then under way is steady.
Withdraw ==
    /\ \/ \E t \in valid : valid' = valid \ {t} /\ UNCHANGED granted
       \/ granted /\ granted' = FALSE /\ valid' = {}
    /\ steady' = {}
    /\ UNCHANGED <<cacheVars, lock, phase, attempt, token, rejected, minted>>

\* The account is connected again; tokens of the old grant stay dead.
Reconnect ==
    /\ ~granted
    /\ granted' = TRUE
    /\ UNCHANGED <<cacheVars, lock, phase, attempt, token, rejected, minted, valid, steady>>

Step(o) ==
    \/ Begin(o)
    \/ Lookup(o)
    \/ Acquire(o)
    \/ Mint(o)
    \/ RefreshFails(o)
    \/ Insert(o)
    \/ Accepted(o)
    \/ Unauthorized(o)

Next ==
    \/ \E o \in Ops : Step(o)
    \/ CacheExpires
    \/ Withdraw
    \/ Reconnect

\* A thread keeps running; the token client and the Gmail client give up after 30
\* seconds, so Mint or RefreshFails, Accepted or Unauthorized, does happen.
Fairness == \A o \in Ops : WF_vars(Step(o))

Spec == Init /\ [][Next]_vars
FairSpec == Spec /\ Fairness

------------------------------------------------------------------------------
TypeOK ==
    /\ cache \in 0..MaxTokens
    /\ fresh \in BOOLEAN
    /\ lock \in Ops \cup {NoOp}
    /\ phase \in [Ops -> {"idle"} \cup Active \cup Ended]
    /\ attempt \in [Ops -> {1, 2}]
    /\ token \in [Ops -> 0..MaxTokens]
    /\ rejected \in [Ops -> 0..MaxTokens]
    /\ minted \in 0..MaxTokens
    /\ valid \subseteq 1..minted
    /\ granted \in BOOLEAN
    /\ steady \subseteq Ops

\* An operation is told to reauthenticate only if a credential was withdrawn while
\* it ran: dead tokens left in the cache by an earlier grant, or inserted late by
\* another operation, cost at most the one retry.
SteadyNeverUnauthorized ==
    \A o \in steady : phase[o] # "unauthorized"

\* Concurrent operations share one refresh: nobody asks Google for a token while
\* the cache offers one.
RefreshOnlyWhenNeeded ==
    \A o \in Ops : phase[o] \in {"post", "insert"} => ~Usable

\* The cache never goes back: it holds the newest token any operation works with; and a
\* second attempt never presents the token the first was refused with.
CacheHoldsNewest ==
    /\ TypeOK
    /\ \A o \in Ops : phase[o] = "call" =>
          /\ cache # 0 => token[o] <= cache
          /\ attempt[o] = 2 => token[o] # rejected[o]

\* Nobody waits forever for the lock or for another operation's refresh.
EveryOperationEnds ==
    \A o \in Ops : (phase[o] = "lookup") ~> (phase[o] \in Ended)
================================================================================
