-------------------------- MODULE CredentialLifecycle --------------------------
(****************************************************************************)
(* One account's credential through its life: terminal interfaces that log  *)
(* in and disconnect (tui/app/auth.rs, tui/app/account.rs), brokers that    *)
(* refresh (auth/tokens.rs), the SQLite row, the entry of the secret store, *)
(* and Google.  None of the processes share a lock, and each of their steps *)
(* is one call to the database, to the secret store or to Google; a process *)
(* may stop between any two.  A refresh token is named by the login it came *)
(* from: a rotated token belongs to the same grant.                         *)
(****************************************************************************)
EXTENDS Integers, FiniteSets

CONSTANTS
    Tuis,        \* terminal interface processes (the gateway's ttyd starts one
                 \* per browser connection)
    Refreshes,   \* token refreshes the broker performs
    MaxGrants    \* bound on the logins completed at Google

ASSUME CredentialAssumption ==
    MaxGrants \in Nat /\ IsFiniteSet(Tuis) /\ Tuis \cap Refreshes = {}

VARIABLES
    state,       \* google_accounts.connection_state, or "absent"
    secret,      \* the stored refresh token, or 0
    live,        \* Google: grants that stand
    logins,      \* Google: logins completed so far; the next grant's number
    at,          \* where each terminal interface is
    view,        \* the state in its App.accounts, as of its last reload
    mem,         \* the refresh token it, or a refresh, holds in memory
    ref,         \* where each refresh is
    connected,   \* history: grant of the login that last saved "connected"
    withdrawn,   \* history: grants Arqen revoked
    stuck,       \* history: a cleanup retry found nothing to revoke
    overwritten, \* history: a refresh stored its token over one it had not read
    together     \* history: two interfaces were logging in or disconnecting at once

tuiVars == <<at, view>>
vars == <<state, secret, live, logins, tuiVars, mem, ref, connected, withdrawn, stuck, overwritten,
          together>>

States == {"absent", "connected", "indeterminate", "disconnected"}
Grants == 1..MaxGrants

Init ==
    /\ state = "absent"
    /\ secret = 0
    /\ live = {}
    /\ logins = 0
    /\ at = [p \in Tuis |-> "accounts"]
    /\ view = [p \in Tuis |-> "absent"]
    /\ mem = [p \in Tuis \cup Refreshes |-> 0]
    /\ ref = [b \in Refreshes |-> "idle"]
    /\ connected = 0
    /\ withdrawn = {}
    /\ stuck = FALSE
    /\ overwritten = FALSE
    /\ together = FALSE

Goes(p, place) == at' = [at EXCEPT ![p] = place]
Holds(p, grant) == mem' = [mem EXCEPT ![p] = grant]

\* reload_accounts, on the way back to the account list.  A reload that fails keeps the
\* old list, and finish_login's error path does not reload.
Returns(p, now) ==
    /\ Goes(p, "accounts")
    /\ view' = [view EXCEPT ![p] = now] \/ UNCHANGED view

------------------------------------------------------------------------------
(* finish_login: exchange the code, store the secret, save the account.     *)

Exchange(p) ==
    /\ at[p] = "accounts"
    /\ logins < MaxGrants
    /\ logins' = logins + 1
    /\ live' = live \cup {logins'}
    /\ Holds(p, logins')
    /\ Goes(p, "exchanged")
    /\ UNCHANGED <<state, secret, view, ref, connected, withdrawn, stuck, overwritten>>

StoreSecret(p) ==
    /\ at[p] = "exchanged"
    /\ secret' = mem[p]
    /\ Goes(p, "stored")
    /\ UNCHANGED <<state, live, logins, view, mem, ref, connected, withdrawn, stuck, overwritten>>

\* Mutant: the account is saved without waiting for the secret.
SaveAccountUnstored(p) ==
    /\ at[p] \in {"exchanged", "stored"}
    /\ state' = "connected"
    /\ connected' = mem[p]
    /\ Returns(p, "connected")
    /\ UNCHANGED <<secret, live, logins, mem, ref, withdrawn, stuck, overwritten>>

SaveAccount(p) ==
    /\ at[p] = "stored"
    /\ state' = "connected"
    /\ connected' = mem[p]
    /\ Returns(p, "connected")
    /\ UNCHANGED <<secret, live, logins, mem, ref, withdrawn, stuck, overwritten>>

------------------------------------------------------------------------------
(* disconnect_account, confirmed on the state the interface last loaded.    *)

\* Mutant: the state is saved only after the revocation.
MarkLater(p) ==
    /\ at[p] = "accounts"
    /\ view[p] \in {"connected", "indeterminate"}
    /\ Goes(p, "marked")
    /\ UNCHANGED <<state, secret, live, logins, view, mem, ref, connected, withdrawn, stuck, overwritten>>

\* "Persist the safe state before touching provider or credential-store state."
MarkIndeterminate(p) ==
    /\ at[p] = "accounts"
    /\ view[p] \in {"connected", "indeterminate"}
    /\ state' = "indeterminate"
    /\ Goes(p, "marked")
    /\ UNCHANGED <<secret, live, logins, view, mem, ref, connected, withdrawn, stuck, overwritten>>

\* Mutant: an absent secret is carried on as if it were one.
LoadToRevokeUnchecked(p) ==
    /\ at[p] = "marked"
    /\ Holds(p, secret)
    /\ Goes(p, "loaded")
    /\ UNCHANGED <<state, secret, live, logins, view, ref, connected, withdrawn, stuck, overwritten>>

\* revoke_google_account starts by loading the secret and gives up without one.
LoadToRevoke(p) ==
    /\ at[p] = "marked"
    /\ IF secret # 0
       THEN Holds(p, secret) /\ Goes(p, "loaded") /\ UNCHANGED <<view, stuck>>
       ELSE Returns(p, state) /\ stuck' = (stuck \/ view[p] = "indeterminate") /\ UNCHANGED mem
    /\ UNCHANGED <<state, secret, live, logins, ref, connected, withdrawn, overwritten>>

\* Google withdraws the token's grant; a token it does not know counts as revoked
\* (HTTP 400 invalid_token).
Revoke(p) ==
    /\ at[p] = "loaded"
    /\ live' = live \ {mem[p]}
    /\ withdrawn' = withdrawn \cup {mem[p]}
    /\ Goes(p, "revoked")
    /\ UNCHANGED <<state, secret, logins, view, mem, ref, connected, stuck, overwritten>>

\* Mutant: a failed deletion is ignored.
DeleteSecretUnchecked(p) ==
    /\ at[p] = "revoked"
    /\ secret' \in {0, secret}
    /\ Goes(p, "deleted")
    /\ UNCHANGED <<state, live, logins, view, mem, ref, connected, withdrawn, stuck, overwritten>>

DeleteSecret(p) ==
    /\ at[p] = "revoked"
    /\ secret' = 0
    /\ Goes(p, "deleted")
    /\ UNCHANGED <<state, live, logins, view, mem, ref, connected, withdrawn, stuck, overwritten>>

SaveDisconnected(p) ==
    /\ at[p] = "deleted"
    /\ state' = "disconnected"
    /\ Returns(p, "disconnected")
    /\ UNCHANGED <<secret, live, logins, mem, ref, connected, withdrawn, stuck, overwritten>>

\* Any call fails, or the process stops and is started again: the rest of the
\* sequence is not run; the interface reads the database afresh, or keeps its list.  A revocation
\* whose answer is lost has been carried out before.
Interrupted(p) ==
    /\ at[p] # "accounts"
    /\ Returns(p, state)
    /\ UNCHANGED <<state, secret, live, logins, mem, ref, connected, withdrawn, stuck, overwritten>>

------------------------------------------------------------------------------
(* The broker: an eligible target, then refresh_google_access_token.        *)

Eligible(b) ==
    /\ ref[b] = "idle"
    /\ state = "connected"
    /\ ref' = [ref EXCEPT ![b] = "eligible"]
    /\ UNCHANGED <<state, secret, live, logins, tuiVars, mem, connected, withdrawn, stuck, overwritten>>

LoadToRefresh(b) ==
    /\ ref[b] = "eligible"
    /\ IF secret # 0 THEN Holds(b, secret) /\ ref' = [ref EXCEPT ![b] = "loaded"]
                     ELSE UNCHANGED mem /\ ref' = [ref EXCEPT ![b] = "idle"]
    /\ UNCHANGED <<state, secret, live, logins, tuiVars, connected, withdrawn, stuck, overwritten>>

\* Google answers with an access token, and perhaps a new refresh token to keep.
Post(b) ==
    /\ ref[b] = "loaded"
    /\ \/ mem[b] \in live /\ ref' = [ref EXCEPT ![b] = "rotated"]
       \/ ref' = [ref EXCEPT ![b] = "idle"]
    /\ UNCHANGED <<state, secret, live, logins, tuiVars, mem, connected, withdrawn, stuck, overwritten>>

\* store_refresh_token replaces whatever the entry holds by now.
StoreRotated(b) ==
    /\ ref[b] = "rotated"
    /\ secret' = mem[b]
    /\ overwritten' = (overwritten \/ secret # mem[b])
    /\ ref' = [ref EXCEPT ![b] = "idle"]
    /\ UNCHANGED <<state, live, logins, tuiVars, mem, connected, withdrawn, stuck>>

\* An error or a stopped broker ends the refresh.
RefreshInterrupted(b) ==
    /\ ref[b] # "idle"
    /\ ref' = [ref EXCEPT ![b] = "idle"]
    /\ UNCHANGED <<state, secret, live, logins, tuiVars, mem, connected, withdrawn, stuck, overwritten>>

TuiStep(p) ==
    \/ Exchange(p)
    \/ StoreSecret(p)
    \/ SaveAccount(p)
    \/ MarkIndeterminate(p)
    \/ LoadToRevoke(p)
    \/ Revoke(p)
    \/ DeleteSecret(p)
    \/ SaveDisconnected(p)
    \/ Interrupted(p)

RefreshStep(b) ==
    \/ Eligible(b)
    \/ LoadToRefresh(b)
    \/ Post(b)
    \/ StoreRotated(b)
    \/ RefreshInterrupted(b)

Busy == {p \in Tuis : at[p] # "accounts"}

Next ==
    /\ (\E p \in Tuis : TuiStep(p)) \/ (\E b \in Refreshes : RefreshStep(b))
    /\ together' = (together \/ Cardinality(Busy') > 1)

Spec == Init /\ [][Next]_vars

------------------------------------------------------------------------------
TypeOK ==
    /\ state \in States
    /\ secret \in 0..MaxGrants
    /\ live \subseteq Grants
    /\ logins \in 0..MaxGrants
    /\ at \in [Tuis -> {"accounts", "exchanged", "stored", "marked", "loaded",
                        "revoked", "deleted"}]
    /\ view \in [Tuis -> States]
    /\ mem \in [Tuis \cup Refreshes -> 0..MaxGrants]
    /\ ref \in [Refreshes -> {"idle", "eligible", "loaded", "rotated"}]
    /\ connected \in 0..MaxGrants
    /\ withdrawn \subseteq Grants
    /\ stuck \in BOOLEAN
    /\ overwritten \in BOOLEAN
    /\ together \in BOOLEAN

\* "If the process stops after this point, the next run will not claim that the
\* credential is usable" (tui/app/account.rs:33): wherever a disconnect stops, the
\* account is not "connected" over the grant it revoked, though another interface acts
\* on a list it loaded before.  (Two that are at it at the same moment may.)
NoClaimAfterRevocation ==
    /\ TypeOK
    /\ state = "connected" /\ ~together => connected \notin withdrawn

\* A connected account has a stored refresh token, and not one Arqen has revoked.
ConnectedIsUsable ==
    state = "connected" => secret # 0 /\ secret \notin withdrawn

\* The one way to lose it is a refresh that stores its rotated token over an entry
\* that was deleted or replaced while Google answered: no interruption of a login, a
\* disconnect or a refresh leaves a connected account without a usable token.
OnlyOverwritingBreaks == ~overwritten /\ ~together => ConnectedIsUsable

\* After a completed disconnect the revoked token does not linger in the store, unless
\* such a refresh put it there; a newer login that was interrupted may have left its own.
DisconnectedIsClean ==
    state = "disconnected" /\ ~overwritten /\ ~together => secret \notin withdrawn

\* "`d` ... retries cleanup for an indeterminate account" (docs/ui-style.md:67): a
\* retry never finds its cleanup impossible.
CleanupCanBeRetried == ~stuck
================================================================================
