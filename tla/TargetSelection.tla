---------------------------- MODULE TargetSelection ----------------------------
(****************************************************************************)
(* The MCP target: store/target.rs, store/queries.rs, store/accounts.rs, the *)
(* interface's toggle_mcp_target, and the broker's selected_target_account, *)
(* which reads the target and the accounts in three separate statements     *)
(* while interfaces change both.                                            *)
(****************************************************************************)
EXTENDS FiniteSets

CONSTANTS Accounts, Tuis, Requests,
    NoTarget    \* target_google_subject IS NULL

VARIABLES
    target,     \* mcp_configuration.target_google_subject
    state,      \* google_accounts.connection_state, or "absent"
    scopes,     \* google_account_scopes, the two Gmail ones
    view,       \* each interface: mcp_target_subject, and the accounts it shows eligible
    reader,     \* each request: how far it has read, and what
    seen        \* history: the connected accounts, with their scopes, that were in
                \* the database at some moment of the request's reads

Grants == {{}, {"readonly"}, {"readonly", "modify"}}
NoReading == [stage |-> "none", subject |-> NoTarget, state |-> "absent", scopes |-> {}]

\* set_mcp_target_subject's query: connected, with the recorded read-only grant.  A
\* row always has a token key: only a login creates one.
Eligible(st, sc) == st = "connected" /\ "readonly" \in sc
Connected == {<<s, scopes[s]>> : s \in {a \in Accounts : state[a] = "connected"}}

\* The database the processes find, and what the interfaces have loaded of it.
Init ==
    /\ state \in [Accounts -> {"absent", "connected"}]
    /\ scopes \in [Accounts -> Grants]
    /\ \A s \in Accounts : state[s] = "absent" => scopes[s] = {}
    /\ target \in {NoTarget} \cup {s \in Accounts : Eligible(state[s], scopes[s])}
    /\ view = [t \in Tuis |->
          [target |-> target, eligible |-> {s \in Accounts : Eligible(state[s], scopes[s])}]]
    /\ reader = [r \in Requests |-> NoReading]
    /\ seen = [r \in Requests |-> {}]

\* What a committed change adds to the history of the requests that are reading.
Witness ==
    seen' = [r \in Requests |->
        IF reader[r].stage \in {"rows", "scopes"} THEN seen[r] \cup Connected' ELSE seen[r]]

------------------------------------------------------------------------------
(* The interface.                                                           *)

\* list_accounts and mcp_configuration, on start and after a login or disconnect.
Reload(t) ==
    /\ view' = [view EXCEPT ![t] =
          [target |-> target, eligible |-> {s \in Accounts : Eligible(state[s], scopes[s])}]]
    /\ UNCHANGED <<target, state, scopes, reader, seen>>

\* The check in set_mcp_target_subject's transaction.
StoreAccepts(s) == Eligible(state[s], scopes[s])

\* toggle_mcp_target: it acts on what the interface shows; the store has the last
\* word on a new target, and none when the target is cleared.
Toggle(t, s) ==
    /\ IF view[t].target = s
       THEN target' = NoTarget
       ELSE s \in view[t].eligible /\ StoreAccepts(s) /\ target' = s
    /\ view' = [view EXCEPT ![t].target = target']
    /\ UNCHANGED <<state, scopes, reader, seen>>

\* upsert_google_account: the row and its scopes in one transaction.
Login(s, granted) ==
    /\ state' = [state EXCEPT ![s] = "connected"]
    /\ scopes' = [scopes EXCEPT ![s] = granted]
    /\ Witness
    /\ UNCHANGED <<target, view, reader>>

\* set_connection_state: the scopes stay, and so does the target.
SetState(s, st) ==
    /\ state[s] # "absent"
    /\ state[s] # st
    /\ state' = [state EXCEPT ![s] = st]
    /\ UNCHANGED <<target, scopes, view, reader>>
    /\ Witness

------------------------------------------------------------------------------
(* The broker: selected_target_account and target_ineligibility.            *)

\* mcp_configuration.
ReadTarget(r) ==
    /\ reader[r].stage = "none"
    /\ reader' = [reader EXCEPT ![r] =
          [NoReading EXCEPT !.stage = IF target = NoTarget THEN "none set" ELSE "rows",
                            !.subject = target]]
    /\ seen' = [seen EXCEPT ![r] = Connected]
    /\ UNCHANGED <<target, state, scopes, view>>

\* list_accounts: the rows, then account by account the scopes.
ReadRows(r) ==
    /\ reader[r].stage = "rows"
    /\ reader' = [reader EXCEPT ![r].stage = "scopes", ![r].state = state[reader[r].subject]]
    /\ UNCHANGED <<target, state, scopes, view, seen>>

ReadScopes(r) ==
    /\ reader[r].stage = "scopes"
    /\ reader' = [reader EXCEPT ![r].stage = "read", ![r].scopes = scopes[reader[r].subject]]
    /\ UNCHANGED <<target, state, scopes, view, seen>>

\* Mutant: the order of list_accounts reversed, the scopes read before the rows.
ReadStepReversed(r) ==
    \/ ReadTarget(r)
    \/ /\ reader[r].stage = "rows"
       /\ reader' = [reader EXCEPT ![r].stage = "scopes", ![r].scopes = scopes[reader[r].subject]]
       /\ UNCHANGED <<target, state, scopes, view, seen>>
    \/ /\ reader[r].stage = "scopes"
       /\ reader' = [reader EXCEPT ![r].stage = "read", ![r].state = state[reader[r].subject]]
       /\ UNCHANGED <<target, state, scopes, view, seen>>

ReadStep(r) == ReadTarget(r) \/ ReadRows(r) \/ ReadScopes(r)

\* What the handler decides from its reading, before it calls Gmail.
Verdict(r, modify) ==
    IF reader[r].stage = "none set" THEN "target_not_configured"
    ELSE IF reader[r].state = "absent" \/ ~Eligible(reader[r].state, reader[r].scopes)
    THEN "target_unavailable"
    ELSE IF modify /\ "modify" \notin reader[r].scopes THEN "insufficient_scope"
    ELSE "accepted"

------------------------------------------------------------------------------
TargetTypeOK ==
    /\ target \in Accounts \cup {NoTarget}
    /\ state \in [Accounts -> {"absent", "connected", "indeterminate", "disconnected"}]
    /\ scopes \in [Accounts -> SUBSET {"readonly", "modify"}]
    /\ view \in [Tuis -> [target : Accounts \cup {NoTarget}, eligible : SUBSET Accounts]]
    /\ \A r \in Requests : reader[r].stage \in {"none", "none set", "rows", "scopes", "read"}

\* The three reads are not one snapshot, yet what they accept was true: the account
\* was connected with exactly the scopes read at one moment between the first and the
\* last, whatever logins and disconnects are committed in between.
AcceptedWasConnected ==
    \A r \in Requests :
        reader[r].stage = "read" /\ Eligible(reader[r].state, reader[r].scopes)
        => <<reader[r].subject, reader[r].scopes>> \in seen[r]
================================================================================
