-------------------------- MODULE MCTerminalSessions --------------------------
EXTENDS TerminalSessions

\* Bounds: two interfaces with two authorizations while the clock stands still, or login
\* requests at once over two windows while nobody logs in to Google.
MCBudgets == {
    [authorizations |-> MaxAuthorizations, time |-> 0, logins |-> 1],
    [authorizations |-> 0, time |-> MaxTime, logins |-> Cardinality(Logins)]}
================================================================================
