---------------------------- MODULE ControlGateway ----------------------------
(****************************************************************************)
(* The control gateway: control/routes.rs, control/login_rate_limit.rs, the *)
(* SessionStore of control/mod.rs and control/runtime.rs.  Requests are     *)
(* handled concurrently, and a handler waits for its request's body or for  *)
(* ttyd between its steps.                                                  *)
(****************************************************************************)
EXTENDS Integers, FiniteSets

CONSTANTS
    Tuis,           \* terminals: one websocket each
    Logins,         \* login requests that may be in flight at once
    Window,         \* FAILED_LOGIN_WINDOW
    MaxFailed,      \* MAX_FAILED_LOGINS
    Ttl,            \* SESSION_TTL
    MaxTime         \* bound on the clock

VARIABLES
    now,
    limiter,        \* FailedLoginState: window_started, failures
    session,        \* the browser's session: its expiry in the store, 0 without one
    logins,         \* each login request: where login() is
    connection,     \* each websocket: where websocket() is
    gateway         \* "up", "draining" once the shutdown future is ready, "over"

gatewayVars == <<now, limiter, session, logins, connection, gateway>>

Init ==
    /\ now = 0
    /\ limiter = [started |-> 0, failures |-> 0]
    /\ session = 0
    /\ logins = [q \in Logins |-> "none"]
    /\ connection = [t \in Tuis |-> "none"]
    /\ gateway = "up"

Tick ==
    /\ now < MaxTime
    /\ now' = now + 1
    /\ UNCHANGED <<limiter, session, logins, connection, gateway>>

\* retry_after begins by restarting a window that has ended.
Current == IF now - limiter.started >= Window THEN [started |-> now, failures |-> 0] ELSE limiter

\* Mutant: one failure too many.
BlockedAbove(failures) == failures > MaxFailed

Blocked(failures) == failures >= MaxFailed

\* login: the limiter is asked before the body arrives.
LoginBegins(q) ==
    /\ gateway = "up"
    /\ logins[q] = "none"
    /\ limiter' = Current
    /\ logins' = IF Blocked(Current.failures) THEN logins
                 ELSE [logins EXCEPT ![q] = "admitted"]
    /\ UNCHANGED <<now, session, connection, gateway>>

\* The body does not arrive, does not parse, or is not the password: record_failure.
LoginFails(q) ==
    /\ logins[q] = "admitted"
    /\ limiter' = [Current EXCEPT !.failures = @ + 1]
    /\ logins' = [logins EXCEPT ![q] = "none"]
    /\ UNCHANGED <<now, session, connection, gateway>>

\* reset, then SessionStore::issue.
LoginSucceeds(q) ==
    /\ logins[q] = "admitted"
    /\ limiter' = [started |-> now, failures |-> 0]
    /\ session' = now + Ttl
    /\ logins' = [logins EXCEPT ![q] = "none"]
    /\ UNCHANGED <<now, connection, gateway>>

\* logout: revoke.
Logout ==
    /\ gateway = "up"
    /\ session # 0
    /\ session' = 0
    /\ UNCHANGED <<now, limiter, logins, connection, gateway>>

\* is_authenticated: contains purges what has expired.
Stands == session > now

\* websocket: the session is looked at once, before the connection to ttyd.
Asks(t) ==
    /\ gateway = "up"
    /\ connection[t] = "none"
    /\ session' = IF Stands THEN session ELSE 0
    /\ connection' = IF Stands THEN [connection EXCEPT ![t] = "asking"] ELSE connection
    /\ UNCHANGED <<now, limiter, logins, gateway>>

\* connect_async succeeds, and ttyd starts the terminal interface.
Opens(t) ==
    /\ connection[t] = "asking"
    /\ gateway # "over"
    /\ connection' = [connection EXCEPT ![t] = "open"]
    /\ UNCHANGED <<now, limiter, session, logins, gateway>>

\* Five seconds without ttyd's answer.
TimesOut(t) ==
    /\ connection[t] = "asking"
    /\ connection' = [connection EXCEPT ![t] = "none"]
    /\ UNCHANGED <<now, limiter, session, logins, gateway>>

\* websocket_proxy: the first direction to end ends both.
Closes(t) ==
    /\ connection[t] = "open"
    /\ connection' = [connection EXCEPT ![t] = "none"]
    /\ UNCHANGED <<now, limiter, session, logins, gateway>>

\* SIGINT or SIGTERM: no request is taken any more.
Signal ==
    /\ gateway = "up"
    /\ gateway' = "draining"
    /\ UNCHANGED <<now, limiter, session, logins, connection>>

\* Mutant: ttyd is left running.
StopsLeaving == UNCHANGED connection

\* Killing ttyd closes every terminal.
StopsTtyd == connection' = [t \in Tuis |-> "none"]

\* ttyd exits by itself: the shutdown future is ready as well.
TtydExits ==
    /\ gateway = "up"
    /\ gateway' = "draining"
    /\ connection' = [t \in Tuis |-> "none"]
    /\ UNCHANGED <<now, limiter, session, logins>>

\* axum::serve returns when the requests in flight are answered; upgraded connections
\* are not waited for.
Stops ==
    /\ gateway = "draining"
    /\ \A q \in Logins : logins[q] = "none"
    /\ \A t \in Tuis : connection[t] # "asking"
    /\ gateway' = "over"
    /\ StopsTtyd
    /\ UNCHANGED <<now, limiter, session, logins>>

GatewayStep ==
    \/ Tick \/ Logout \/ Signal
    \/ \E q \in Logins : LoginBegins(q) \/ LoginFails(q) \/ LoginSucceeds(q)
    \/ \E t \in Tuis : Asks(t) \/ TimesOut(t)

------------------------------------------------------------------------------
GatewayTypeOK ==
    /\ now \in 0..MaxTime
    /\ limiter.started \in 0..now /\ limiter.failures \in Nat
    /\ session \in 0..(MaxTime + Ttl)
    /\ logins \in [Logins -> {"none", "admitted"}]
    /\ connection \in [Tuis -> {"none", "asking", "open"}]
    /\ gateway \in {"up", "draining", "over"}

InFlight == {q \in Logins : logins[q] = "admitted"}

\* "MAX_FAILED_LOGINS" bounds the failures of a window up to the requests in flight:
\* each was admitted while there were fewer, and none is admitted after.
FailuresBounded ==
    limiter.failures + Cardinality(InFlight) < MaxFailed + Cardinality(Logins)
================================================================================
