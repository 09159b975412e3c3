--------------------------- MODULE TerminalSessions ---------------------------
(****************************************************************************)
(* Terminal interfaces behind the control gateway: ttyd starts one process  *)
(* per websocket (control/runtime.rs) and hangs up on it when the websocket *)
(* or ttyd ends; a process that quits closes its websocket.                 *)
(****************************************************************************)
EXTENDS Integers, FiniteSets

CONSTANTS
    Tuis, Nobody, MaxAuthorizations, Logins, Window, MaxFailed, Ttl, MaxTime,
    Budgets     \* bound: how many authorizations, how much time and how many login
                \* requests at once one behaviour has

ASSUME TerminalSessionsAssumption ==
    /\ MaxAuthorizations \in Nat /\ MaxTime \in Nat /\ IsFiniteSet(Logins)
    /\ Window \in Nat \ {0} /\ MaxFailed \in Nat \ {0} /\ Ttl \in Nat \ {0}

VARIABLES
    fixed, started, owner, screen, oauth, listener, inbox, browser, consented, spent,
    saved, abandoned, leftOpen,                                     \* LoginFlow
    now, limiter, session, logins, connection, gateway,             \* ControlGateway
    budget      \* the chosen member of Budgets

Flow == INSTANCE LoginFlow
Gate == INSTANCE ControlGateway

loginVars == <<fixed, started, owner, screen, oauth, listener, inbox, browser, consented,
               spent, saved, abandoned, leftOpen>>
gatewayVars == <<now, limiter, session, logins, connection, gateway>>
vars == <<loginVars, gatewayVars, budget>>

Init == Flow!Init /\ Gate!Init /\ budget \in Budgets

\* The websocket opens and the process starts; it closes, and the process is hung up on.
Opens(t) == Gate!Opens(t) /\ Flow!Begin(t)
HangsUp(t) == Gate!Closes(t) /\ Flow!End(t)
Quits(t) == Flow!Quit(t) /\ Gate!Closes(t)

\* ttyd ends, by itself or with the gateway, and every process with it.
AllEnd ==
    /\ screen' = [t \in Tuis |-> "off"]
    /\ oauth' = [t \in Tuis |-> 0]
    /\ listener' = [t \in Tuis |-> 0]
    /\ inbox' = [t \in Tuis |-> 0]
    /\ abandoned' = abandoned \cup ({oauth[t] : t \in Tuis} \ {0})
    /\ UNCHANGED <<fixed, started, owner, browser, consented, spent, saved, leftOpen>>
TtydExits == Gate!TtydExits /\ AllEnd
GatewayStops == Gate!Stops /\ AllEnd

GatewayRuns ==
    /\ Gate!GatewayStep
    /\ now' <= budget.time
    /\ Cardinality(Gate!InFlight') <= budget.logins
    /\ UNCHANGED loginVars
InterfaceRuns(t) ==
    /\ Flow!InterfaceStep(t)
    /\ started' <= budget.authorizations
    /\ UNCHANGED gatewayVars
PollRuns(t) == Flow!Poll(t) /\ UNCHANGED gatewayVars
BrowserRuns == Flow!BrowserStep /\ UNCHANGED gatewayVars

Step ==
    \/ TtydExits \/ GatewayStops \/ GatewayRuns \/ BrowserRuns
    \/ \E t \in Tuis : Opens(t) \/ HangsUp(t) \/ Quits(t) \/ InterfaceRuns(t)

Next == Step /\ UNCHANGED budget

\* The interface's loop polls in every turn, at least four times a second.
Spec == Init /\ [][Next]_vars /\ \A t \in Tuis : WF_vars(PollRuns(t) /\ UNCHANGED budget)

------------------------------------------------------------------------------
\* The state of the interfaces and of the gateway, and what a reader of both expects: a
\* terminal interface runs exactly as long as its websocket is open, so none outlives
\* the gateway.
TypeOK ==
    /\ Flow!LoginTypeOK
    /\ Gate!GatewayTypeOK
RunsWhileConnected ==
    /\ TypeOK
    /\ \A t \in Tuis : (screen[t] # "off") <=> (connection[t] = "open")
    /\ gateway = "over" => \A t \in Tuis : screen[t] = "off"

SavedFromOwnLogin == Flow!SavedFromOwnLogin

\* Neither the callback port nor the browser of a login outlives it.
EndsWithLogin == Flow!PortFollowsScreen /\ Flow!BrowserEndsWithLogin

FailuresBounded == Gate!FailuresBounded

\* A callback that reached a listener is acted on, or its login is cancelled or ends.
CallbackHandled == \A t \in Tuis : inbox[t] # 0 ~> inbox[t] = 0
================================================================================
