---------------------------- MODULE SessionsProofs ----------------------------
(****************************************************************************)
(* Proofs about the terminal interfaces and the control gateway, for any    *)
(* number of both, of authorizations and of login requests.                 *)
(****************************************************************************)
EXTENDS TerminalSessions, TLAPS, FiniteSetTheorems

Numbers == 0..MaxAuthorizations

ScreenNames == {"off", "accounts", "authorization", "redirect", "error", "confirm quit"}

ScreenTypes ==
    /\ screen \in [Tuis -> ScreenNames]
    /\ oauth \in [Tuis -> Numbers]
    /\ listener \in [Tuis -> Numbers]
    /\ inbox \in [Tuis -> Numbers]

LoginTypes ==
    /\ started \in Numbers
    /\ browser \in [Tuis -> BOOLEAN]
    /\ owner \in [Flow!Authorizations -> Tuis \cup {Nobody}]
    /\ saved \in [Flow!Authorizations -> Tuis \cup {Nobody}]
    /\ consented \subseteq 1..started
    /\ spent \subseteq consented
    /\ abandoned \subseteq 1..started

\* An interface holds an authorization of its own, neither given up nor completed, and
\* an account that was saved had one.
Ownership ==
    /\ \A t \in Tuis : oauth[t] # 0 =>
          /\ oauth[t] <= started
          /\ owner[oauth[t]] = t
          /\ oauth[t] \notin abandoned
          /\ saved[oauth[t]] = Nobody
    /\ \A a \in Flow!Authorizations : saved[a] # Nobody =>
          /\ a <= started
          /\ saved[a] = owner[a]
          /\ a \notin abandoned

Screens ==
    /\ \A t \in Tuis : screen[t] \in {"authorization", "redirect"} => oauth[t] # 0
    /\ \A t \in Tuis : listener[t] # 0 => screen[t] = "authorization" /\ listener[t] = oauth[t]
    /\ \A t \in Tuis : inbox[t] \in consented \cup {0}
    /\ \A t \in Tuis :
          browser[t] /\ screen[t] \in {"accounts", "error", "confirm quit"} => t \in leftOpen

FlowInv == ScreenTypes /\ LoginTypes /\ Ownership /\ Screens

Lives ==
    /\ \A t \in Tuis : (screen[t] # "off") <=> (connection[t] = "open")
    /\ gateway = "over" => \A t \in Tuis : screen[t] = "off"

GateInv ==
    /\ Gate!GatewayTypeOK
    /\ limiter \in [started : Nat, failures : Nat]
    /\ FailuresBounded

\* The inductive invariant.
IInv == FlowInv /\ GateInv /\ Lives

------------------------------------------------------------------------------
\* Authorizations are the numbers from 1; 0 stands for none.
LEMMA NumberFacts ==
    /\ 0 \in Numbers
    /\ \A n \in Numbers : n \in Int /\ (n # 0 => n \in Flow!Authorizations)
    /\ \A a \in Flow!Authorizations : a \in Numbers /\ a # 0
PROOF
  BY TerminalSessionsAssumption DEF Numbers, Flow!Authorizations

\* What replacing the screen does to each interface.
LEMMA ShowsEffect ==
    ASSUME ScreenTypes, NEW t \in Tuis, NEW s \in ScreenNames, Flow!Shows(t, s)
    PROVE  /\ ScreenTypes'
           /\ screen'[t] = s /\ oauth'[t] = 0 /\ listener'[t] = 0 /\ inbox'[t] = 0
           /\ \A u \in Tuis : u # t =>
                 /\ screen'[u] = screen[u] /\ oauth'[u] = oauth[u]
                 /\ listener'[u] = listener[u] /\ inbox'[u] = inbox[u]
PROOF
  BY NumberFacts DEF ScreenTypes, Flow!Shows

\* Leaving the authorization, in whatever way: for another screen or for good; with the
\* account saved or not.
LEMMA Leaves ==
    ASSUME FlowInv, NEW t \in Tuis,
           NEW s \in ScreenNames \ {"authorization", "redirect"}, Flow!Shows(t, s),
           UNCHANGED <<started, owner, consented>>, spent' \subseteq consented,
           \/ UNCHANGED saved /\ (UNCHANGED abandoned \/ Flow!Abandons(t))
           \/ /\ oauth[t] # 0 /\ saved' = [saved EXCEPT ![oauth[t]] = t]
              /\ UNCHANGED abandoned,
           \/ Flow!StopsBrowser(t)
           \/ UNCHANGED browser /\ (s = "off" \/ (browser[t] => t \in leftOpen')),
           \A u \in Tuis : u # t /\ u \in leftOpen => u \in leftOpen'
    PROVE  FlowInv'
PROOF
  <1>0. ScreenTypes /\ LoginTypes /\ Ownership /\ Screens
    BY DEF FlowInv
  <1>1. /\ ScreenTypes'
        /\ screen'[t] = s /\ oauth'[t] = 0 /\ listener'[t] = 0 /\ inbox'[t] = 0
        /\ \A u \in Tuis : u # t => screen'[u] = screen[u] /\ oauth'[u] = oauth[u]
                                    /\ listener'[u] = listener[u] /\ inbox'[u] = inbox[u]
    BY <1>0, ShowsEffect
  <1>2. \/ UNCHANGED saved
        \/ /\ oauth[t] # 0 /\ saved' = [saved EXCEPT ![oauth[t]] = t]
           /\ UNCHANGED abandoned
    OBVIOUS
  <1>3. \/ UNCHANGED abandoned
        \/ UNCHANGED saved /\ abandoned' = abandoned \cup ({oauth[t]} \ {0})
    BY DEF Flow!Abandons
  <1>4. /\ browser' \in [Tuis -> BOOLEAN]
        /\ \A u \in Tuis : u # t => browser'[u] = browser[u]
        /\ browser'[t] => s = "off" \/ t \in leftOpen'
    BY <1>0 DEF LoginTypes, Flow!StopsBrowser
  <1>5. oauth[t] # 0 => oauth[t] \in Flow!Authorizations /\ oauth[t] \in 1..started
    BY <1>0, NumberFacts DEF ScreenTypes, LoginTypes, Ownership, Numbers
  <1>6. LoginTypes'
    BY <1>0, <1>2, <1>3, <1>4, <1>5 DEF LoginTypes
  <1>7. Ownership'
    <2>1. ASSUME NEW u \in Tuis, oauth'[u] # 0
          PROVE  /\ oauth'[u] <= started' /\ owner'[oauth'[u]] = u
                 /\ oauth'[u] \notin abandoned' /\ saved'[oauth'[u]] = Nobody
      <3>1. u # t /\ oauth'[u] = oauth[u]
        BY <1>1, <2>1
      <3>2. oauth[u] <= started /\ owner[oauth[u]] = u /\ oauth[u] \notin abandoned
            /\ saved[oauth[u]] = Nobody
        BY <1>0, <2>1, <3>1 DEF Ownership
      <3>3. oauth[t] # 0 => oauth[u] # oauth[t]
        BY <1>0, <3>1, <3>2 DEF Ownership
      <3>4. oauth[u] \notin abandoned'
        BY <1>3, <2>1, <3>1, <3>2, <3>3
      <3>5. oauth[u] \in Flow!Authorizations
        BY <1>0, <2>1, <3>1, NumberFacts DEF ScreenTypes
      <3>6. saved'[oauth[u]] = Nobody
        BY <1>0, <1>2, <3>2, <3>3, <3>5 DEF LoginTypes
      <3>. QED
        BY <3>1, <3>2, <3>4, <3>6
    <2>2. ASSUME NEW a \in Flow!Authorizations, saved'[a] # Nobody
          PROVE  a <= started' /\ saved'[a] = owner'[a] /\ a \notin abandoned'
      <3>1. CASE UNCHANGED saved
        <4>1. a <= started /\ saved[a] = owner[a] /\ a \notin abandoned
          BY <1>0, <2>2, <3>1 DEF Ownership
        <4>2. a # oauth[t]
          BY <1>0, <2>2, <3>1, NumberFacts DEF Ownership
        <4>. QED
          BY <1>3, <3>1, <4>1, <4>2
      <3>2. CASE oauth[t] # 0 /\ saved' = [saved EXCEPT ![oauth[t]] = t] /\ UNCHANGED abandoned
        BY <1>0, <1>5, <2>2, <3>2 DEF Ownership, LoginTypes
      <3>. QED
        BY <1>2, <3>1, <3>2
    <2>. QED
      BY <2>1, <2>2 DEF Ownership
  <1>8. Screens'
    BY <1>0, <1>1, <1>4 DEF Screens
  <1>. QED
    BY <1>1, <1>6, <1>7, <1>8 DEF FlowInv

\* A screen that holds nothing comes or goes.
LEMMA PlainStep ==
    ASSUME FlowInv, NEW t \in Tuis,
           \/ Flow!Begin(t) \/ Flow!Cancel(t) \/ Flow!AskQuit(t) \/ Flow!Back(t)
           \/ Flow!Quit(t) \/ Flow!End(t)
    PROVE  FlowInv'
PROOF
  <1>0. /\ ScreenTypes /\ LoginTypes /\ Ownership /\ Screens /\ spent \subseteq consented
        /\ "off" \in ScreenNames \ {"authorization", "redirect"}
        /\ "accounts" \in ScreenNames \ {"authorization", "redirect"}
        /\ "confirm quit" \in ScreenNames \ {"authorization", "redirect"}
    BY DEF FlowInv, LoginTypes, ScreenNames
  <1>1. CASE Flow!Begin(t)
    <2>1. /\ Flow!Shows(t, "accounts") /\ UNCHANGED <<started, owner, consented, spent, saved>>
          /\ UNCHANGED abandoned \/ Flow!Abandons(t)
      BY <1>1 DEF Flow!Begin, Flow!google
    <2>2. /\ \/ Flow!StopsBrowser(t)
             \/ UNCHANGED browser /\ ("accounts" = "off" \/ (browser[t] => t \in leftOpen'))
          /\ \A u \in Tuis : u # t /\ u \in leftOpen => u \in leftOpen'
      BY <1>0, <1>1 DEF Flow!Begin, Screens
    <2>. QED
      BY <1>0, <2>1, <2>2, Leaves
  <1>2. CASE Flow!Cancel(t)
    <2>1. /\ Flow!Shows(t, "accounts") /\ UNCHANGED <<started, owner, consented, spent, saved>>
          /\ UNCHANGED abandoned \/ Flow!Abandons(t)
      BY <1>2 DEF Flow!Cancel, Flow!google
    <2>2. /\ \/ Flow!StopsBrowser(t)
             \/ UNCHANGED browser /\ ("accounts" = "off" \/ (browser[t] => t \in leftOpen'))
          /\ \A u \in Tuis : u # t /\ u \in leftOpen => u \in leftOpen'
      BY <1>0, <1>2 DEF Flow!Cancel, Screens
    <2>. QED
      BY <1>0, <2>1, <2>2, Leaves
  <1>3. CASE Flow!AskQuit(t)
    <2>1. /\ Flow!Shows(t, "confirm quit") /\ UNCHANGED <<started, owner, consented, spent, saved>>
          /\ UNCHANGED abandoned \/ Flow!Abandons(t)
      BY <1>3 DEF Flow!AskQuit, Flow!google
    <2>2. /\ \/ Flow!StopsBrowser(t)
             \/ UNCHANGED browser /\ ("confirm quit" = "off" \/ (browser[t] => t \in leftOpen'))
          /\ \A u \in Tuis : u # t /\ u \in leftOpen => u \in leftOpen'
      BY <1>0, <1>3 DEF Flow!AskQuit, Screens
    <2>. QED
      BY <1>0, <2>1, <2>2, Leaves
  <1>4. CASE Flow!Back(t)
    <2>1. /\ Flow!Shows(t, "accounts") /\ UNCHANGED <<started, owner, consented, spent, saved>>
          /\ UNCHANGED abandoned \/ Flow!Abandons(t)
      BY <1>4 DEF Flow!Back, Flow!google
    <2>2. /\ \/ Flow!StopsBrowser(t)
             \/ UNCHANGED browser /\ ("accounts" = "off" \/ (browser[t] => t \in leftOpen'))
          /\ \A u \in Tuis : u # t /\ u \in leftOpen => u \in leftOpen'
      BY <1>0, <1>4 DEF Flow!Back, Screens
    <2>. QED
      BY <1>0, <2>1, <2>2, Leaves
  <1>5. CASE Flow!Quit(t)
    <2>1. /\ Flow!Shows(t, "off") /\ UNCHANGED <<started, owner, consented, spent, saved>>
          /\ UNCHANGED abandoned \/ Flow!Abandons(t)
      BY <1>5 DEF Flow!Quit, Flow!google
    <2>2. /\ \/ Flow!StopsBrowser(t)
             \/ UNCHANGED browser /\ ("off" = "off" \/ (browser[t] => t \in leftOpen'))
          /\ \A u \in Tuis : u # t /\ u \in leftOpen => u \in leftOpen'
      BY <1>0, <1>5 DEF Flow!Quit, Screens
    <2>. QED
      BY <1>0, <2>1, <2>2, Leaves
  <1>6. CASE Flow!End(t)
    <2>1. /\ Flow!Shows(t, "off") /\ UNCHANGED <<started, owner, consented, spent, saved>>
          /\ UNCHANGED abandoned \/ Flow!Abandons(t)
      BY <1>6 DEF Flow!End, Flow!google
    <2>2. /\ \/ Flow!StopsBrowser(t)
             \/ UNCHANGED browser /\ ("off" = "off" \/ (browser[t] => t \in leftOpen'))
          /\ \A u \in Tuis : u # t /\ u \in leftOpen => u \in leftOpen'
      BY <1>0, <1>6 DEF Flow!End, Screens
    <2>. QED
      BY <1>0, <2>1, <2>2, Leaves
  <1>. QED
    BY <1>1, <1>2, <1>3, <1>4, <1>5, <1>6

\* An answer ends the authorization, for better or worse.
LEMMA FinishStep ==
    ASSUME FlowInv, NEW t \in Tuis, NEW a \in consented, Flow!Finish(t, a), oauth[t] # 0
    PROVE  FlowInv'
PROOF
  <1>0. /\ ScreenTypes /\ LoginTypes /\ Ownership /\ Screens /\ spent \subseteq consented
        /\ "accounts" \in ScreenNames \ {"authorization", "redirect"}
        /\ "error" \in ScreenNames \ {"authorization", "redirect"}
    BY DEF FlowInv, LoginTypes, ScreenNames
  <1>1. /\ UNCHANGED <<started, owner, consented, abandoned>>
        /\ Flow!StopsBrowser(t) /\ spent' \subseteq consented
        /\ \A u \in Tuis : u # t /\ u \in leftOpen => u \in leftOpen'
    BY <1>0 DEF Flow!Finish
  <1>2. CASE Flow!Shows(t, "accounts") /\ oauth[t] = a /\ saved' = [saved EXCEPT ![a] = t]
    <2>1. saved' = [saved EXCEPT ![oauth[t]] = t]
      BY <1>2
    <2>. QED
      BY <1>0, <1>1, <1>2, <2>1, Leaves
  <1>3. CASE Flow!Shows(t, "error") /\ UNCHANGED saved
    BY <1>0, <1>1, <1>3, Leaves
  <1>. QED
    BY <1>2, <1>3 DEF Flow!Finish, Flow!StateMatches

\* A new authorization belongs to the interface that asks for it.
LEMMA StartStep ==
    ASSUME FlowInv, NEW t \in Tuis, Flow!StartLogin(t)
    PROVE  FlowInv'
PROOF
  <1>0. /\ ScreenTypes /\ LoginTypes /\ Ownership /\ Screens /\ spent \subseteq consented
        /\ "error" \in ScreenNames \ {"authorization", "redirect"}
    BY DEF FlowInv, LoginTypes, ScreenNames
  <1>1. /\ Flow!StopsBrowser(t) /\ UNCHANGED <<consented, spent, saved, abandoned>>
        /\ \A u \in Tuis : u # t /\ u \in leftOpen => u \in leftOpen'
    BY DEF Flow!StartLogin, Flow!google
  <1>2. CASE Flow!Shows(t, "error") /\ UNCHANGED <<started, owner>>
    BY <1>0, <1>1, <1>2, Leaves
  <1>3. ASSUME started < MaxAuthorizations,
               started' = started + 1,
               owner' = [owner EXCEPT ![started'] = t],
               screen' = [screen EXCEPT ![t] = "authorization"],
               oauth' = [oauth EXCEPT ![t] = started'],
               UNCHANGED inbox,
               NEW served \in {started', 0}, listener' = [listener EXCEPT ![t] = served]
        PROVE  FlowInv'
    <2>1. started \in Nat /\ started' \in Numbers /\ started' \in Flow!Authorizations
          /\ started' # 0
      BY <1>0, <1>3, TerminalSessionsAssumption DEF LoginTypes, Numbers, Flow!Authorizations
    <2>2. ScreenTypes'
      BY <1>0, <1>3, <2>1, NumberFacts DEF ScreenTypes, ScreenNames
    <2>3. browser' \in [Tuis -> BOOLEAN] /\ ~browser'[t]
          /\ \A u \in Tuis : u # t => browser'[u] = browser[u]
      BY <1>0, <1>1 DEF LoginTypes, Flow!StopsBrowser
    <2>4. LoginTypes'
      BY <1>0, <1>1, <1>3, <2>1, <2>3 DEF LoginTypes
    <2>5. started' \notin abandoned /\ saved[started'] = Nobody
      BY <1>0, <1>3, <2>1 DEF LoginTypes, Ownership
    <2>6. Ownership'
      <3>1. ASSUME NEW u \in Tuis, oauth'[u] # 0
            PROVE  /\ oauth'[u] <= started' /\ owner'[oauth'[u]] = u
                   /\ oauth'[u] \notin abandoned' /\ saved'[oauth'[u]] = Nobody
        <4>1. CASE u = t
          BY <1>0, <1>1, <1>3, <2>1, <2>5, <4>1 DEF ScreenTypes, LoginTypes
        <4>2. CASE u # t
          <5>1. oauth'[u] = oauth[u] /\ oauth[u] <= started /\ owner[oauth[u]] = u
                /\ oauth[u] \notin abandoned /\ saved[oauth[u]] = Nobody
                /\ oauth[u] \in Flow!Authorizations
            BY <1>0, <1>3, <3>1, <4>2, NumberFacts DEF ScreenTypes, Ownership
          <5>2. oauth[u] # started' /\ oauth[u] <= started'
            <6>1. oauth[u] \in Int /\ started' = started + 1
              BY <1>3, <5>1, NumberFacts
            <6>. QED
              BY <2>1, <5>1, <6>1
          <5>. QED
            BY <1>0, <1>1, <1>3, <5>1, <5>2 DEF LoginTypes
        <4>. QED
          BY <4>1, <4>2
      <3>2. ASSUME NEW a \in Flow!Authorizations, saved'[a] # Nobody
            PROVE  a <= started' /\ saved'[a] = owner'[a] /\ a \notin abandoned'
        <4>1. a <= started /\ saved[a] = owner[a] /\ a \notin abandoned
          BY <1>0, <1>1, <3>2 DEF Ownership
        <4>2. a # started' /\ a <= started'
          BY <1>3, <2>1, <4>1, NumberFacts
        <4>. QED
          BY <1>0, <1>1, <1>3, <4>1, <4>2 DEF LoginTypes
      <3>. QED
        BY <3>1, <3>2 DEF Ownership
    <2>7. Screens'
      BY <1>0, <1>1, <1>3, <2>1, <2>3 DEF ScreenTypes, Screens
    <2>. QED
      BY <2>2, <2>4, <2>6, <2>7 DEF FlowInv
  <1>. QED
    BY <1>2, <1>3 DEF Flow!StartLogin

\* Every step of an interface keeps the dialogue's invariant, and it stays on or off.
LEMMA InterfaceKeeps ==
    ASSUME FlowInv, NEW t \in Tuis, Flow!InterfaceStep(t)
    PROVE  FlowInv'
PROOF
  <1>0. /\ ScreenTypes /\ LoginTypes /\ Ownership /\ Screens /\ spent \subseteq consented
        /\ "error" \in ScreenNames \ {"authorization", "redirect"}
    BY DEF FlowInv, LoginTypes, ScreenNames
  <1>1. CASE Flow!OpenBrowser(t)
    <2>1. CASE Flow!Shows(t, "error") /\ Flow!StopsBrowser(t) /\ Flow!Abandons(t)
      BY <1>0, <1>1, <2>1, Leaves DEF Flow!OpenBrowser, Flow!google
    <2>2. CASE /\ \E owned \in BOOLEAN : browser' = [browser EXCEPT ![t] = owned]
               /\ UNCHANGED <<screen, oauth, listener, inbox, abandoned>>
      <3>1. /\ UNCHANGED <<started, owner, consented, spent, saved, leftOpen>>
            /\ screen[t] = "authorization"
        BY <1>1 DEF Flow!OpenBrowser, Flow!google
      <3>2. browser' \in [Tuis -> BOOLEAN] /\ \A u \in Tuis : u # t => browser'[u] = browser[u]
        BY <1>0, <2>2 DEF LoginTypes
      <3>3. ScreenTypes' /\ Ownership'
        BY <1>0, <2>2, <3>1 DEF ScreenTypes, Ownership
      <3>4. LoginTypes'
        BY <1>0, <2>2, <3>1, <3>2 DEF LoginTypes
      <3>5. Screens'
        BY <1>0, <2>2, <3>1, <3>2 DEF Screens
      <3>. QED
        BY <3>3, <3>4, <3>5 DEF FlowInv
    <2>. QED
      BY <1>1, <2>1, <2>2 DEF Flow!OpenBrowser
  <1>2. CASE Flow!ToRedirect(t)
    <2>1. /\ UNCHANGED <<started, owner, oauth, listener, inbox, browser, consented, spent,
                         saved, abandoned, leftOpen>>
          /\ screen[t] = "authorization" /\ listener[t] = 0
          /\ screen' = [screen EXCEPT ![t] = "redirect"]
      BY <1>2 DEF Flow!ToRedirect, Flow!google
    <2>2. ScreenTypes' /\ LoginTypes' /\ Ownership'
      BY <1>0, <2>1 DEF ScreenTypes, ScreenNames, LoginTypes, Ownership
    <2>3. Screens'
      BY <1>0, <2>1 DEF ScreenTypes, Screens
    <2>. QED
      BY <2>2, <2>3 DEF FlowInv
  <1>3. CASE Flow!Poll(t)
    BY <1>0, <1>3, FinishStep DEF Flow!Poll, Screens
  <1>5. CASE Flow!PollFails(t)
    BY <1>0, <1>5, Leaves DEF Flow!PollFails, Flow!google
  <1>4. CASE Flow!Paste(t)
    <2>1. PICK a \in consented \cup {0} :
             IF a = 0 THEN /\ Flow!Shows(t, "error")
                           /\ Flow!StopsBrowser(t)
                           /\ UNCHANGED <<fixed, started, owner, consented, spent, saved,
                                          abandoned, leftOpen>>
             ELSE Flow!Finish(t, a)
      BY <1>4 DEF Flow!Paste, Flow!google
    <2>2. CASE a = 0
      BY <1>0, <2>1, <2>2, Leaves
    <2>3. CASE a # 0
      BY <1>0, <1>4, <2>1, <2>3, FinishStep DEF Flow!Paste, Screens
    <2>. QED
      BY <2>2, <2>3
  <1>. QED
    BY <1>1, <1>2, <1>3, <1>4, <1>5, StartStep, PlainStep DEF Flow!InterfaceStep

\* Google and the user's browsers bring answers; nothing else changes.
LEMMA BrowserKeeps ==
    ASSUME FlowInv, Flow!BrowserStep
    PROVE  FlowInv' /\ UNCHANGED screen
PROOF
  <1>0. ScreenTypes /\ LoginTypes /\ Ownership /\ Screens
    BY DEF FlowInv
  <1>1. ASSUME NEW a \in Flow!Authorizations, Flow!Consent(a)
        PROVE  FlowInv' /\ UNCHANGED screen
    <2>1. /\ UNCHANGED <<started, owner, screen, oauth, listener, inbox, browser, spent, saved,
                         abandoned, leftOpen>>
          /\ a <= started /\ consented' = consented \cup {a}
      BY <1>1 DEF Flow!Consent
    <2>2. a \in 1..started
      BY <1>0, <2>1, TerminalSessionsAssumption DEF LoginTypes, Numbers, Flow!Authorizations
    <2>3. ScreenTypes' /\ Ownership' /\ Screens'
      BY <1>0, <2>1 DEF ScreenTypes, Ownership, Screens
    <2>4. LoginTypes'
      BY <1>0, <2>1, <2>2 DEF LoginTypes
    <2>. QED
      BY <2>1, <2>3, <2>4 DEF FlowInv
  <1>2. ASSUME NEW a \in Flow!Authorizations, NEW t \in Tuis, Flow!Deliver(a, t)
        PROVE  FlowInv' /\ UNCHANGED screen
    <2>1. /\ UNCHANGED <<started, owner, screen, oauth, listener, browser, consented, spent,
                         saved, abandoned, leftOpen>>
          /\ a \in consented /\ inbox' = [inbox EXCEPT ![t] = a]
      BY <1>2 DEF Flow!Deliver, Flow!google
    <2>2. ScreenTypes' /\ LoginTypes' /\ Ownership' /\ Screens'
      BY <1>0, <2>1, NumberFacts DEF ScreenTypes, LoginTypes, Ownership, Screens
    <2>. QED
      BY <2>1, <2>2 DEF FlowInv
  <1>. QED
    BY <1>1, <1>2 DEF Flow!BrowserStep

\* The end of ttyd gives up every authorization at once.
LEMMA AllEndKeeps ==
    ASSUME FlowInv, AllEnd
    PROVE  FlowInv' /\ \A t \in Tuis : screen'[t] = "off"
PROOF
  <1>0. ScreenTypes /\ LoginTypes /\ Ownership /\ Screens
    BY DEF FlowInv
  <1>1. /\ UNCHANGED <<started, owner, browser, consented, spent, saved, leftOpen>>
        /\ \A t \in Tuis : screen'[t] = "off" /\ oauth'[t] = 0 /\ listener'[t] = 0 /\ inbox'[t] = 0
        /\ abandoned' = abandoned \cup ({oauth[t] : t \in Tuis} \ {0})
    BY DEF AllEnd
  <1>2. ScreenTypes'
    BY NumberFacts DEF AllEnd, ScreenTypes, ScreenNames
  <1>3. {oauth[t] : t \in Tuis} \ {0} \subseteq 1..started
    BY <1>0, TerminalSessionsAssumption DEF ScreenTypes, LoginTypes, Numbers, Ownership
  <1>4. LoginTypes'
    BY <1>0, <1>1, <1>3 DEF LoginTypes
  <1>5. Ownership'
    <2>1. ASSUME NEW a \in Flow!Authorizations, saved[a] # Nobody
          PROVE  a \notin {oauth[t] : t \in Tuis} \ {0}
      BY <1>0, <2>1 DEF Ownership
    <2>. QED
      BY <1>0, <1>1, <2>1 DEF Ownership
  <1>6. Screens'
    BY <1>1 DEF Screens
  <1>. QED
    BY <1>1, <1>2, <1>4, <1>5, <1>6 DEF FlowInv

------------------------------------------------------------------------------
\* Which steps of an interface put it on or off.
LEMMA OnAndOff ==
    ASSUME FlowInv, NEW t \in Tuis
    PROVE  /\ Flow!InterfaceStep(t) =>
                 \A u \in Tuis : (screen'[u] = "off" <=> screen[u] = "off")
           /\ Flow!InterfaceStep(t) => screen[t] # "off"
           /\ Flow!Begin(t) => screen' = [screen EXCEPT ![t] = "accounts"]
           /\ Flow!Quit(t) \/ Flow!End(t) => screen' = [screen EXCEPT ![t] = "off"]
PROOF
  <1>0. screen \in [Tuis -> ScreenNames]
    BY DEF FlowInv, ScreenTypes
  <1>1. Flow!InterfaceStep(t) =>
           /\ screen[t] # "off"
           /\ \/ UNCHANGED screen
              \/ \E s \in ScreenNames \ {"off"} : screen' = [screen EXCEPT ![t] = s]
    <2>1. Flow!StartLogin(t) \/ Flow!OpenBrowser(t) \/ Flow!ToRedirect(t) \/ Flow!Cancel(t) =>
             /\ screen[t] # "off"
             /\ \/ UNCHANGED screen
                \/ \E s \in ScreenNames \ {"off"} : screen' = [screen EXCEPT ![t] = s]
      BY DEF Flow!StartLogin, Flow!OpenBrowser, Flow!ToRedirect, Flow!Cancel, Flow!Shows, ScreenNames
    <2>2. Flow!Poll(t) \/ Flow!PollFails(t) \/ Flow!Paste(t) \/ Flow!AskQuit(t) \/ Flow!Back(t) =>
             /\ screen[t] # "off"
             /\ \/ UNCHANGED screen
                \/ \E s \in ScreenNames \ {"off"} : screen' = [screen EXCEPT ![t] = s]
      BY DEF Flow!Poll, Flow!PollFails, Flow!Paste, Flow!AskQuit, Flow!Back, Flow!Finish, Flow!Shows, ScreenNames
    <2>. QED
      BY <2>1, <2>2 DEF Flow!InterfaceStep
  <1>2. ASSUME NEW s \in ScreenNames \ {"off"}, screen' = [screen EXCEPT ![t] = s], screen[t] # "off"
        PROVE  \A u \in Tuis : (screen'[u] = "off" <=> screen[u] = "off")
    BY <1>0, <1>2
  <1>. QED
    BY <1>1, <1>2 DEF Flow!Begin, Flow!Quit, Flow!End, Flow!Shows

\* The instance counts as this module does.
LEMMA SameCardinality == \A S : Gate!Cardinality(S) = Cardinality(S)
PROOF
  BY DEF Gate!Cardinality, Cardinality

\* Requests in flight are finitely many.
LEMMA InFlightFinite ==
    /\ IsFiniteSet(Gate!InFlight) /\ Cardinality(Gate!InFlight) \in Nat
    /\ Cardinality(Gate!InFlight) <= Cardinality(Logins) /\ Cardinality(Logins) \in Nat
PROOF
  <1>1. Gate!InFlight \in SUBSET Logins
    BY DEF Gate!InFlight
  <1>. QED
    BY <1>1, TerminalSessionsAssumption, FS_Subset, FS_CardinalityType

\* One request more in flight, or one less.
LEMMA InFlightMoves ==
    ASSUME NEW q \in Logins, logins \in [Logins -> {"none", "admitted"}]
    PROVE  /\ logins[q] = "none" /\ logins' = [logins EXCEPT ![q] = "admitted"] =>
                 /\ Cardinality(Gate!InFlight') = Cardinality(Gate!InFlight) + 1
                 /\ Cardinality(Gate!InFlight') <= Cardinality(Logins)
           /\ logins[q] = "admitted" /\ logins' = [logins EXCEPT ![q] = "none"] =>
                 Cardinality(Gate!InFlight') = Cardinality(Gate!InFlight) - 1
PROOF
  <1>1. ASSUME logins[q] = "none", logins' = [logins EXCEPT ![q] = "admitted"]
        PROVE  /\ Cardinality(Gate!InFlight') = Cardinality(Gate!InFlight) + 1
               /\ Cardinality(Gate!InFlight') <= Cardinality(Logins)
    <2>1. Gate!InFlight' = Gate!InFlight \cup {q} /\ q \notin Gate!InFlight
      BY <1>1 DEF Gate!InFlight
    <2>2. Gate!InFlight' \in SUBSET Logins
      BY DEF Gate!InFlight
    <2>3. Cardinality(Gate!InFlight') = Cardinality(Gate!InFlight) + 1
      BY <2>1, InFlightFinite, FS_AddElement
    <2>4. Cardinality(Gate!InFlight') <= Cardinality(Logins)
      BY <2>2, TerminalSessionsAssumption, FS_Subset
    <2>. QED
      BY <2>3, <2>4
  <1>2. ASSUME logins[q] = "admitted", logins' = [logins EXCEPT ![q] = "none"]
        PROVE  Cardinality(Gate!InFlight') = Cardinality(Gate!InFlight) - 1
    <2>1. Gate!InFlight' = Gate!InFlight \ {q} /\ q \in Gate!InFlight
      BY <1>2 DEF Gate!InFlight
    <2>. QED
      BY <2>1, InFlightFinite, FS_RemoveElement
  <1>. QED
    BY <1>1, <1>2

\* A window that has ended counts no failure.
LEMMA CurrentWindow ==
    ASSUME GateInv
    PROVE  /\ Gate!Current \in [started : Nat, failures : Nat]
           /\ Gate!Current.started \in 0..now
           /\ Gate!Current.failures <= limiter.failures
PROOF
  <1>1. /\ limiter \in [started : Nat, failures : Nat] /\ limiter.started \in 0..now
        /\ now \in Nat
    BY TerminalSessionsAssumption DEF GateInv, Gate!GatewayTypeOK
  <1>. QED
    BY <1>1 DEF Gate!Current

\* The gateway's steps keep its types and the bound on failures.
LEMMA GateKeeps ==
    ASSUME GateInv,
           \/ Gate!GatewayStep \/ Gate!TtydExits \/ Gate!Stops
           \/ \E t \in Tuis : Gate!Opens(t) \/ Gate!Closes(t)
    PROVE  GateInv'
PROOF
  <1> DEFINE flying == Cardinality(Gate!InFlight)
  <1>0. /\ Gate!GatewayTypeOK /\ limiter \in [started : Nat, failures : Nat]
        /\ limiter.failures + flying < MaxFailed + Cardinality(Logins)
        /\ logins \in [Logins -> {"none", "admitted"}]
        /\ limiter.failures \in Nat
    BY SameCardinality DEF GateInv, FailuresBounded, Gate!FailuresBounded, Gate!GatewayTypeOK
  <1>1. flying \in Nat /\ flying <= Cardinality(Logins) /\ Cardinality(Logins) \in Nat
    BY InFlightFinite
  <1>2. now \in Nat /\ MaxTime \in Nat /\ Ttl \in Nat /\ MaxFailed \in Nat \ {0} /\ now <= MaxTime
    BY <1>0, TerminalSessionsAssumption DEF Gate!GatewayTypeOK
  <1>3. ASSUME UNCHANGED <<limiter, logins>>, Gate!GatewayTypeOK'
        PROVE  GateInv'
    <2>1. Gate!InFlight' = Gate!InFlight
      BY <1>3 DEF Gate!InFlight
    <2>. QED
      BY <1>0, <1>3, <2>1 DEF GateInv, FailuresBounded, Gate!FailuresBounded
  <1>4. CASE Gate!Tick
    BY <1>0, <1>2, <1>3, <1>4 DEF Gate!Tick, Gate!GatewayTypeOK
  <1>5. CASE Gate!Logout \/ Gate!Signal
    BY <1>0, <1>2, <1>3, <1>5 DEF Gate!Logout, Gate!Signal, Gate!GatewayTypeOK
  <1>6. ASSUME NEW t \in Tuis, Gate!Asks(t) \/ Gate!TimesOut(t) \/ Gate!Opens(t) \/ Gate!Closes(t)
        PROVE  GateInv'
    BY <1>0, <1>2, <1>3, <1>6
    DEF Gate!Asks, Gate!TimesOut, Gate!Opens, Gate!Closes, Gate!GatewayTypeOK
  <1>7. CASE Gate!TtydExits \/ Gate!Stops
    BY <1>0, <1>2, <1>3, <1>7
    DEF Gate!TtydExits, Gate!Stops, Gate!StopsTtyd, Gate!GatewayTypeOK
  <1>8. ASSUME NEW q \in Logins, Gate!LoginBegins(q)
        PROVE  GateInv'
    <2>1. limiter' = Gate!Current /\ UNCHANGED <<now, session, connection, gateway>>
          /\ logins[q] = "none"
      BY <1>8 DEF Gate!LoginBegins
    <2>2. logins' \in [Logins -> {"none", "admitted"}]
      BY <1>0, <1>8 DEF Gate!LoginBegins
    <2>3. limiter' \in [started : Nat, failures : Nat] /\ limiter'.started \in 0..now
          /\ limiter'.failures <= limiter.failures /\ limiter'.failures \in Nat
      BY <2>1, CurrentWindow
    <2>4. Gate!GatewayTypeOK'
      BY <1>0, <2>1, <2>2, <2>3 DEF Gate!GatewayTypeOK
    <2>5. limiter'.failures + Cardinality(Gate!InFlight') < MaxFailed + Cardinality(Logins)
      <3>1. CASE Gate!Blocked(Gate!Current.failures)
        <4>1. Gate!InFlight' = Gate!InFlight
          BY <1>8, <3>1 DEF Gate!LoginBegins, Gate!InFlight
        <4>. QED
          BY <1>0, <1>1, <1>2, <2>3, <4>1
      <3>2. CASE ~Gate!Blocked(Gate!Current.failures)
        <4>1. limiter'.failures < MaxFailed
          BY <1>2, <2>1, <2>3, <3>2 DEF Gate!Blocked
        <4>2. Cardinality(Gate!InFlight') = flying + 1 /\ Cardinality(Gate!InFlight') <= Cardinality(Logins)
          BY <1>0, <1>8, <2>1, <3>2, InFlightMoves DEF Gate!LoginBegins
        <4>. QED
          BY <1>1, <1>2, <2>3, <4>1, <4>2
      <3>. QED
        BY <3>1, <3>2
    <2>. QED
      BY <2>3, <2>4, <2>5, SameCardinality DEF GateInv, FailuresBounded, Gate!FailuresBounded
  <1>9. ASSUME NEW q \in Logins, Gate!LoginFails(q) \/ Gate!LoginSucceeds(q)
        PROVE  GateInv'
    <2>1. logins[q] = "admitted" /\ logins' = [logins EXCEPT ![q] = "none"]
          /\ UNCHANGED <<now, connection, gateway>>
      BY <1>9 DEF Gate!LoginFails, Gate!LoginSucceeds
    <2>2. Cardinality(Gate!InFlight') = flying - 1
      BY <1>0, <2>1, InFlightMoves
    <2>3. limiter' \in [started : Nat, failures : Nat] /\ limiter'.started \in 0..now
          /\ limiter'.failures <= limiter.failures + 1 /\ limiter'.failures \in Nat
      BY <1>0, <1>2, <1>9, CurrentWindow DEF Gate!LoginFails, Gate!LoginSucceeds
    <2>4. session' \in 0..(MaxTime + Ttl)
      BY <1>0, <1>2, <1>9 DEF Gate!LoginFails, Gate!LoginSucceeds, Gate!GatewayTypeOK
    <2>5. Gate!GatewayTypeOK'
      BY <1>0, <2>1, <2>3, <2>4 DEF Gate!GatewayTypeOK
    <2>6. limiter'.failures + Cardinality(Gate!InFlight') < MaxFailed + Cardinality(Logins)
      BY <1>0, <1>1, <1>2, <2>2, <2>3
    <2>. QED
      BY <2>3, <2>5, <2>6, SameCardinality DEF GateInv, FailuresBounded, Gate!FailuresBounded
  <1>. QED
    BY <1>4, <1>5, <1>6, <1>7, <1>8, <1>9 DEF Gate!GatewayStep

------------------------------------------------------------------------------
\* Before the first request the inductive invariant holds.
THEOREM InitInv == Init => IInv
PROOF
  <1> SUFFICES ASSUME Init PROVE IInv
    OBVIOUS
  <1>1. Flow!Init /\ Gate!Init
    BY DEF Init
  <1>2. FlowInv
    <2>1. ScreenTypes
      BY <1>1, NumberFacts DEF Flow!Init, ScreenTypes, ScreenNames
    <2>2. LoginTypes
      BY <1>1, NumberFacts DEF Flow!Init, LoginTypes
    <2>3. Ownership /\ Screens
      BY <1>1 DEF Flow!Init, Ownership, Screens
    <2>. QED
      BY <2>1, <2>2, <2>3 DEF FlowInv
  <1>3. GateInv
    <2>1. Gate!GatewayTypeOK /\ limiter \in [started : Nat, failures : Nat]
      BY <1>1, TerminalSessionsAssumption DEF Gate!Init, Gate!GatewayTypeOK
    <2>2. Gate!InFlight = {}
      BY <1>1 DEF Gate!Init, Gate!InFlight
    <2>3. limiter.failures + Cardinality(Gate!InFlight) < MaxFailed + Cardinality(Logins)
      BY <1>1, <2>2, FS_EmptySet, InFlightFinite, TerminalSessionsAssumption DEF Gate!Init
    <2>. QED
      BY <2>1, <2>3, SameCardinality DEF GateInv, FailuresBounded, Gate!FailuresBounded
  <1>4. Lives
    BY <1>1 DEF Flow!Init, Gate!Init, Lives
  <1>. QED
    BY <1>2, <1>3, <1>4 DEF IInv

\* Every step keeps the inductive invariant.
THEOREM StepInv == IInv /\ [Next]_vars => IInv'
PROOF
  <1> SUFFICES ASSUME IInv, [Next]_vars PROVE IInv'
    OBVIOUS
  <1>0. FlowInv /\ GateInv /\ Lives /\ screen \in [Tuis -> ScreenNames]
        /\ connection \in [Tuis -> {"none", "asking", "open"}]
        /\ "off" \in ScreenNames /\ "accounts" \in ScreenNames
    BY DEF IInv, FlowInv, ScreenTypes, GateInv, Gate!GatewayTypeOK, ScreenNames
  <1>1. UNCHANGED loginVars => FlowInv' /\ UNCHANGED screen
    <2> SUFFICES ASSUME UNCHANGED loginVars PROVE FlowInv' /\ UNCHANGED screen
      OBVIOUS
    <2>0. UNCHANGED <<started, owner, screen, oauth, listener, inbox, browser, consented, spent,
                      saved, abandoned, leftOpen>>
      BY DEF loginVars
    <2>1. ScreenTypes' /\ LoginTypes'
      BY <1>0, <2>0 DEF FlowInv, ScreenTypes, LoginTypes
    <2>2. Ownership' /\ Screens'
      BY <1>0, <2>0 DEF FlowInv, Ownership, Screens
    <2>. QED
      BY <2>0, <2>1, <2>2 DEF FlowInv
  <1>2. UNCHANGED gatewayVars => GateInv' /\ UNCHANGED <<connection, gateway>>
    <2> SUFFICES ASSUME UNCHANGED gatewayVars PROVE GateInv' /\ UNCHANGED <<connection, gateway>>
      OBVIOUS
    <2>1. Gate!InFlight' = Gate!InFlight
      BY DEF gatewayVars, Gate!InFlight
    <2>. QED
      BY <1>0, <2>1, SameCardinality
      DEF gatewayVars, GateInv, Gate!GatewayTypeOK, FailuresBounded, Gate!FailuresBounded
  <1>3. ASSUME NEW t \in Tuis, Opens(t) PROVE IInv'
    <2>1. FlowInv' /\ GateInv'
      BY <1>0, <1>3, PlainStep, GateKeeps DEF Opens
    <2>2. screen' = [screen EXCEPT ![t] = "accounts"]
      BY <1>0, <1>3, OnAndOff DEF Opens
    <2>3. Lives'
      BY <1>0, <1>3, <2>2 DEF Opens, Gate!Opens, Lives
    <2>. QED
      BY <2>1, <2>3 DEF IInv
  <1>4. ASSUME NEW t \in Tuis, HangsUp(t) \/ Quits(t) PROVE IInv'
    <2>1. FlowInv' /\ GateInv'
      BY <1>0, <1>4, PlainStep, GateKeeps DEF HangsUp, Quits
    <2>2. screen' = [screen EXCEPT ![t] = "off"]
      BY <1>0, <1>4, OnAndOff DEF HangsUp, Quits
    <2>3. Lives'
      BY <1>0, <1>4, <2>2 DEF HangsUp, Quits, Gate!Closes, Lives
    <2>. QED
      BY <2>1, <2>3 DEF IInv
  <1>5. ASSUME NEW t \in Tuis, InterfaceRuns(t) PROVE IInv'
    <2>1. FlowInv' /\ GateInv' /\ UNCHANGED <<connection, gateway>>
      BY <1>0, <1>2, <1>5, InterfaceKeeps DEF InterfaceRuns
    <2>2. \A u \in Tuis : (screen'[u] = "off" <=> screen[u] = "off")
      BY <1>0, <1>5, OnAndOff DEF InterfaceRuns
    <2>3. Lives'
      BY <1>0, <2>1, <2>2 DEF Lives
    <2>. QED
      BY <2>1, <2>3 DEF IInv
  <1>6. CASE BrowserRuns
    BY <1>0, <1>2, <1>6, BrowserKeeps DEF BrowserRuns, IInv, Lives
  <1>7. CASE TtydExits \/ GatewayStops
    <2>1. FlowInv' /\ GateInv' /\ \A t \in Tuis : screen'[t] = "off"
      BY <1>0, <1>7, AllEndKeeps, GateKeeps DEF TtydExits, GatewayStops
    <2>2. \A t \in Tuis : connection'[t] = "none"
      BY <1>7 DEF TtydExits, GatewayStops, Gate!TtydExits, Gate!Stops, Gate!StopsTtyd
    <2>. QED
      BY <2>1, <2>2 DEF IInv, Lives
  <1>8. CASE GatewayRuns
    <2>1. FlowInv' /\ GateInv' /\ UNCHANGED screen
      BY <1>0, <1>1, <1>8, GateKeeps DEF GatewayRuns
    <2>2. \A t \in Tuis : (connection'[t] = "open" <=> connection[t] = "open")
      BY <1>0, <1>8
      DEF GatewayRuns, Gate!GatewayStep, Gate!Tick, Gate!Logout, Gate!Signal, Gate!LoginBegins,
          Gate!LoginFails, Gate!LoginSucceeds, Gate!Asks, Gate!TimesOut
    <2>3. gateway' = "over" => gateway = "over"
      BY <1>8
      DEF GatewayRuns, Gate!GatewayStep, Gate!Tick, Gate!Logout, Gate!Signal, Gate!LoginBegins,
          Gate!LoginFails, Gate!LoginSucceeds, Gate!Asks, Gate!TimesOut
    <2>. QED
      BY <1>0, <2>1, <2>2, <2>3 DEF IInv, Lives
  <1>9. CASE UNCHANGED vars
    BY <1>0, <1>1, <1>2, <1>9 DEF vars, IInv, Lives
  <1>. QED
    BY <1>3, <1>4, <1>5, <1>6, <1>7, <1>8, <1>9 DEF Next, Step

\* The inductive invariant holds in every reachable state.
THEOREM SpecInv == Spec => []IInv
PROOF
  BY InitInv, StepInv, PTL DEF Spec

\* An interface runs exactly as long as its websocket is open.
THEOREM RunsConnected == Spec => []RunsWhileConnected
PROOF
  <1>1. ASSUME IInv PROVE RunsWhileConnected
    <2>1. Flow!LoginTypeOK
      <3>0. ScreenTypes /\ LoginTypes /\ Screens
        BY <1>1 DEF IInv, FlowInv
      <3>1. \A t \in Tuis : listener[t] \in {0, oauth[t]} /\ inbox[t] \in Numbers
        BY <3>0 DEF ScreenTypes, Screens
      <3>2. consented \subseteq Flow!Authorizations /\ spent \subseteq consented
        BY <3>0, TerminalSessionsAssumption DEF LoginTypes, Numbers, Flow!Authorizations
      <3>. QED
        BY <3>0, <3>1, <3>2
        DEF ScreenTypes, ScreenNames, LoginTypes, Numbers, Flow!LoginTypeOK
    <2>. QED
      BY <1>1, <2>1 DEF IInv, GateInv, Lives, RunsWhileConnected, TypeOK
  <1>. QED
    BY SpecInv, <1>1, PTL

\* An account is saved only by the interface that asked, whatever answer arrives where.
THEOREM SavedOwn == Spec => []SavedFromOwnLogin
PROOF
  <1>1. IInv => SavedFromOwnLogin
    BY DEF IInv, FlowInv, Ownership, SavedFromOwnLogin, Flow!SavedFromOwnLogin
  <1>. QED
    BY SpecInv, <1>1, PTL

\* A callback port is held only by the authorization on the screen, and an owned browser
\* ends with its login, but for the quit dialogue (tui/app/poll.rs, authorization.rs).
THEOREM LoginCleansUp == Spec => []EndsWithLogin
PROOF
  <1>1. IInv => EndsWithLogin
    BY DEF IInv, FlowInv, Screens, EndsWithLogin, Flow!PortFollowsScreen, Flow!BrowserEndsWithLogin
  <1>. QED
    BY SpecInv, <1>1, PTL

\* A window's failures exceed the limit by less than the requests that may be in flight.
THEOREM FailuresLimited == Spec => []FailuresBounded
PROOF
  <1>1. IInv => FailuresBounded
    BY DEF IInv, GateInv
  <1>. QED
    BY SpecInv, <1>1, PTL
================================================================================
