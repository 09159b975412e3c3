------------------------------- MODULE LoginFlow -------------------------------
(****************************************************************************)
(* Logging in from the terminal interface: the screens of tui/runtime.rs and *)
(* tui/app, the callback listener of callback/listener.rs and the state and *)
(* verifier that auth/oauth.rs uses once.  An authorization is a number: its *)
(* URL, state and verifier.  The user's browsers may bring any answer of    *)
(* Google, late or twice, to whichever listener is behind the redirect URI. *)
(* What a completed exchange does to the account is CredentialLifecycle's.  *)
(****************************************************************************)
EXTENDS Integers

CONSTANTS
    Tuis,               \* terminal interface processes
    Nobody,
    MaxAuthorizations   \* bound on the authorizations started

VARIABLES
    fixed,      \* ARQEN_OAUTH_CALLBACK_PORT is set: all interfaces name one port
    started,    \* authorizations started so far
    owner,      \* which interface started each
    screen,     \* App.screen of each interface, "off" before it starts and after it ends
    oauth,      \* the authorization its screen holds, 0 without one
    listener,   \* its callback server: the authorization it serves, 0 without one
    inbox,      \* the callback its listener's thread has received, 0 without one
    browser,    \* App.browser: it owns a browser process
    consented,  \* Google: the authorizations it has an answer for
    spent,      \* Google: the codes that were exchanged
    saved,      \* history: the interface that saved an account for an authorization
    abandoned,  \* history: authorizations whose screen was left or whose process ended
    leftOpen    \* history: the interfaces whose authorization gave way to the quit dialogue

loginVars == <<fixed, started, owner, screen, oauth, listener, inbox, browser,
               consented, spent, saved, abandoned, leftOpen>>
google == <<consented, spent>>

Authorizations == 1..MaxAuthorizations

Init ==
    /\ fixed \in BOOLEAN
    /\ started = 0
    /\ owner = [a \in Authorizations |-> Nobody]
    /\ screen = [t \in Tuis |-> "off"]
    /\ oauth = [t \in Tuis |-> 0]
    /\ listener = [t \in Tuis |-> 0]
    /\ inbox = [t \in Tuis |-> 0]
    /\ browser = [t \in Tuis |-> FALSE]
    /\ consented = {}
    /\ spent = {}
    /\ saved = [a \in Authorizations |-> Nobody]
    /\ abandoned = {}
    /\ leftOpen = {}

\* App.screen is replaced: what the old screen held is dropped, and dropping a callback
\* server joins its thread and frees the port.
Shows(t, s) ==
    /\ screen' = [screen EXCEPT ![t] = s]
    /\ oauth' = [oauth EXCEPT ![t] = 0]
    /\ listener' = [listener EXCEPT ![t] = 0]
    /\ inbox' = [inbox EXCEPT ![t] = 0]

StopsBrowser(t) == browser' = [browser EXCEPT ![t] = FALSE]
Abandons(t) == abandoned' = abandoned \cup ({oauth[t]} \ {0})

\* run: the process starts.
Begin(t) ==
    /\ screen[t] = "off"
    /\ Shows(t, "accounts")
    /\ StopsBrowser(t)
    /\ leftOpen' = leftOpen \ {t}
    /\ UNCHANGED <<fixed, started, owner, google, saved, abandoned>>

------------------------------------------------------------------------------
(* The authorization screen.                                                *)

PortFree == \A t \in Tuis : listener[t] = 0 \/ inbox[t] # 0

\* start_login.  A set port that is taken is an error; without one the listener gets
\* a port of its own, or the user will paste the redirect.  The client secret may be
\* unreadable, after the port was taken.
StartLogin(t) ==
    /\ screen[t] = "accounts"
    /\ StopsBrowser(t)
    /\ leftOpen' = leftOpen \ {t}
    /\ \/ /\ Shows(t, "error")
          /\ UNCHANGED <<started, owner>>
       \/ /\ started < MaxAuthorizations
          /\ fixed => PortFree
          /\ started' = started + 1
          /\ owner' = [owner EXCEPT ![started'] = t]
          /\ screen' = [screen EXCEPT ![t] = "authorization"]
          /\ oauth' = [oauth EXCEPT ![t] = started']
          /\ \E served \in {started'} \cup (IF fixed THEN {} ELSE {0}) :
                listener' = [listener EXCEPT ![t] = served]
          /\ UNCHANGED inbox
    /\ UNCHANGED <<fixed, google, saved, abandoned>>

\* 'o': an owned browser, or the user's own.  The error screen stands for no browser at
\* all, and for the clipboard's failure after 'c'.
OpenBrowser(t) ==
    /\ screen[t] = "authorization"
    /\ \/ /\ \E owned \in BOOLEAN : browser' = [browser EXCEPT ![t] = owned]
          /\ UNCHANGED <<screen, oauth, listener, inbox, abandoned>>
       \/ Shows(t, "error") /\ StopsBrowser(t) /\ Abandons(t)
    /\ UNCHANGED <<fixed, started, owner, google, saved, leftOpen>>

\* Enter, without a callback server.
ToRedirect(t) ==
    /\ screen[t] = "authorization"
    /\ listener[t] = 0
    /\ screen' = [screen EXCEPT ![t] = "redirect"]
    /\ UNCHANGED <<fixed, started, owner, oauth, listener, inbox, browser, google, saved,
                   abandoned, leftOpen>>

\* Mutant: the browser is left to the user.
CancelKeeping(t) ==
    /\ screen[t] \in {"authorization", "redirect"}
    /\ Shows(t, "accounts")
    /\ Abandons(t)
    /\ UNCHANGED <<fixed, started, owner, browser, google, saved, leftOpen>>

\* Esc.
Cancel(t) ==
    /\ screen[t] \in {"authorization", "redirect"}
    /\ Shows(t, "accounts")
    /\ StopsBrowser(t)
    /\ Abandons(t)
    /\ UNCHANGED <<fixed, started, owner, google, saved, leftOpen>>

------------------------------------------------------------------------------
(* The answer.                                                              *)

\* Google answers an authorization, and sends the browser to the redirect URI.
Consent(a) ==
    /\ a <= started
    /\ a \notin consented
    /\ consented' = consented \cup {a}
    /\ UNCHANGED <<fixed, started, owner, screen, oauth, listener, inbox, browser, spent,
                   saved, abandoned, leftOpen>>

\* The redirect URI of a names the set port, or the port of the listener started for it.
Reaches(a, t) == listener[t] # 0 /\ inbox[t] = 0 /\ (fixed \/ listener[t] = a)

\* callback_thread: the first callback ends it, whatever state it carries.
Deliver(a, t) ==
    /\ a \in consented
    /\ Reaches(a, t)
    /\ inbox' = [inbox EXCEPT ![t] = a]
    /\ UNCHANGED <<fixed, started, owner, screen, oauth, listener, browser, google, saved,
                   abandoned, leftOpen>>

\* Mutant: the state in the answer is not compared.
AnyState(mine, a) == mine # 0

\* GoogleOAuth::finish: "OAuth state mismatch".
StateMatches(mine, a) == mine = a

\* finish_login: the state, the exchange of a code that is good once, the checks on
\* scope and account, which may fail; then the account is saved and listed.
Finish(t, a) ==
    /\ leftOpen' = leftOpen \ {t}
    /\ StopsBrowser(t)
    /\ IF StateMatches(oauth[t], a) /\ a \notin spent
       THEN /\ spent' = spent \cup {a}
            /\ \/ Shows(t, "accounts") /\ saved' = [saved EXCEPT ![a] = t]
               \/ Shows(t, "error") /\ UNCHANGED saved
       ELSE Shows(t, "error") /\ UNCHANGED <<spent, saved>>
    /\ UNCHANGED <<fixed, started, owner, consented, abandoned>>

\* Mutant: no poll while an owned browser runs.
PollUnlessBrowser(t) ==
    /\ screen[t] = "authorization"
    /\ inbox[t] # 0
    /\ ~browser[t]
    /\ Finish(t, inbox[t])

\* poll_callback, once in every turn of the loop.
Poll(t) ==
    /\ screen[t] = "authorization"
    /\ inbox[t] # 0
    /\ Finish(t, inbox[t])

\* The listener ends without a callback: its thread's own error, or its channel is closed.
PollFails(t) ==
    /\ screen[t] = "authorization"
    /\ listener[t] # 0 /\ inbox[t] = 0
    /\ Shows(t, "error")
    /\ StopsBrowser(t)
    /\ Abandons(t)
    /\ UNCHANGED <<fixed, started, owner, google, saved, leftOpen>>

\* The redirect screen's Enter: any answer the user can copy, or none that parses.
Paste(t) ==
    /\ screen[t] = "redirect"
    /\ \E a \in consented \cup {0} :
          IF a = 0 THEN /\ Shows(t, "error")
                        /\ StopsBrowser(t)
                        /\ UNCHANGED <<fixed, started, owner, google, saved, abandoned, leftOpen>>
          ELSE Finish(t, a)

------------------------------------------------------------------------------
(* Leaving.                                                                 *)

\* Mutant: the quit dialogue covers the authorization without dropping it.
AskQuitOver(t) ==
    /\ screen[t] \in {"accounts", "authorization", "redirect", "error"}
    /\ screen' = [screen EXCEPT ![t] = "confirm quit"]
    /\ Abandons(t)
    /\ leftOpen' = IF oauth[t] # 0 THEN leftOpen \cup {t} ELSE leftOpen
    /\ UNCHANGED <<fixed, started, owner, oauth, listener, inbox, browser, google, saved>>

\* Ctrl-C anywhere, q or Esc on the account list: the dialogue replaces the screen, but
\* nothing stops the browser.
AskQuit(t) ==
    /\ screen[t] \in {"accounts", "authorization", "redirect", "error"}
    /\ Shows(t, "confirm quit")
    /\ Abandons(t)
    /\ leftOpen' = IF oauth[t] # 0 THEN leftOpen \cup {t} ELSE leftOpen
    /\ UNCHANGED <<fixed, started, owner, browser, google, saved>>

\* The quit dialogue's no, the error dialogue's close.
Back(t) ==
    /\ screen[t] \in {"confirm quit", "error"}
    /\ Shows(t, "accounts")
    /\ UNCHANGED <<fixed, started, owner, browser, google, saved, abandoned, leftOpen>>

\* Yes: App is dropped, its browser with it.
Quit(t) ==
    /\ screen[t] = "confirm quit"
    /\ Shows(t, "off")
    /\ StopsBrowser(t)
    /\ UNCHANGED <<fixed, started, owner, google, saved, abandoned, leftOpen>>

\* The terminal hangs up: the process ends, its socket with it; nothing stops the browser.
End(t) ==
    /\ Shows(t, "off")
    /\ Abandons(t)
    /\ UNCHANGED <<fixed, started, owner, browser, google, saved, leftOpen>>

InterfaceStep(t) ==
    StartLogin(t) \/ OpenBrowser(t) \/ ToRedirect(t) \/ Cancel(t) \/ Poll(t) \/ PollFails(t)
    \/ Paste(t) \/ AskQuit(t) \/ Back(t)

BrowserStep == \E a \in Authorizations : Consent(a) \/ \E t \in Tuis : Deliver(a, t)

------------------------------------------------------------------------------
LoginTypeOK ==
    /\ started \in 0..MaxAuthorizations
    /\ screen \in [Tuis -> {"off", "accounts", "authorization", "redirect", "error",
                            "confirm quit"}]
    /\ oauth \in [Tuis -> 0..MaxAuthorizations]
    /\ \A t \in Tuis : listener[t] \in {0, oauth[t]} /\ inbox[t] \in 0..MaxAuthorizations
    /\ consented \subseteq Authorizations /\ spent \subseteq consented

\* An account is saved only by the interface that started the authorization, while its
\* user had not cancelled it, whichever late, repeated or foreign answer reaches a
\* listener on the shared port or is pasted.
SavedFromOwnLogin ==
    \A a \in Authorizations :
        saved[a] # Nobody => saved[a] = owner[a] /\ a \notin abandoned

\* A callback port is held only while the authorization it serves is on the screen, so
\* a login that was cancelled or has ended never keeps another from starting.
PortFollowsScreen ==
    \A t \in Tuis : listener[t] # 0 => screen[t] = "authorization" /\ oauth[t] = listener[t]

\* A browser the interface owns does not outlive its login, except where the quit
\* dialogue replaced the authorization and the user then stayed.
BrowserEndsWithLogin ==
    \A t \in Tuis :
        browser[t] /\ screen[t] \in {"accounts", "error", "confirm quit"} => t \in leftOpen
================================================================================
