--------------------------- MODULE OneShotAuthority ----------------------------
(****************************************************************************)
(* What marking promises, with no map, no clock and no limit: an authority  *)
(* is granted once, executed at most once, and never together with one that *)
(* clashes with it, granted or executing, at any moment.                    *)
(****************************************************************************)
CONSTANTS
    Ids,           \* names of authorities
    Clash(_, _)    \* do two authorities concern the same resource?

VARIABLES
    about,      \* what each authority granted so far is about
    granted,    \* granted and not yet begun
    executing   \* begun and not yet ended

vars == <<about, granted, executing>>

Init ==
    /\ about = [i \in {} |-> {}]
    /\ granted = {}
    /\ executing = {}

\* A grant names fresh authorities that clash neither with each other nor with an
\* executing one; what it clashes with lapses, and so may anything else granted.
Grant ==
    \E new \in SUBSET (Ids \ DOMAIN about) :
        /\ DOMAIN about' = DOMAIN about \cup new
        /\ \A i \in DOMAIN about : about'[i] = about[i]
        /\ \A i, j \in new : i # j => ~Clash(about'[i], about'[j])
        /\ \A i \in new : \A j \in executing \cup (granted' \ new) :
              ~Clash(about'[i], about[j])
        /\ new \subseteq granted'
        /\ granted' \subseteq granted \cup new
        /\ UNCHANGED executing

Lapse ==
    /\ granted' \subseteq granted
    /\ UNCHANGED <<about, executing>>

Begin ==
    \E chosen \in SUBSET granted :
        /\ granted' = granted \ chosen
        /\ executing' = executing \cup chosen
        /\ UNCHANGED about

End ==
    /\ executing' \subseteq executing
    /\ granted' = granted
    /\ UNCHANGED about

\* The process restarts: every authority is lost.
Forget ==
    /\ granted' = {}
    /\ executing' = {}
    /\ UNCHANGED about

Next == Grant \/ Lapse \/ Begin \/ End \/ Forget

Spec == Init /\ [][Next]_vars
================================================================================
