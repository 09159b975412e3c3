------------------------------ MODULE ReadAssembly ------------------------------
(****************************************************************************)
(* read_emails (broker/handlers/bulk_emails.rs): messages are read a window *)
(* at a time, the threads of a window in parallel, and their bodies put in  *)
(* the answer in the order of the request (gmail/bulk/budget.rs).  The      *)
(* answer starts with a placeholder for every message and must never be     *)
(* larger than its budget; after the first body that does not fit no        *)
(* further window is read.                                                  *)
(****************************************************************************)
EXTENDS Integers, FiniteSets

CONSTANTS
    N,         \* messages a request names
    Window,    \* messages read at once; 4 in the code
    Bodies,    \* the encoded sizes a message may have
    Budget     \* MAX_BULK_RESULT_BYTES

VARIABLES
    body,      \* Gmail: the size of each message
    next,      \* the place of the answer that is filled next; its window is being read
    phase,     \* where the thread of each message is
    attempt,   \* which token it uses: 1 the cached one, 2 the refreshed one
    fatal,     \* a credential failure has stopped this window
    result,    \* what reading each message gave
    outcome,   \* the answer under assembly
    exhausted, \* a body did not fit
    over,      \* the answer is sent
    fetched    \* history: messages whose body was read

vars == <<body, next, phase, attempt, fatal, result, outcome, exhausted, over, fetched>>

Positions == 1..N
WindowOf(i) == (i - 1) \div Window
InWindow == {i \in Positions : WindowOf(i) = WindowOf(next)}
Phases == {"queued", "token", "read", "done"}
Results == {"none", "body", "failed", "credential", "skipped"}
Outcomes == (Results \ {"none"}) \cup {"placeholder", "refused"}

\* budget_outcome: "failed" is a shorter word than "not_attempted".  What a credential
\* failure says may be longer than the placeholder.
Size(o, i) ==
    CASE o = "body" -> body[i]
      [] o = "placeholder" -> 2
      [] o = "credential" -> 3
      [] OTHER -> 1

\* The units of the encoded answer, numbered within each place.
Units(out) == UNION {{i} \X (1..Size(out[i], i)) : i \in Positions}
Total(out) == Cardinality(Units(out))

\* ReadAssembly::new.
Init ==
    /\ body \in [Positions -> Bodies]
    /\ next = 1
    /\ phase = [i \in Positions |-> "queued"]
    /\ attempt = [i \in Positions |-> 1]
    /\ fatal = FALSE
    /\ result = [i \in Positions |-> "none"]
    /\ outcome = [i \in Positions |-> "placeholder"]
    /\ exhausted = FALSE
    /\ over = FALSE
    /\ fetched = {}

Settle(i, r) ==
    /\ phase' = [phase EXCEPT ![i] = "done"]
    /\ result' = [result EXCEPT ![i] = r]
    /\ UNCHANGED attempt

Go(i, p) ==
    /\ phase' = [phase EXCEPT ![i] = p]
    /\ UNCHANGED <<attempt, result>>

\* run_items is called for each window, with a flag of its own.
Start(i) ==
    /\ ~over /\ i \in InWindow /\ phase[i] = "queued"
    /\ IF fatal THEN Settle(i, "skipped") ELSE Go(i, "token")
    /\ UNCHANGED <<body, next, fatal, outcome, exhausted, over, fetched>>

Token(i) ==
    /\ phase[i] = "token"
    /\ Go(i, "read") \/ Settle(i, "credential")
    /\ fatal' = (fatal \/ result'[i] = "credential")
    /\ UNCHANGED <<body, next, outcome, exhausted, over, fetched>>

\* read_email_exact.
Read(i) ==
    /\ phase[i] = "read"
    /\ \/ Settle(i, "body") /\ fetched' = fetched \cup {i}
       \/ Settle(i, "failed") /\ UNCHANGED fetched
       \/ /\ attempt[i] = 1
          /\ phase' = [phase EXCEPT ![i] = "token"]
          /\ attempt' = [attempt EXCEPT ![i] = 2]
          /\ UNCHANGED <<result, fetched>>
    /\ UNCHANGED <<body, next, fatal, outcome, exhausted, over>>

\* What does not fit is taken out again.
InsertAt(at, r) ==
    LET new == [outcome EXCEPT ![at] = r]
    IN  IF Total(new) <= Budget
        THEN outcome' = new /\ UNCHANGED exhausted
        ELSE outcome' = [outcome EXCEPT ![at] = "refused"] /\ exhausted' = TRUE

\* Mutant: an index counts from the start of its window.
InsertInWindow(i) == InsertAt(((i - 1) % Window) + 1, result[i])

\* ReadAssembly::insert.
Insert(i) == InsertAt(i, result[i])

\* When every thread of the window has joined, its results are inserted in their order,
\* after one that did not fit too.  Then comes the next window, if there is one and
\* everything has fitted.
Fill ==
    /\ ~over
    /\ \A i \in InWindow : phase[i] = "done"
    /\ Insert(next)
    /\ IF next < N /\ next + 1 \in InWindow
       THEN next' = next + 1 /\ UNCHANGED <<fatal, over>>
       ELSE /\ over' = (exhausted' \/ next = N)
            /\ next' = IF over' THEN next ELSE next + 1
            /\ fatal' = FALSE
    /\ UNCHANGED <<body, phase, attempt, result, fetched>>

RequestStep == Fill \/ \E i \in Positions : Start(i) \/ Token(i) \/ Read(i)

Next == RequestStep

Spec == Init /\ [][Next]_vars

------------------------------------------------------------------------------
(* Properties.                                                              *)

TypeOK ==
    /\ body \in [Positions -> Bodies]
    /\ next \in Positions
    /\ phase \in [Positions -> Phases]
    /\ attempt \in [Positions -> 1..2]
    /\ fatal \in BOOLEAN
    /\ result \in [Positions -> Results]
    /\ outcome \in [Positions -> Outcomes]
    /\ exhausted \in BOOLEAN
    /\ over \in BOOLEAN
    /\ fetched \subseteq Positions

\* The answer fits its budget, with a body, a failure or a placeholder in every place.
WithinBudget == Total(outcome) <= Budget

\* Each place of the answer tells of its own message: a body was read for it; only what
\* did not fit is refused; and after the window of one that did not fit nothing was
\* read, or will be, while before it nothing is left out.
PlacesTruthful ==
    over => \A i \in Positions :
        /\ outcome[i] = "body" => i \in fetched
        /\ outcome[i] = "placeholder"
              => i \notin fetched /\ phase[i] = "queued"
        /\ outcome[i] = "placeholder"
              <=> \E j \in Positions :
                     outcome[j] = "refused" /\ WindowOf(j) < WindowOf(i)
        /\ outcome[i] = "refused" => result[i] \in {"body", "credential"}
        /\ i \in fetched => outcome[i] \in {"body", "refused"}

Ended == over
================================================================================
