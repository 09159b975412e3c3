--------------------------- MODULE ProviderExecutor ----------------------------
(****************************************************************************)
(* How the broker runs many provider calls at once: bounded_map's scoped    *)
(* worker threads (gmail/concurrency.rs), the credential flag run_items     *)
(* shares between them (handlers/bulk.rs), and the process-wide ProviderGate *)
(* every request of every batch passes.  The gate is a counter under a      *)
(* mutex with a condition variable; std's wait may wake spuriously, and a   *)
(* thread that has just arrived may take the permit a woken one was told of. *)
(****************************************************************************)
EXTENDS Integers, FiniteSets

CONSTANTS
    Batches,      \* bulk requests being served
    Items,        \* inputs of each
    MaxWorkers,   \* 4
    Limit         \* 8: provider requests at a time

ASSUME ExecutorAssumption ==
    IsFiniteSet(Batches) /\ Items \in Nat /\ MaxWorkers \in Nat \ {0} /\ Limit \in Nat \ {0}

VARIABLES
    next,     \* bounded_map's AtomicUsize, per batch
    results,  \* bounded_map's slots, per batch
    fatal,    \* run_items' AtomicBool, per batch
    at,       \* where each worker thread is
    index,    \* the input it took
    active    \* ProviderGate.active

vars == <<next, results, fatal, at, index, active>>

Inputs == 0..Items - 1
Threads == Batches \X {n \in 1..MaxWorkers : n <= Items}
Places == {"fetch", "flag", "call", "waiting", "woken", "running", "store", "exit"}
Outcomes == {"attempted", "stopped", "not_attempted"}

Init ==
    /\ next = [b \in Batches |-> 0]
    /\ results = [b \in Batches |-> [i \in Inputs |-> "none"]]
    /\ fatal = [b \in Batches |-> FALSE]
    /\ at = [t \in Threads |-> "fetch"]
    /\ index = [t \in Threads |-> 0]
    /\ active = 0

Goes(t, place) == at' = [at EXCEPT ![t] = place]
ThreadsAt(place) == {t \in Threads : at[t] = place}

\* Mutant: the counter is read and advanced in two steps.
FetchStuck(t) ==
    /\ at[t] = "fetch"
    /\ index' = [index EXCEPT ![t] = next[t[1]]]
    /\ next' = [next EXCEPT ![t[1]] = IF @ = 0 /\ t[2] > 1 THEN @ ELSE @ + 1]
    /\ Goes(t, IF next[t[1]] \in Inputs THEN "flag" ELSE "exit")
    /\ UNCHANGED <<results, fatal, active>>

\* let index = next.fetch_add(1); the thread ends when there is no such input.
Fetch(t) ==
    /\ at[t] = "fetch"
    /\ index' = [index EXCEPT ![t] = next[t[1]]]
    /\ next' = [next EXCEPT ![t[1]] = @ + 1]
    /\ Goes(t, IF next[t[1]] \in Inputs THEN "flag" ELSE "exit")
    /\ UNCHANGED <<results, fatal, active>>

Slot(t, outcome) ==
    /\ results' = [results EXCEPT ![t[1]][index[t]] = outcome]
    /\ Goes(t, "fetch")

\* Mutant: one flag for all batches.
StoppedAnywhere(t) == \E b \in Batches : fatal[b]
\* fatal.load(Ordering::Acquire)
Stopped(t) == fatal[t[1]]

CheckFlag(t) ==
    /\ at[t] = "flag"
    /\ IF Stopped(t) THEN Slot(t, "not_attempted") ELSE Goes(t, "call") /\ UNCHANGED results
    /\ UNCHANGED <<next, fatal, index, active>>

\* Mutant: `if` instead of `while` around the wait.
EnterUnchecked(t) ==
    /\ at[t] \in {"call", "woken"}
    /\ IF at[t] = "call" /\ active >= Limit
       THEN Goes(t, "waiting") /\ UNCHANGED active
       ELSE Goes(t, "running") /\ active' = active + 1
    /\ UNCHANGED <<next, results, fatal, index>>

\* ProviderGate::acquire, from the lock to the wait or to the permit.
Enter(t) ==
    /\ at[t] \in {"call", "woken"}
    /\ IF active >= Limit
       THEN Goes(t, "waiting") /\ UNCHANGED active
       ELSE Goes(t, "running") /\ active' = active + 1
    /\ UNCHANGED <<next, results, fatal, index>>

Spurious(t) ==
    /\ at[t] = "waiting"
    /\ Goes(t, "woken")
    /\ UNCHANGED <<next, results, fatal, index, active>>

\* Mutant: notify only when the gate was full.
LeaveQuietly(t) ==
    /\ at[t] = "running"
    /\ active' = active - 1
    /\ IF ThreadsAt("waiting") = {} \/ active < Limit
       THEN Goes(t, "store")
       ELSE \E w \in ThreadsAt("waiting") : at' = [at EXCEPT ![t] = "store", ![w] = "woken"]
    /\ UNCHANGED <<next, results, fatal, index>>

\* Permit::drop: once the response is read, or the request failed; notify_one wakes
\* some waiting thread, if there is one.
Leave(t) ==
    /\ at[t] = "running"
    /\ active' = active - 1
    /\ IF ThreadsAt("waiting") = {}
       THEN Goes(t, "store")
       ELSE \E w \in ThreadsAt("waiting") : at' = [at EXCEPT ![t] = "store", ![w] = "woken"]
    /\ UNCHANGED <<next, results, fatal, index>>

\* The item's outcome; a credential failure raises the flag first.
Store(t) ==
    /\ at[t] = "store"
    /\ \/ Slot(t, "attempted") /\ UNCHANGED fatal
       \/ Slot(t, "stopped") /\ fatal' = [fatal EXCEPT ![t[1]] = TRUE]
    /\ UNCHANGED <<next, index, active>>

Step(t) ==
    \/ Fetch(t)
    \/ CheckFlag(t)
    \/ Enter(t)
    \/ Leave(t)
    \/ Store(t)

Next == \E t \in Threads : Step(t) \/ Spurious(t)

\* Threads keep running and a provider request ends within its timeout.  Nothing
\* makes a waiting thread run but a notification: Spurious carries no fairness.
Fairness == \A t \in Threads : WF_vars(Step(t))

Spec == Init /\ [][Next]_vars
FairSpec == Spec /\ Fairness

------------------------------------------------------------------------------
Joined(b) == \A t \in Threads : t[1] = b => at[t] = "exit"

TypeOK ==
    /\ next \in [Batches -> Nat]
    /\ results \in [Batches -> [Inputs -> Outcomes \cup {"none"}]]
    /\ fatal \in [Batches -> BOOLEAN]
    /\ at \in [Threads -> Places]
    /\ index \in [Threads -> Nat]
    /\ active \in 0..Limit

\* The gate counts exactly the requests on the wire, so it never lets more than its
\* limit through and never leaks a permit.
GateCountsRequests ==
    /\ TypeOK
    /\ active = Cardinality(ThreadsAt("running")) /\ active <= Limit

\* No permit is free while a thread sleeps that nobody told: threads already woken
\* can account for every free permit.
NoLostWakeup ==
    ThreadsAt("waiting") # {} => active + Cardinality(ThreadsAt("woken")) >= Limit

\* Every input of a joined batch has run, and none twice: a repeated input would repeat
\* a write at Gmail, a missing one is "worker completed without a result"
\* (gmail/concurrency.rs:52).
InputsRunOnce ==
    /\ \A t, u \in Threads :
          /\ t # u /\ t[1] = u[1]
          /\ {at[t], at[u]} \cap {"fetch", "exit"} = {}
          => index[t] # index[u]
    /\ \A t \in Threads :
          at[t] \notin {"fetch", "exit"} => results[t[1]][index[t]] = "none"
    /\ \A b \in Batches : Joined(b) => \A i \in Inputs : results[b][i] # "none"

\* An input is skipped only because an input of the same batch met a credential
\* failure, and that one reports it.
SkippedForACause ==
    \A b \in Batches : \A i \in Inputs :
        results[b][i] = "not_attempted" => \E j \in Inputs : results[b][j] = "stopped"

\* Every batch is served to its end, whatever the others do with the gate.
EveryBatchEnds == \A b \in Batches : <>Joined(b)
================================================================================
