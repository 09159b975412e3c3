----------------------------- MODULE ExecutorProofs -----------------------------
(****************************************************************************)
(* Proofs about the bounded executor and the provider gate, for any number  *)
(* of batches, of inputs, of workers and any limit.                         *)
(****************************************************************************)
EXTENDS ProviderExecutor, TLAPS, FiniteSetTheorems

\* A worker between taking an input and storing its outcome.
Busy(t) == at[t] \notin {"fetch", "exit"}

\* A busy worker has an input of its own, whose slot is empty.
Claimed ==
    \A t \in Threads : Busy(t) =>
        /\ index[t] \in Inputs
        /\ index[t] < next[t[1]]
        /\ results[t[1]][index[t]] = "none"
        /\ \A u \in Threads : u # t /\ u[1] = t[1] /\ Busy(u) => index[u] # index[t]

\* An empty slot is not taken yet, or a worker is at it.
Accounted ==
    \A b \in Batches : \A i \in Inputs : results[b][i] = "none" =>
        next[b] <= i \/ \E t \in Threads : t[1] = b /\ Busy(t) /\ index[t] = i

Untaken == \A b \in Batches : \A i \in Inputs : next[b] <= i => results[b][i] = "none"

ExitAtEnd == \A t \in Threads : at[t] = "exit" => next[t[1]] >= Items

FlagHasCause ==
    \A b \in Batches : fatal[b] => \E j \in Inputs : results[b][j] = "stopped"

\* The inductive invariant: the gate's part and the batches' part.
GateInv == GateCountsRequests /\ NoLostWakeup
BatchInv == Claimed /\ Accounted /\ Untaken /\ ExitAtEnd /\ FlagHasCause /\ SkippedForACause
IInv == GateInv /\ BatchInv

\* A thread is one of the finitely many workers of a batch; the first runs whenever
\* there is an input.
LEMMA Workers ==
    /\ IsFiniteSet(Threads)
    /\ \A t \in Threads : t[1] \in Batches
    /\ \A b \in Batches : Items > 0 => \E t \in Threads : t[1] = b
PROOF
  <1> DEFINE W == {n \in 1..MaxWorkers : n <= Items}
  <1>1. IsFiniteSet(W)
    <2>1. W \in SUBSET (1..MaxWorkers)
      OBVIOUS
    <2>. QED
      BY <2>1, FS_Interval, FS_Subset, ExecutorAssumption
  <1>2. Threads = Batches \X W
    BY DEF Threads
  <1>3. IsFiniteSet(Threads)
    BY <1>1, <1>2, FS_Product, ExecutorAssumption
  <1>4. ASSUME Items > 0, NEW b \in Batches
        PROVE  \E t \in Threads : t[1] = b
    <2>1. <<b, 1>> \in Threads
      BY <1>2, <1>4, ExecutorAssumption
    <2>. QED
      BY <2>1
  <1>. QED
    BY <1>2, <1>3, <1>4

\* The threads at one place are finitely many.
LEMMA PlaceFinite ==
    ASSUME NEW p
    PROVE  IsFiniteSet(ThreadsAt(p)) /\ Cardinality(ThreadsAt(p)) \in Nat
PROOF
  <1>1. ThreadsAt(p) \in SUBSET Threads
    BY DEF ThreadsAt
  <1>. QED
    BY <1>1, Workers, FS_Subset, FS_CardinalityType

\* What one thread's move does to the number of threads at a place.
LEMMA MoveCounts ==
    ASSUME NEW t \in Threads, NEW q, NEW p, at \in [Threads -> Places], q \in Places, Goes(t, q)
    PROVE  /\ p = q /\ at[t] # p =>
                 Cardinality(ThreadsAt(p)') = Cardinality(ThreadsAt(p)) + 1
           /\ p # q /\ at[t] = p =>
                 Cardinality(ThreadsAt(p)') = Cardinality(ThreadsAt(p)) - 1
           /\ p # q /\ at[t] # p => ThreadsAt(p)' = ThreadsAt(p)
           /\ p = q /\ at[t] = p => ThreadsAt(p)' = ThreadsAt(p)
PROOF
  <1>1. p = q => ThreadsAt(p)' = ThreadsAt(p) \cup {t}
    BY DEF ThreadsAt, Goes
  <1>2. p # q => ThreadsAt(p)' = ThreadsAt(p) \ {t}
    BY DEF ThreadsAt, Goes
  <1>3. t \in ThreadsAt(p) <=> at[t] = p
    BY DEF ThreadsAt
  <1>4. IsFiniteSet(ThreadsAt(p))
    BY PlaceFinite
  <1>5. Cardinality(ThreadsAt(p) \cup {t}) =
           IF t \in ThreadsAt(p) THEN Cardinality(ThreadsAt(p)) ELSE Cardinality(ThreadsAt(p)) + 1
    BY <1>4, FS_AddElement
  <1>6. Cardinality(ThreadsAt(p) \ {t}) =
           IF t \in ThreadsAt(p) THEN Cardinality(ThreadsAt(p)) - 1 ELSE Cardinality(ThreadsAt(p))
    BY <1>4, FS_RemoveElement
  <1>. QED
    BY <1>1, <1>2, <1>3, <1>5, <1>6

\* What storing an outcome does to the slots.
LEMMA SlotEffect ==
    ASSUME TypeOK, NEW t \in Threads, NEW o \in Outcomes, Slot(t, o)
    PROVE  /\ results' \in [Batches -> [Inputs -> Outcomes \cup {"none"}]]
           /\ at' = [at EXCEPT ![t] = "fetch"] /\ at' \in [Threads -> Places]
           /\ \A b \in Batches : \A i \in Inputs :
                 results'[b][i] = IF b = t[1] /\ i = index[t] THEN o ELSE results[b][i]
PROOF
  <1> DEFINE row == [results[t[1]] EXCEPT ![index[t]] = o]
  <1>1. t[1] \in Batches
    BY Workers
  <1>2. results' = [results EXCEPT ![t[1]] = row]
    BY DEF Slot
  <1>3. row \in [Inputs -> Outcomes \cup {"none"}]
    BY <1>1 DEF TypeOK
  <1>4. \A i \in Inputs : row[i] = IF i = index[t] THEN o ELSE results[t[1]][i]
    BY <1>1 DEF TypeOK
  <1>5. results' \in [Batches -> [Inputs -> Outcomes \cup {"none"}]]
    <2> HIDE DEF row
    <2>. QED
      BY <1>1, <1>2, <1>3 DEF TypeOK
  <1>6. \A b \in Batches : \A i \in Inputs :
           results'[b][i] = IF b = t[1] /\ i = index[t] THEN o ELSE results[b][i]
    <2> HIDE DEF row
    <2>. QED
      BY <1>1, <1>2, <1>4 DEF TypeOK
  <1>7. at' = [at EXCEPT ![t] = "fetch"] /\ at' \in [Threads -> Places]
    BY DEF Slot, Goes, TypeOK, Places
  <1>. QED
    BY <1>5, <1>6, <1>7

\* The gate's part of the state, when a thread at neither of the gate's places moves on.
LEMMA OutsideGate ==
    ASSUME GateInv, NEW t \in Threads, NEW q \in Places,
           at[t] \notin {"waiting", "woken", "running"},
           q \notin {"waiting", "woken", "running"},
           Goes(t, q), UNCHANGED active
    PROVE  /\ active' = Cardinality(ThreadsAt("running")') /\ active' <= Limit
           /\ NoLostWakeup'
PROOF
  <1>1. at \in [Threads -> Places]
    BY DEF GateInv, GateCountsRequests, TypeOK
  <1>2. \A p \in {"waiting", "woken", "running"} : ThreadsAt(p)' = ThreadsAt(p)
    BY <1>1, MoveCounts
  <1>. QED
    BY <1>2 DEF GateInv, GateCountsRequests, NoLostWakeup

\* Every step of a thread keeps the gate's count and wakes who must be woken.
LEMMA GateStep ==
    ASSUME GateInv, NEW t \in Threads, Step(t) \/ Spurious(t)
    PROVE  GateInv'
PROOF
  <1>0. TypeOK /\ active = Cardinality(ThreadsAt("running")) /\ active <= Limit /\ NoLostWakeup
    BY DEF GateInv, GateCountsRequests
  <1>1. t[1] \in Batches /\ Limit \in Nat \ {0}
    BY Workers, ExecutorAssumption
  <1>2. CASE Fetch(t)
    <2> DEFINE q == IF next[t[1]] \in Inputs THEN "flag" ELSE "exit"
    <2>1. at[t] = "fetch" /\ Goes(t, q) /\ q \in Places /\ UNCHANGED active
      BY <1>2 DEF Fetch, Places
    <2>2. q \notin {"waiting", "woken", "running"}
      OBVIOUS
    <2>3. TypeOK'
      BY <1>0, <1>1, <1>2, <2>1 DEF Fetch, Goes, TypeOK
    <2>. HIDE DEF q
    <2>. QED
      BY <2>1, <2>2, <2>3, OutsideGate DEF GateInv, GateCountsRequests
  <1>3. CASE CheckFlag(t)
    <2>1. PICK q \in {"fetch", "call"} : at[t] = "flag" /\ Goes(t, q) /\ UNCHANGED active
      BY <1>3 DEF CheckFlag, Slot
    <2>2. TypeOK'
      <3>1. CASE Stopped(t)
        <4>1. Slot(t, "not_attempted") /\ "not_attempted" \in Outcomes
          BY <1>3, <3>1 DEF CheckFlag, Outcomes
        <4>. QED
          BY <1>0, <1>3, <4>1, SlotEffect DEF CheckFlag, TypeOK
      <3>2. CASE ~Stopped(t)
        BY <1>0, <1>3, <3>2 DEF CheckFlag, Goes, TypeOK, Places
      <3>. QED
        BY <3>1, <3>2
    <2>3. q \in Places /\ q \notin {"waiting", "woken", "running"}
      BY DEF Places
    <2>. QED
      BY <2>1, <2>2, <2>3, OutsideGate DEF GateInv, GateCountsRequests
  <1>4. CASE Store(t)
    <2>1. at[t] = "store" /\ Goes(t, "fetch") /\ UNCHANGED active /\ "fetch" \in Places
      BY <1>4 DEF Store, Slot, Places
    <2>2. TypeOK'
      <3>1. PICK o \in {"attempted", "stopped"} : Slot(t, o)
        BY <1>4 DEF Store
      <3>2. o \in Outcomes
        BY DEF Outcomes
      <3>3. fatal' \in [Batches -> BOOLEAN] /\ UNCHANGED <<next, index, active>>
        BY <1>0, <1>1, <1>4 DEF Store, TypeOK
      <3>. QED
        BY <1>0, <3>1, <3>2, <3>3, SlotEffect DEF TypeOK
    <2>. QED
      BY <2>1, <2>2, OutsideGate DEF GateInv, GateCountsRequests
  <1>5. CASE Enter(t)
    <2>1. at[t] \in {"call", "woken"} /\ UNCHANGED <<next, results, fatal, index>>
      BY <1>5 DEF Enter
    <2>2. CASE active >= Limit
      <3>1. Goes(t, "waiting") /\ UNCHANGED active
        BY <1>5, <2>2 DEF Enter
      <3>2. TypeOK'
        BY <1>0, <2>1, <3>1 DEF TypeOK, Goes, Places
      <3>3. ThreadsAt("running")' = ThreadsAt("running")
        BY <1>0, <2>1, <3>1, MoveCounts DEF TypeOK, Places
      <3>4. Cardinality(ThreadsAt("woken")') \in Nat
        <4>1. ThreadsAt("woken")' = ThreadsAt("woken") \/ ThreadsAt("woken")' = ThreadsAt("woken") \ {t}
          BY <1>0, <3>1 DEF ThreadsAt, Goes, TypeOK
        <4>. QED
          BY <4>1, PlaceFinite, FS_RemoveElement, FS_CardinalityType
      <3>. QED
        BY <1>0, <1>1, <2>2, <3>1, <3>2, <3>3, <3>4
        DEF GateInv, GateCountsRequests, NoLostWakeup, TypeOK
    <2>3. CASE ~(active >= Limit)
      <3>1. Goes(t, "running") /\ active' = active + 1
        BY <1>5, <2>3 DEF Enter
      <3>2. TypeOK'
        BY <1>0, <1>1, <2>1, <2>3, <3>1 DEF TypeOK, Goes, Places
      <3>3. Cardinality(ThreadsAt("running")') = Cardinality(ThreadsAt("running")) + 1
        BY <1>0, <2>1, <3>1, MoveCounts DEF TypeOK, Places
      <3>4. ThreadsAt("waiting")' = ThreadsAt("waiting")
        BY <1>0, <2>1, <3>1, MoveCounts DEF TypeOK, Places
      <3>5. \/ Cardinality(ThreadsAt("woken")') = Cardinality(ThreadsAt("woken"))
            \/ Cardinality(ThreadsAt("woken")') = Cardinality(ThreadsAt("woken")) - 1
        BY <1>0, <2>1, <3>1, MoveCounts DEF TypeOK, Places
      <3>6. Cardinality(ThreadsAt("woken")) \in Nat
        BY PlaceFinite
      <3>7. NoLostWakeup'
        BY <1>0, <1>1, <3>1, <3>4, <3>5, <3>6 DEF NoLostWakeup, TypeOK
      <3>. QED
        BY <1>0, <1>1, <2>3, <3>1, <3>2, <3>3, <3>7 DEF GateInv, GateCountsRequests, TypeOK
    <2>. QED
      BY <2>2, <2>3
  <1>6. CASE Leave(t)
    <2> DEFINE R == ThreadsAt("running")
    <2>1. at[t] = "running" /\ active' = active - 1 /\ UNCHANGED <<next, results, fatal, index>>
      BY <1>6 DEF Leave
    <2>2. ThreadsAt("running")' = R \ {t}
      BY <1>0, <1>6 DEF Leave, Goes, ThreadsAt, TypeOK
    <2>3. t \in R
      BY <2>1 DEF ThreadsAt
    <2>4. Cardinality(R \ {t}) = Cardinality(R) - 1 /\ Cardinality(R \ {t}) \in Nat
      BY <2>3, PlaceFinite, FS_RemoveElement, FS_CardinalityType
    <2>. HIDE DEF R
    <2>5. active' = Cardinality(ThreadsAt("running")') /\ active' \in 0..Limit
      <3>1. active = Cardinality(R)
        BY <1>0 DEF R
      <3>2. active' = Cardinality(R \ {t}) /\ active' \in Nat
        BY <2>1, <2>4, <3>1
      <3>3. active' \in 0..Limit
        BY <1>0, <1>1, <2>1, <3>2 DEF TypeOK
      <3>. QED
        BY <2>2, <3>2, <3>3
    <2>6. at' \in [Threads -> Places]
      BY <1>0, <1>6 DEF Leave, Goes, TypeOK, Places, ThreadsAt
    <2>7. TypeOK' /\ active' <= Limit
      BY <1>0, <1>1, <2>1, <2>5, <2>6 DEF TypeOK
    <2>8. NoLostWakeup'
      <3>1. CASE ThreadsAt("waiting") = {}
        BY <1>0, <1>6, <3>1 DEF Leave, Goes, ThreadsAt, TypeOK, NoLostWakeup
      <3>2. CASE ThreadsAt("waiting") # {}
        <4>1. PICK w \in ThreadsAt("waiting") :
                 at' = [at EXCEPT ![t] = "store", ![w] = "woken"]
          BY <1>6, <3>2 DEF Leave
        <4>2. w \in Threads /\ w \notin ThreadsAt("woken")
          BY DEF ThreadsAt
        <4>3. ThreadsAt("woken")' = ThreadsAt("woken") \cup {w}
          BY <1>0, <2>1, <4>1, <4>2 DEF ThreadsAt, TypeOK
        <4>4. Cardinality(ThreadsAt("woken")') = Cardinality(ThreadsAt("woken")) + 1
          BY <4>2, <4>3, PlaceFinite, FS_AddElement
        <4>5. Cardinality(ThreadsAt("woken")) \in Nat
          BY PlaceFinite
        <4>. QED
          BY <1>0, <1>1, <2>1, <3>2, <4>4, <4>5 DEF NoLostWakeup, TypeOK
      <3>. QED
        BY <3>1, <3>2
    <2>. QED
      BY <2>5, <2>7, <2>8 DEF GateInv, GateCountsRequests
  <1>7. CASE Spurious(t)
    <2>1. at[t] = "waiting" /\ Goes(t, "woken") /\ UNCHANGED <<next, results, fatal, index, active>>
      BY <1>7 DEF Spurious
    <2>2. TypeOK'
      BY <1>0, <2>1 DEF TypeOK, Goes, Places
    <2>3. ThreadsAt("running")' = ThreadsAt("running")
      BY <1>0, <2>1, MoveCounts DEF TypeOK, Places
    <2>4. Cardinality(ThreadsAt("woken")') = Cardinality(ThreadsAt("woken")) + 1
      BY <1>0, <2>1, MoveCounts DEF TypeOK, Places
    <2>5. Cardinality(ThreadsAt("woken")) \in Nat /\ t \in ThreadsAt("waiting")
      BY <2>1, PlaceFinite DEF ThreadsAt
    <2>6. NoLostWakeup'
      BY <1>0, <1>1, <2>1, <2>4, <2>5 DEF NoLostWakeup, TypeOK
    <2>. QED
      BY <1>0, <2>1, <2>2, <2>3, <2>6 DEF GateInv, GateCountsRequests
  <1>. QED
    BY <1>2, <1>3, <1>4, <1>5, <1>6, <1>7 DEF Step

------------------------------------------------------------------------------
\* A step that moves workers only between the places of a call.
LEMMA CallStep ==
    ASSUME BatchInv, UNCHANGED <<next, results, fatal, index>>,
           \A u \in Threads : Busy(u)' <=> Busy(u),
           \A u \in Threads : at'[u] = "exit" => at[u] = "exit"
    PROVE  BatchInv'
PROOF
  BY DEF BatchInv, Claimed, Accounted, Untaken, ExitAtEnd, FlagHasCause, SkippedForACause

\* Storing an outcome fills the worker's own slot and no other.
LEMMA SlotStep ==
    ASSUME TypeOK, BatchInv, NEW t \in Threads, NEW o \in Outcomes, Busy(t), Slot(t, o),
           UNCHANGED <<next, index>>,
           \A b \in Batches : fatal'[b] => fatal[b] \/ (b = t[1] /\ o = "stopped"),
           o = "not_attempted" => fatal[t[1]]
    PROVE  BatchInv'
PROOF
  <1>0. /\ t[1] \in Batches /\ \A u \in Threads : u[1] \in Batches
        /\ at' = [at EXCEPT ![t] = "fetch"] /\ at \in [Threads -> Places]
    BY Workers, SlotEffect DEF TypeOK
  <1>1. \A b \in Batches : \A i \in Inputs :
           results'[b][i] = IF b = t[1] /\ i = index[t] THEN o ELSE results[b][i]
    BY SlotEffect
  <1>2. /\ index[t] \in Inputs /\ index[t] < next[t[1]] /\ results[t[1]][index[t]] = "none"
        /\ \A u \in Threads : u # t /\ u[1] = t[1] /\ Busy(u) => index[u] # index[t]
    BY DEF BatchInv, Claimed
  <1>3. o # "none"
    BY DEF Outcomes
  <1>4. ~Busy(t)' /\ \A u \in Threads : u # t => (Busy(u)' <=> Busy(u))
    BY <1>0 DEF Busy
  <1>5. Claimed'
    BY <1>0, <1>1, <1>2, <1>4 DEF BatchInv, Claimed
  <1>6. Accounted'
    <2> SUFFICES ASSUME NEW b \in Batches, NEW i \in Inputs, results'[b][i] = "none"
                 PROVE  next[b] <= i \/ \E u \in Threads : u[1] = b /\ Busy(u)' /\ index[u] = i
      BY DEF Accounted
    <2>1. ~(b = t[1] /\ i = index[t]) /\ results[b][i] = "none"
      BY <1>1, <1>3
    <2>. QED
      BY <1>4, <2>1 DEF BatchInv, Accounted
  <1>7. Untaken'
    <2> SUFFICES ASSUME NEW b \in Batches, NEW i \in Inputs, next[b] <= i
                 PROVE  results'[b][i] = "none"
      BY DEF Untaken
    <2>1. ~(b = t[1] /\ i = index[t])
      BY <1>2, ExecutorAssumption DEF TypeOK, Inputs
    <2>. QED
      BY <1>1, <2>1 DEF BatchInv, Untaken
  <1>8. ExitAtEnd'
    BY <1>0 DEF BatchInv, ExitAtEnd
  <1>9. \A b \in Batches : (\E j \in Inputs : results[b][j] = "stopped") =>
                            \E j \in Inputs : results'[b][j] = "stopped"
    BY <1>1, <1>2
  <1>10. o = "stopped" => results'[t[1]][index[t]] = "stopped"
    BY <1>0, <1>1, <1>2
  <1>11. FlagHasCause'
    BY <1>2, <1>9, <1>10 DEF BatchInv, FlagHasCause
  <1>12. SkippedForACause'
    <2> SUFFICES ASSUME NEW b \in Batches, NEW i \in Inputs, results'[b][i] = "not_attempted"
                 PROVE  \E j \in Inputs : results'[b][j] = "stopped"
      BY DEF SkippedForACause
    <2>1. CASE b = t[1] /\ i = index[t]
      BY <1>1, <1>9, <2>1 DEF BatchInv, FlagHasCause
    <2>2. CASE ~(b = t[1] /\ i = index[t])
      BY <1>1, <1>9, <2>2 DEF BatchInv, SkippedForACause
    <2>. QED
      BY <2>1, <2>2
  <1>. QED
    BY <1>5, <1>6, <1>7, <1>8, <1>11, <1>12 DEF BatchInv

\* Taking the next input gives it to this worker alone.
LEMMA FetchStep ==
    ASSUME TypeOK, BatchInv, NEW t \in Threads, Fetch(t)
    PROVE  BatchInv'
PROOF
  <1> DEFINE b0 == t[1]
  <1>0. /\ b0 \in Batches /\ \A u \in Threads : u[1] \in Batches
        /\ next \in [Batches -> Nat] /\ index \in [Threads -> Nat] /\ at \in [Threads -> Places]
    BY Workers DEF TypeOK
  <1>1. /\ index' = [index EXCEPT ![t] = next[b0]]
        /\ next' = [next EXCEPT ![b0] = @ + 1]
        /\ at' = [at EXCEPT ![t] = IF next[b0] \in Inputs THEN "flag" ELSE "exit"]
        /\ UNCHANGED <<results, fatal>> /\ at[t] = "fetch"
    BY DEF Fetch, Goes
  <1>2. \A u \in Threads : u # t => (Busy(u)' <=> Busy(u)) /\ index'[u] = index[u]
    BY <1>0, <1>1 DEF Busy
  <1>3. ~Busy(t) /\ index'[t] = next[b0] /\ next'[b0] = next[b0] + 1
        /\ (Busy(t)' <=> next[b0] \in Inputs)
    BY <1>0, <1>1 DEF Busy
  <1>4. \A b \in Batches : b # b0 => next'[b] = next[b]
    BY <1>0, <1>1
  <1>5. Claimed'
    <2> SUFFICES ASSUME NEW u \in Threads, Busy(u)'
                 PROVE  /\ index'[u] \in Inputs
                        /\ index'[u] < next'[u[1]]
                        /\ results[u[1]][index'[u]] = "none"
                        /\ \A v \in Threads : v # u /\ v[1] = u[1] /\ Busy(v)' => index'[v] # index'[u]
      BY <1>1 DEF Claimed
    <2>1. \A v \in Threads : v # t /\ v[1] = b0 /\ Busy(v)' => index'[v] < next[b0]
      BY <1>2 DEF BatchInv, Claimed
    <2>2. CASE u = t
      <3>1. index'[u] = next[b0] /\ next[b0] \in Inputs
        BY <1>3, <2>2
      <3>2. results[b0][next[b0]] = "none"
        BY <1>0, <3>1 DEF BatchInv, Untaken
      <3>. QED
        BY <1>0, <1>3, <2>1, <2>2, <3>1, <3>2
    <2>3. CASE u # t
      <3>1. /\ Busy(u) /\ index'[u] = index[u] /\ index[u] \in Inputs /\ index[u] < next[u[1]]
            /\ results[u[1]][index[u]] = "none"
            /\ \A v \in Threads : v # u /\ v[1] = u[1] /\ Busy(v) => index[v] # index[u]
        BY <1>2, <2>3 DEF BatchInv, Claimed
      <3>2. index[u] < next'[u[1]]
        BY <1>0, <1>3, <1>4, <3>1
      <3>. QED
        BY <1>0, <1>2, <1>3, <2>1, <2>3, <3>1, <3>2
    <2>. QED
      BY <2>2, <2>3
  <1>6. Accounted'
    <2> SUFFICES ASSUME NEW b \in Batches, NEW i \in Inputs, results[b][i] = "none", ~(next'[b] <= i)
                 PROVE  \E u \in Threads : u[1] = b /\ Busy(u)' /\ index'[u] = i
      BY <1>1 DEF Accounted
    <2>1. CASE b = b0 /\ i = next[b0]
      BY <1>3, <2>1
    <2>2. CASE ~(b = b0 /\ i = next[b0])
      <3>1. ~(next[b] <= i)
        BY <1>0, <1>3, <1>4, <2>2, ExecutorAssumption DEF Inputs
      <3>. QED
        BY <1>2, <1>3, <3>1 DEF BatchInv, Accounted
    <2>. QED
      BY <2>1, <2>2
  <1>7. Untaken'
    <2>1. \A b \in Batches : \A i \in Inputs : next'[b] <= i => next[b] <= i
      BY <1>0, <1>3, <1>4, ExecutorAssumption DEF Inputs
    <2>. QED
      BY <1>1, <2>1 DEF BatchInv, Untaken
  <1>8. ExitAtEnd'
    <2> SUFFICES ASSUME NEW u \in Threads, at'[u] = "exit" PROVE next'[u[1]] >= Items
      BY DEF ExitAtEnd
    <2>1. CASE u = t
      <3>1. next[b0] \notin Inputs
        BY <1>0, <1>1, <2>1
      <3>. QED
        BY <1>0, <1>3, <2>1, <3>1, ExecutorAssumption DEF Inputs
    <2>2. CASE u # t
      <3>1. next[u[1]] >= Items
        BY <1>0, <1>1, <2>2 DEF BatchInv, ExitAtEnd
      <3>. QED
        BY <1>0, <1>3, <1>4, <3>1, ExecutorAssumption
    <2>. QED
      BY <2>1, <2>2
  <1>9. FlagHasCause' /\ SkippedForACause'
    BY <1>1 DEF BatchInv, FlagHasCause, SkippedForACause
  <1>. QED
    BY <1>5, <1>6, <1>7, <1>8, <1>9 DEF BatchInv

\* Every step of a thread keeps the batches' part of the invariant.
LEMMA BatchStep ==
    ASSUME TypeOK, BatchInv, NEW t \in Threads, Step(t) \/ Spurious(t)
    PROVE  BatchInv'
PROOF
  <1>0. at \in [Threads -> Places] /\ fatal \in [Batches -> BOOLEAN] /\ t[1] \in Batches
    BY Workers DEF TypeOK
  <1>1. CASE Fetch(t)
    BY <1>1, FetchStep
  <1>2. CASE CheckFlag(t)
    <2>1. CASE Stopped(t)
      <3>1. /\ Slot(t, "not_attempted") /\ "not_attempted" \in Outcomes /\ Busy(t)
            /\ fatal[t[1]] /\ UNCHANGED <<next, fatal, index>>
        BY <1>2, <2>1 DEF CheckFlag, Stopped, Busy, Outcomes
      <3>2. /\ UNCHANGED <<next, index>>
            /\ \A b \in Batches : fatal'[b] => fatal[b] \/ (b = t[1] /\ "not_attempted" = "stopped")
        BY <3>1
      <3>. QED
        BY <3>1, <3>2, SlotStep
    <2>2. CASE ~Stopped(t)
      <3>1. at[t] = "flag" /\ at' = [at EXCEPT ![t] = "call"] /\ UNCHANGED <<next, results, fatal, index>>
        BY <1>2, <2>2 DEF CheckFlag, Goes
      <3>2. \A u \in Threads : Busy(u)' <=> Busy(u)
        BY <1>0, <3>1 DEF Busy
      <3>3. \A u \in Threads : at'[u] = "exit" => at[u] = "exit"
        BY <1>0, <3>1
      <3>. QED
        BY <3>1, <3>2, <3>3, CallStep
    <2>. QED
      BY <2>1, <2>2
  <1>3. CASE Enter(t) \/ Leave(t) \/ Spurious(t)
    <2>1. UNCHANGED <<next, results, fatal, index>>
      BY <1>3 DEF Enter, Leave, Spurious
    <2>2. \A u \in Threads : Busy(u)' <=> Busy(u)
      BY <1>0, <1>3 DEF Enter, Leave, Spurious, Goes, ThreadsAt, Busy
    <2>3. \A u \in Threads : at'[u] = "exit" => at[u] = "exit"
      BY <2>2, <1>0, <1>3 DEF Enter, Leave, Spurious, Goes, ThreadsAt
    <2>. QED
      BY <2>1, <2>2, <2>3, CallStep
  <1>4. CASE Store(t)
    <2>1. at[t] = "store" /\ UNCHANGED <<next, index>>
      BY <1>4 DEF Store
    <2>2. CASE Slot(t, "attempted") /\ UNCHANGED fatal
      <3>1. \A b \in Batches : fatal'[b] => fatal[b] \/ (b = t[1] /\ "attempted" = "stopped")
        BY <2>2
      <3>2. Busy(t) /\ "attempted" \in Outcomes /\ "attempted" # "not_attempted"
        BY <2>1 DEF Busy, Outcomes
      <3>. QED
        BY <2>1, <2>2, <3>1, <3>2, SlotStep
    <2>3. CASE Slot(t, "stopped") /\ fatal' = [fatal EXCEPT ![t[1]] = TRUE]
      <3>1. \A b \in Batches : fatal'[b] => fatal[b] \/ b = t[1]
        BY <1>0, <2>3
      <3>. QED
        BY <2>1, <2>3, <3>1, SlotStep DEF Busy, Outcomes
    <2>. QED
      BY <1>4, <2>2, <2>3 DEF Store
  <1>. QED
    BY <1>1, <1>2, <1>3, <1>4 DEF Step

------------------------------------------------------------------------------
\* Before any worker has run, the inductive invariant holds.
THEOREM InitInv == Init => IInv
PROOF
  <1> SUFFICES ASSUME Init PROVE IInv
    OBVIOUS
  <1>1. ThreadsAt("running") = {} /\ ThreadsAt("waiting") = {}
    BY DEF Init, ThreadsAt
  <1>2. TypeOK
    BY ExecutorAssumption DEF Init, TypeOK, Places
  <1>3. GateInv
    BY <1>1, <1>2, FS_EmptySet, ExecutorAssumption
    DEF Init, GateInv, GateCountsRequests, NoLostWakeup
  <1>4. \A t \in Threads : ~Busy(t) /\ at[t] # "exit"
    BY DEF Init, Busy
  <1>5. \A b \in Batches : ~fatal[b] /\ \A i \in Inputs : results[b][i] = "none" /\ next[b] <= i
    BY ExecutorAssumption DEF Init, Inputs
  <1>6. BatchInv
    BY <1>4, <1>5
    DEF BatchInv, Claimed, Accounted, Untaken, ExitAtEnd, FlagHasCause, SkippedForACause
  <1>. QED
    BY <1>3, <1>6 DEF IInv

\* Every step keeps it.
THEOREM StepInv == IInv /\ [Next]_vars => IInv'
PROOF
  <1> SUFFICES ASSUME IInv, [Next]_vars PROVE IInv'
    OBVIOUS
  <1>1. GateInv /\ BatchInv /\ TypeOK
    BY DEF IInv, GateInv, GateCountsRequests
  <1>2. CASE Next
    <2>1. PICK t \in Threads : Step(t) \/ Spurious(t)
      BY <1>2 DEF Next
    <2>. QED
      BY <1>1, <2>1, GateStep, BatchStep DEF IInv
  <1>3. CASE UNCHANGED vars
    BY <1>1, <1>3
    DEF vars, IInv, GateInv, GateCountsRequests, TypeOK, NoLostWakeup, ThreadsAt, BatchInv,
        Claimed, Accounted, Untaken, ExitAtEnd, FlagHasCause, SkippedForACause, Busy
  <1>. QED
    BY <1>2, <1>3

\* The inductive invariant holds in every reachable state.
THEOREM SpecInv == Spec => []IInv
PROOF
  BY InitInv, StepInv, PTL DEF Spec

\* The gate's counter is the number of requests on the wire and never above the limit,
\* with any number of batches and workers.
THEOREM GateExact == Spec => []GateCountsRequests
PROOF
  <1>1. IInv => GateCountsRequests
    BY DEF IInv, GateInv
  <1>. QED
    BY SpecInv, <1>1, PTL

\* One notification for each permit given back is enough, whoever arrives in between
\* and whatever wakes spuriously.
THEOREM GateWakes == Spec => []NoLostWakeup
PROOF
  <1>1. IInv => NoLostWakeup
    BY DEF IInv, GateInv
  <1>. QED
    BY SpecInv, <1>1, PTL

\* The atomic counter hands every input to one worker, and a joined batch has an
\* outcome for each.
THEOREM InputsOnce == Spec => []InputsRunOnce
PROOF
  <1>1. ASSUME IInv PROVE InputsRunOnce
    <2>1. BatchInv
      BY <1>1 DEF IInv
    <2>2. ASSUME NEW t \in Threads, NEW u \in Threads, t # u, t[1] = u[1],
                 {at[t], at[u]} \cap {"fetch", "exit"} = {}
          PROVE  index[t] # index[u]
      BY <2>1, <2>2 DEF BatchInv, Claimed, Busy
    <2>3. ASSUME NEW t \in Threads, at[t] \notin {"fetch", "exit"}
          PROVE  results[t[1]][index[t]] = "none"
      BY <2>1, <2>3 DEF BatchInv, Claimed, Busy
    <2>4. ASSUME NEW b \in Batches, Joined(b), NEW i \in Inputs, results[b][i] = "none"
          PROVE  FALSE
      <3>1. Items > 0
        BY ExecutorAssumption DEF Inputs
      <3>2. PICK t \in Threads : t[1] = b
        BY <3>1, Workers
      <3>3. at[t] = "exit" /\ next[b] >= Items
        BY <2>1, <2>4, <3>2 DEF Joined, BatchInv, ExitAtEnd
      <3>4. next[b] \in Nat
        BY <1>1 DEF IInv, GateInv, GateCountsRequests, TypeOK
      <3>5. ~(next[b] <= i)
        BY <3>3, <3>4, ExecutorAssumption DEF Inputs
      <3>6. PICK u \in Threads : u[1] = b /\ Busy(u)
        BY <2>1, <2>4, <3>5 DEF BatchInv, Accounted
      <3>. QED
        BY <2>4, <3>6 DEF Joined, Busy
    <2>. QED
      BY <2>2, <2>3, <2>4 DEF InputsRunOnce
  <1>. QED
    BY SpecInv, <1>1, PTL

\* No input is skipped unless one of its own batch reports a credential failure.
THEOREM SkipsExplained == Spec => []SkippedForACause
PROOF
  <1>1. IInv => SkippedForACause
    BY DEF IInv, BatchInv
  <1>. QED
    BY SpecInv, <1>1, PTL
================================================================================
