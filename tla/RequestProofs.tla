----------------------------- MODULE RequestProofs -----------------------------
(****************************************************************************)
(* Proofs about the requests that work on Gmail itself, for every number of *)
(* messages, labels and changes by others.  Each kind of request has an     *)
(* invariant of its own; Inv composes them.                                 *)
(****************************************************************************)
EXTENDS ProviderRequests, TLAPS, FiniteSetTheorems

------------------------------------------------------------------------------
(* New drafts.                                                              *)

\* How far the thread of a draft is, what became of its POST and what is answered.
DraftFits(p, w, made, o) ==
    /\ p \in {"queued", "token", "source"} => w \in {"none", "rejected"}
    /\ p = "post" => w \in {"sent", "applied"}
    /\ p # "done" => o = "none"
    /\ made = IF w = "applied" THEN 1 ELSE 0
    /\ o = "succeeded" => w = "applied"
    /\ o \in {"failed", "not_attempted"} => w \in {"none", "rejected"}

DraftsInv ==
    /\ Drafts!TypeOK
    /\ \A i \in Drafts!Items : DraftFits(phase[i], wire[i], drafts[i], outcome[i])

\* What one thread does leaves the others' drafts as they were.
LEMMA DraftMoves ==
  ASSUME DraftsInv, request' = request,
         NEW i \in Drafts!Items,
         NEW p \in Drafts!Phases, NEW a \in 1..2, NEW o \in Drafts!Outcomes,
         NEW w \in Drafts!Wires, NEW d \in Nat,
         phase' = [phase EXCEPT ![i] = p],
         attempt' = [attempt EXCEPT ![i] = a],
         outcome' = [outcome EXCEPT ![i] = o],
         wire' = [wire EXCEPT ![i] = w],
         drafts' = [drafts EXCEPT ![i] = d],
         fatal' \in BOOLEAN,
         DraftFits(p, w, d, o)
  PROVE  DraftsInv'
  <1>1. Drafts!Items' = Drafts!Items
    BY DEF Drafts!Items
  <1>2. Drafts!TypeOK'
    BY <1>1 DEF DraftsInv, Drafts!TypeOK
  <1>3. ASSUME NEW j \in Drafts!Items
        PROVE  DraftFits(phase[j], wire[j], drafts[j], outcome[j])'
    <2>1. CASE j = i
      BY <2>1 DEF DraftsInv, Drafts!TypeOK
    <2>2. CASE j # i
      <3>1. phase'[j] = phase[j] /\ wire'[j] = wire[j] /\ drafts'[j] = drafts[j] /\ outcome'[j] = outcome[j]
        BY <2>2 DEF DraftsInv, Drafts!TypeOK
      <3> QED
        BY <3>1 DEF DraftsInv
    <2> QED
      BY <2>1, <2>2
  <1> QED
    BY <1>1, <1>2, <1>3 DEF DraftsInv

\* Every step of the request, and every draft Gmail makes, is such a move.
LEMMA DraftsStep ==
  ASSUME DraftsInv, Drafts!Next
  PROVE  DraftsInv'
  <1>1. PICK i \in Drafts!Items :
            Drafts!Start(i) \/ Drafts!Token(i) \/ Drafts!Source(i) \/ Drafts!Receive(i) \/ Drafts!Apply(i)
    BY DEF Drafts!Next, Drafts!RequestStep, Drafts!Elsewhere
  <1>2. /\ phase[i] \in Drafts!Phases /\ attempt[i] \in 1..2 /\ outcome[i] \in Drafts!Outcomes
        /\ wire[i] \in Drafts!Wires /\ drafts[i] \in Nat /\ fatal \in BOOLEAN
        /\ DraftFits(phase[i], wire[i], drafts[i], outcome[i])
    BY DEF DraftsInv, Drafts!TypeOK
  <1>3. /\ phase = [phase EXCEPT ![i] = phase[i]] /\ attempt = [attempt EXCEPT ![i] = attempt[i]]
        /\ outcome = [outcome EXCEPT ![i] = outcome[i]] /\ wire = [wire EXCEPT ![i] = wire[i]]
        /\ drafts = [drafts EXCEPT ![i] = drafts[i]]
    BY DEF DraftsInv, Drafts!TypeOK
  <1> DEFINE Moved(p, a, o, w, d) ==
        /\ p \in Drafts!Phases /\ a \in 1..2 /\ o \in Drafts!Outcomes
        /\ w \in Drafts!Wires /\ d \in Nat
        /\ phase' = [phase EXCEPT ![i] = p]
        /\ attempt' = [attempt EXCEPT ![i] = a]
        /\ outcome' = [outcome EXCEPT ![i] = o]
        /\ wire' = [wire EXCEPT ![i] = w]
        /\ drafts' = [drafts EXCEPT ![i] = d]
        /\ DraftFits(p, w, d, o)
  <1>4. ASSUME NEW p, NEW a, NEW o, NEW w, NEW d, Moved(p, a, o, w, d), request' = request, fatal' \in BOOLEAN
        PROVE  DraftsInv'
    BY <1>4, DraftMoves
  <1> DEFINE Settled(o) == Moved("done", attempt[i], o, wire[i], drafts[i])
  <1> HIDE DEF Moved
  <1>5. ASSUME Drafts!Start(i) PROVE DraftsInv'
    <2>1. request' = request /\ fatal' = fatal /\ wire' = wire /\ drafts' = drafts /\ phase[i] = "queued"
      BY <1>5 DEF Drafts!Start
    <2>2. Settled("not_attempted") \/ Moved("token", attempt[i], outcome[i], wire[i], drafts[i])
      BY <1>5, <1>2, <1>3, <2>1
      DEF Moved, Drafts!Start, Drafts!Settle, Drafts!Go, DraftFits, Drafts!Phases, Drafts!Outcomes
    <2> QED
      BY <2>1, <2>2, <1>2, <1>4
  <1>6. ASSUME Drafts!Token(i) PROVE DraftsInv'
    <2>1. request' = request /\ fatal' \in BOOLEAN /\ drafts' = drafts /\ phase[i] = "token"
      BY <1>6, <1>2 DEF Drafts!Token
    <2>2. \/ Settled("not_attempted")
          \/ Moved("source", attempt[i], outcome[i], wire[i], drafts[i])
          \/ Moved("post", attempt[i], outcome[i], "sent", drafts[i])
      BY <1>6, <1>2, <1>3, <2>1
      DEF Moved, Drafts!Token, Drafts!Settle, Drafts!Go, Drafts!Post, DraftFits, Drafts!Phases,
          Drafts!Outcomes, Drafts!Wires
    <2> QED
      BY <2>1, <2>2, <1>4
  <1>7. ASSUME Drafts!Source(i) PROVE DraftsInv'
    <2>1. request' = request /\ fatal' = fatal /\ drafts' = drafts /\ phase[i] = "source"
      BY <1>7 DEF Drafts!Source
    <2>2. \/ Settled("failed") \/ Settled("unavailable")
          \/ Moved("post", attempt[i], outcome[i], "sent", drafts[i])
          \/ Moved("token", 2, outcome[i], wire[i], drafts[i])
      BY <1>7, <1>2, <1>3, <2>1
      DEF Moved, Drafts!Source, Drafts!Settle, Drafts!Go, Drafts!Post, Drafts!NoDraft, Drafts!Unauthorized,
          DraftFits, Drafts!Phases, Drafts!Outcomes, Drafts!Wires
    <2> QED
      BY <2>1, <2>2, <1>2, <1>4
  <1>8. ASSUME Drafts!Receive(i) PROVE DraftsInv'
    <2>1. request' = request /\ fatal' = fatal /\ drafts' = drafts /\ phase[i] = "post"
      BY <1>8 DEF Drafts!Receive
    <2>2. CASE wire[i] = "sent" /\ wire' = [wire EXCEPT ![i] = "rejected"]
               /\ (Drafts!NoDraft(i) \/ Drafts!Unauthorized(i))
      <3>1. \/ Moved("done", attempt[i], "failed", "rejected", drafts[i])
            \/ Moved("done", attempt[i], "unavailable", "rejected", drafts[i])
            \/ Moved("token", 2, outcome[i], "rejected", drafts[i])
        BY <1>2, <1>3, <2>1, <2>2
        DEF Moved, Drafts!Settle, Drafts!NoDraft, Drafts!Unauthorized,
            DraftFits, Drafts!Phases, Drafts!Outcomes, Drafts!Wires
      <3> QED
        BY <2>1, <3>1, <1>2, <1>4
    <2>3. CASE (wire[i] = "applied" /\ Drafts!Settle(i, "succeeded") /\ UNCHANGED wire)
               \/ Drafts!Unanswered(i)
      <3>1. Settled("succeeded") \/ Settled("unknown") \/ Settled("unavailable")
        BY <1>2, <1>3, <2>1, <2>3
        DEF Moved, Drafts!Settle, Drafts!Unanswered, DraftFits, Drafts!Phases, Drafts!Outcomes
      <3> QED
        BY <2>1, <3>1, <1>2, <1>4
    <2> QED
      BY <1>8, <2>2, <2>3 DEF Drafts!Receive
  <1>9. ASSUME Drafts!Apply(i) PROVE DraftsInv'
    <2>1. /\ request' = request /\ fatal' = fatal /\ phase' = phase /\ attempt' = attempt
          /\ outcome' = outcome /\ wire[i] = "sent"
      BY <1>9 DEF Drafts!Apply, Drafts!item
    <2>2. Moved(phase[i], attempt[i], outcome[i], "applied", drafts[i] + 1)
      BY <1>9, <1>2, <1>3, <2>1 DEF Moved, Drafts!Apply, DraftFits, Drafts!Phases, Drafts!Outcomes, Drafts!Wires
    <2> QED
      BY <2>1, <2>2, <1>2, <1>4
  <1> QED
    BY <1>1, <1>5, <1>6, <1>7, <1>8, <1>9

\* No item has a draft at first.
LEMMA DraftsInit ==
  ASSUME Drafts!Init
  PROVE  DraftsInv
  <1>1. Drafts!TypeOK
    <2>1. /\ phase = [i \in Drafts!Items |-> "queued"] /\ attempt = [i \in Drafts!Items |-> 1]
          /\ outcome = [i \in Drafts!Items |-> "none"] /\ wire = [i \in Drafts!Items |-> "none"]
          /\ drafts = [i \in Drafts!Items |-> 0] /\ request \in Drafts!Requests /\ fatal \in BOOLEAN
      BY DEF Drafts!Init
    <2>2. /\ "queued" \in Drafts!Phases /\ "none" \in Drafts!Outcomes /\ "none" \in Drafts!Wires
          /\ 1 \in 1..2 /\ 0 \in Nat
      BY DEF Drafts!Phases, Drafts!Outcomes, Drafts!Wires
    <2> QED
      BY <2>1, <2>2 DEF Drafts!TypeOK
  <1>2. ASSUME NEW i \in Drafts!Items
        PROVE  DraftFits(phase[i], wire[i], drafts[i], outcome[i])
    <2>1. phase[i] = "queued" /\ wire[i] = "none" /\ drafts[i] = 0 /\ outcome[i] = "none"
      BY DEF Drafts!Init
    <2> QED
      BY <2>1 DEF DraftFits
  <1> QED
    BY <1>1, <1>2 DEF DraftsInv

\* What the invariant says of the answers.
LEMMA DraftsTrue ==
  ASSUME DraftsInv
  PROVE  Drafts!OutcomesTruthful /\ Drafts!OneDraftPerItem
  <1>1. ASSUME NEW i \in Drafts!Items
        PROVE  /\ outcome[i] = "succeeded" => drafts[i] = 1
               /\ outcome[i] \in {"failed", "not_attempted"} => drafts[i] = 0 /\ wire[i] # "sent"
               /\ drafts[i] + (IF wire[i] = "sent" THEN 1 ELSE 0) <= 1
    BY DEF DraftsInv, DraftFits
  <1> QED
    BY <1>1 DEF Drafts!OutcomesTruthful, Drafts!OneDraftPerItem

------------------------------------------------------------------------------
(* Labels on messages.                                                      *)

\* Both modules count the same.
LEMMA MessagesCount == \A S : Messages!Cardinality(S) = Cardinality(S)
  BY DEF Messages!Cardinality, Cardinality

\* The place of a readback is within the request.
LEMMA RankInRange ==
  ASSUME batch \in SUBSET (1..N), NEW i \in batch
  PROVE  Messages!Rank(i) \in 1..N
  <1> DEFINE Below == {j \in batch : j <= i}
  <1>1. N \in Int /\ 1 \in Int /\ ~(1 > N) /\ i \in 1..N
    BY ProviderRequestsAssumption
  <1>2. IsFiniteSet(1..N) /\ Cardinality(1..N) = N
    <2>1. IsFiniteSet(1..N) /\ Cardinality(1..N) = N - 1 + 1
      BY <1>1, FS_Interval
    <2> QED
      BY <2>1, <1>1
  <1>3. i \in Below
    BY <1>1
  <1>4. Below \subseteq 1..N
    BY <1>1
  <1>5. Messages!Rank(i) = Cardinality(Below)
    BY MessagesCount DEF Messages!Rank
  <1> HIDE DEF Below
  <1>6. IsFiniteSet(Below) /\ Cardinality(Below) <= N
    BY <1>2, <1>4, FS_Subset
  <1>7. Cardinality(Below) \in Nat
    BY <1>6, FS_CardinalityType
  <1>8. Cardinality(Below) # 0
    BY <1>3, <1>6, FS_EmptySet
  <1> QED
    BY <1>1, <1>5, <1>6, <1>7, <1>8

\* Two eligible messages have their readbacks in different places.
LEMMA RankDistinct ==
  ASSUME batch \in SUBSET (1..N), NEW i \in batch, NEW j \in batch, i < j
  PROVE  Messages!Rank(i) # Messages!Rank(j)
  <1> DEFINE Below(k) == {m \in batch : m <= k}
  <1>1. N \in Int /\ 1 \in Int /\ i \in Int /\ j \in Int
    BY ProviderRequestsAssumption
  <1>2. IsFiniteSet(1..N)
    BY <1>1, FS_Interval
  <1>3. Below(j) \subseteq 1..N
    BY <1>1
  <1>4. Below(i) \subseteq Below(j)
    <2>1. ASSUME NEW m \in batch, m <= i PROVE m <= j
      BY <1>1, <2>1
    <2> QED
      BY <2>1
  <1>5. j \in Below(j)
    BY <1>1
  <1>6. j \notin Below(i)
    BY <1>1
  <1>7. Messages!Rank(i) = Cardinality(Below(i)) /\ Messages!Rank(j) = Cardinality(Below(j))
    BY MessagesCount DEF Messages!Rank
  <1> HIDE DEF Below
  <1>8. IsFiniteSet(Below(j))
    BY <1>2, <1>3, FS_Subset
  <1>9. Cardinality(Below(i)) # Cardinality(Below(j))
    BY <1>4, <1>5, <1>6, <1>8, FS_Subset
  <1> QED
    BY <1>7, <1>9

\* The write of this request that Gmail may act on, and what it has done.
MessagesSent ==
    /\ accepted \in {0, 1}
    /\ phase \in {"token", "label", "preflight"} => accepted = 0
    /\ phase = "write" => accepted = 1
    /\ accepted = 0 => touched = {} /\ pending = {}
    /\ touched \subseteq batch \ pending

\* The readbacks come after the write, each in its place, and the answer after them.
MessagesRead ==
    /\ phase \notin {"readback", "answered"} => \A k \in 1..N : observed[k] = "none"
    /\ phase = "readback" => \A i \in batch : observed[Messages!Rank(i)] = "yes" => i \in seen
    /\ phase # "answered" => \A i \in 1..N : outcome[i] = "none"

MessagesInv ==
    /\ Messages!TypeOK
    /\ MessagesSent
    /\ MessagesRead
    /\ Messages!SucceededWasSeen
    /\ Messages!FailedIsUntouched

\* The eligible messages are among those of the request.
LEMMA BatchInRange ==
  ASSUME Messages!TypeOK
  PROVE  batch \in SUBSET (1..N)
  <1>1. 1 \in 1..N
    BY ProviderRequestsAssumption
  <1>2. Messages!Targets \subseteq 1..N
    BY <1>1 DEF Messages!Targets, Messages!Positions
  <1> QED
    BY <1>2 DEF Messages!TypeOK

\* Before the answer there is nothing to be wrong about.
LEMMA MessagesOpen ==
  ASSUME Messages!TypeOK, MessagesRead, phase # "answered"
  PROVE  Messages!SucceededWasSeen /\ Messages!FailedIsUntouched
  BY DEF Messages!TypeOK, MessagesRead, Messages!SucceededWasSeen, Messages!FailedIsUntouched,
         Messages!Positions

\* What Gmail says at first is not known, and nothing was done.
LEMMA MessagesInit ==
  ASSUME Messages!Init
  PROVE  MessagesInv
  <1>1. Messages!TypeOK
    <2>1. /\ request \in Messages!Requests /\ message \in [1..N -> {"mail", "draft"}]
          /\ on \in [1..N -> BOOLEAN] /\ label \in {"user", "system"} /\ changes = 0
          /\ phase = "token" /\ attempt = 0 /\ batch = {} /\ pending = {} /\ answer = "none"
          /\ touched = {} /\ seen = {} /\ accepted = 0
          /\ check = [i \in 1..N |-> "none"] /\ observed = [k \in 1..N |-> "none"]
          /\ outcome = [i \in 1..N |-> "none"]
      BY DEF Messages!Init, Messages!Positions
    <2>2. /\ check \in [1..N -> Messages!Checks] /\ outcome \in [1..N -> Messages!Outcomes]
          /\ observed \in [1..N -> {"none", "yes", "no"}]
      BY <2>1 DEF Messages!Checks, Messages!Outcomes
    <2>3. changes \in 0..MaxChanges /\ attempt \in 0..2 /\ accepted \in Nat
      BY <2>1, ProviderRequestsAssumption
    <2>4. message \in [1..N -> {"mail", "draft", "gone"}]
      BY <2>1
    <2>5. phase \in Messages!Phases /\ answer \in Messages!Answers
      BY <2>1 DEF Messages!Phases, Messages!Answers
    <2> QED
      BY <2>1, <2>2, <2>3, <2>4, <2>5 DEF Messages!TypeOK, Messages!Positions
  <1>2. MessagesSent /\ MessagesRead /\ phase # "answered"
    BY DEF Messages!Init, MessagesSent, MessagesRead, Messages!Positions
  <1> QED
    BY <1>1, <1>2, MessagesOpen DEF MessagesInv

\* A token for the request, for the first or for the second time.
LEMMA MessagesToken ==
  ASSUME MessagesInv, Messages!Token
  PROVE  MessagesInv'
  <1>1. Messages!TypeOK'
    BY DEF MessagesInv, Messages!TypeOK, Messages!Token, Messages!Go, Messages!Respond,
           Messages!gmail, Messages!result, Messages!Phases, Messages!Answers, Messages!Checks,
           Messages!Targets, Messages!Positions
  <1>2. MessagesSent'
    BY DEF MessagesInv, MessagesSent, Messages!Token, Messages!Go, Messages!Respond, Messages!gmail
  <1>3. MessagesRead'
    BY DEF MessagesInv, MessagesRead, Messages!Token, Messages!Go, Messages!Respond, Messages!result
  <1>4. (Messages!SucceededWasSeen /\ Messages!FailedIsUntouched)'
    BY <1>1, <1>2, <1>3
    DEF MessagesInv, MessagesSent, MessagesRead, Messages!Token, Messages!Go, Messages!Respond,
        Messages!gmail, Messages!SucceededWasSeen, Messages!FailedIsUntouched, Messages!Positions,
        Messages!result
  <1> QED
    BY <1>1, <1>2, <1>3, <1>4 DEF MessagesInv

\* The read of the label, and the single write that may follow it.
LEMMA MessagesCheckLabel ==
  ASSUME MessagesInv, Messages!CheckLabel
  PROVE  MessagesInv'
  <1>1. Messages!TypeOK'
    <2>1. /\ request' = request /\ message' = message /\ on' = on /\ label' = label
          /\ changes' = changes /\ touched' = touched /\ attempt' = attempt /\ check' = check
          /\ observed' = observed /\ seen' = seen /\ outcome' = outcome
      BY DEF Messages!CheckLabel, Messages!reads, Messages!Go, Messages!Respond, Messages!Rejected,
             Messages!Dispatch, Messages!result
    <2>2. \/ phase' = "write" /\ batch' = {1} /\ pending' = {1} /\ accepted' = accepted + 1 /\ ~request.many
          \/ batch' = batch /\ pending' = pending /\ accepted' = accepted
      BY DEF Messages!CheckLabel, Messages!Go, Messages!Respond, Messages!Rejected, Messages!Dispatch
    <2>3. \/ phase' \in {"write", "preflight", "token"} /\ answer' = answer /\ phase = "label"
          \/ phase' = "answered" /\ answer' \in {"rejected", "unavailable", "reauthenticate"}
      BY DEF Messages!CheckLabel, Messages!Go, Messages!Respond, Messages!Rejected, Messages!Dispatch, Messages!result
    <2>4. phase' \in Messages!Phases /\ answer' \in Messages!Answers /\ (phase' = "answered" <=> answer' # "none")
      BY <2>3 DEF MessagesInv, Messages!TypeOK, Messages!Phases, Messages!Answers
    <2>5. batch' \subseteq Messages!Targets /\ pending' \subseteq batch' /\ accepted' \in Nat
      BY <2>2 DEF MessagesInv, MessagesSent, Messages!TypeOK, Messages!Targets
    <2> QED
      BY <2>1, <2>4, <2>5 DEF MessagesInv, Messages!TypeOK, Messages!Targets
  <1>2. MessagesSent'
    BY DEF MessagesInv, MessagesSent, Messages!CheckLabel, Messages!Go, Messages!Respond,
           Messages!Rejected, Messages!Dispatch
  <1>3. MessagesRead'
    BY DEF MessagesInv, MessagesRead, Messages!CheckLabel, Messages!Go, Messages!Respond,
           Messages!Rejected, Messages!Dispatch, Messages!reads, Messages!result
  <1>4. (Messages!SucceededWasSeen /\ Messages!FailedIsUntouched)'
    <2>1. /\ outcome' = outcome /\ touched' = touched /\ phase = "label"
          /\ phase' = "answered" => pending' = pending
          /\ answer' # "done" \/ answer' = answer
      BY DEF Messages!CheckLabel, Messages!Go, Messages!Respond, Messages!Rejected,
             Messages!Dispatch, Messages!result
    <2>2. CASE phase' # "answered"
      BY <1>1, <1>3, <2>2
      DEF Messages!TypeOK, MessagesRead, Messages!SucceededWasSeen, Messages!FailedIsUntouched,
         Messages!Positions
    <2>3. CASE phase' = "answered"
      BY <2>1, <2>3
      DEF MessagesInv, Messages!TypeOK, MessagesSent, MessagesRead, Messages!SucceededWasSeen,
          Messages!FailedIsUntouched, Messages!Positions
    <2> QED
      BY <2>2, <2>3
  <1> QED
    BY <1>1, <1>2, <1>3, <1>4 DEF MessagesInv

\* The read of one message before the write.
LEMMA MessagesCheckMessage ==
  ASSUME MessagesInv, NEW i \in Messages!Positions, Messages!CheckMessage(i)
  PROVE  MessagesInv'
  <1>1. check' \in [Messages!Positions -> Messages!Checks]
    <2>1. PICK c \in {"denied", "failed", "ok", "draft"} : check' = [check EXCEPT ![i] = c]
      BY DEF Messages!CheckMessage
    <2> QED
      BY <2>1 DEF MessagesInv, Messages!TypeOK, Messages!Checks
  <1>2. /\ request' = request /\ message' = message /\ on' = on /\ label' = label
        /\ changes' = changes /\ pending' = pending /\ touched' = touched /\ phase' = phase
        /\ attempt' = attempt /\ batch' = batch /\ observed' = observed /\ seen' = seen
        /\ accepted' = accepted /\ answer' = answer /\ outcome' = outcome /\ phase = "preflight"
    BY DEF Messages!CheckMessage, Messages!gmail, Messages!result
  <1>3. Messages!TypeOK'
    BY <1>1, <1>2 DEF MessagesInv, Messages!TypeOK, Messages!Targets
  <1>4. MessagesSent' /\ MessagesRead'
    BY <1>2 DEF MessagesInv, MessagesSent, MessagesRead
  <1>5. (Messages!SucceededWasSeen /\ Messages!FailedIsUntouched)'
    BY <1>2 DEF MessagesInv, Messages!SucceededWasSeen, Messages!FailedIsUntouched
  <1> QED
    BY <1>3, <1>4, <1>5 DEF MessagesInv

\* The end of the reads, and the write that may follow them.
LEMMA MessagesPreflight ==
  ASSUME MessagesInv, Messages!PreflightDone
  PROVE  MessagesInv'
  <1>1. Messages!TypeOK'
    <2>1. /\ request' = request /\ message' = message /\ on' = on /\ label' = label
          /\ changes' = changes /\ touched' = touched /\ attempt' = attempt /\ check' = check
          /\ observed' = observed /\ seen' = seen /\ outcome' = outcome
      BY DEF Messages!PreflightDone, Messages!reads, Messages!Go, Messages!Respond, Messages!Rejected,
             Messages!Dispatch, Messages!result
    <2>2. /\ \/ batch' = Messages!Eligible /\ pending' = Messages!Eligible /\ accepted' = accepted + 1
             \/ batch' \in {batch, {}} /\ pending' = pending /\ accepted' = accepted
          /\ phase = "preflight"
      BY DEF Messages!PreflightDone, Messages!Go, Messages!Respond, Messages!Rejected, Messages!Dispatch
    <2>3. \/ phase' \in {"write", "readback", "label", "token"} /\ answer' = answer /\ phase = "preflight"
          \/ phase' = "answered" /\ answer' \in {"rejected", "unavailable", "reauthenticate"}
      BY DEF Messages!PreflightDone, Messages!Go, Messages!Respond, Messages!Rejected, Messages!Dispatch, Messages!result
    <2>4. phase' \in Messages!Phases /\ answer' \in Messages!Answers /\ (phase' = "answered" <=> answer' # "none")
      BY <2>3 DEF MessagesInv, Messages!TypeOK, Messages!Phases, Messages!Answers
    <2>5. Messages!Eligible \subseteq Messages!Targets
      BY DEF Messages!Eligible
    <2>6. accepted = 0 /\ pending = {}
      BY <2>2 DEF MessagesInv, MessagesSent
    <2>7. batch' \subseteq Messages!Targets /\ pending' \subseteq batch' /\ accepted' \in Nat
      BY <2>2, <2>5, <2>6 DEF MessagesInv, Messages!TypeOK
    <2> QED
      BY <2>1, <2>4, <2>7 DEF MessagesInv, Messages!TypeOK, Messages!Targets
  <1>2. MessagesSent'
    BY DEF MessagesInv, MessagesSent, Messages!PreflightDone, Messages!Go, Messages!Respond,
           Messages!Rejected, Messages!Dispatch
  <1>3. MessagesRead'
    BY DEF MessagesInv, MessagesRead, Messages!PreflightDone, Messages!Go, Messages!Respond,
           Messages!Rejected, Messages!Dispatch, Messages!reads, Messages!result
  <1>4. (Messages!SucceededWasSeen /\ Messages!FailedIsUntouched)'
    <2>1. /\ outcome' = outcome /\ touched' = touched /\ phase = "preflight"
          /\ phase' = "answered" => pending' = pending
          /\ answer' # "done" \/ answer' = answer
      BY DEF Messages!PreflightDone, Messages!Go, Messages!Respond, Messages!Rejected,
             Messages!Dispatch, Messages!result
    <2>2. CASE phase' # "answered"
      BY <1>1, <1>3, <2>2
      DEF Messages!TypeOK, MessagesRead, Messages!SucceededWasSeen, Messages!FailedIsUntouched,
         Messages!Positions
    <2>3. CASE phase' = "answered"
      BY <2>1, <2>3
      DEF MessagesInv, Messages!TypeOK, MessagesSent, MessagesRead, Messages!SucceededWasSeen,
          Messages!FailedIsUntouched, Messages!Positions
    <2> QED
      BY <2>2, <2>3
  <1> QED
    BY <1>1, <1>2, <1>3, <1>4 DEF MessagesInv

\* The answer to the write, or none.
LEMMA MessagesReceive ==
  ASSUME MessagesInv, Messages!Receive
  PROVE  MessagesInv'
  <1>1. /\ request' = request /\ message' = message /\ on' = on /\ label' = label
        /\ changes' = changes /\ touched' = touched /\ attempt' = attempt /\ check' = check
        /\ observed' = observed /\ batch' = batch /\ phase = "write"
    BY DEF Messages!Receive
  <1>2. /\ accepted = 1 /\ answer = "none" /\ touched \subseteq batch \ pending
        /\ \A i \in 1..N : outcome[i] = "none" /\ observed[i] = "none"
        /\ pending \subseteq batch /\ outcome \in [1..N -> Messages!Outcomes]
    BY <1>1 DEF MessagesInv, MessagesSent, MessagesRead, Messages!TypeOK, Messages!Positions
  \* What may have become of the write, and of the request.
  <1> DEFINE Undone == pending' = {} /\ accepted' = 0 /\ touched' = {}
             Open == pending' = pending /\ accepted' = 1
             On(p) == phase' = p /\ answer' = "none" /\ outcome' = outcome
             Answered(a) == phase' = "answered" /\ answer' = a /\ outcome' = outcome
             Failed == /\ phase' = "answered" /\ answer' = "items"
                       /\ outcome' = [k \in 1..N |-> "failed"]
  <1>3. Messages!Reject => Undone
    BY <1>1, <1>2 DEF Messages!Reject
  <1>4. \/ Undone /\ On("token")
        \/ Undone /\ Answered("reauthenticate")
        \/ Undone /\ Answered("rejected")
        \/ Undone /\ Answered("unavailable")
        \/ Undone /\ Failed
        \/ Open /\ On("readback")
        \/ Open /\ Answered("unavailable")
        \/ Open /\ Answered("done") /\ (request.custom => on[1])
    <2>0. /\ \A p : Messages!Go(p) => On(p)
          /\ \A a : Messages!Respond(a) => Answered(a)
      BY <1>2 DEF Messages!Go, Messages!Respond, Messages!result
    <2>1. CASE Messages!Reject /\ Messages!Rejected
      BY <1>3, <2>0, <2>1 DEF Messages!Rejected
    <2>2. CASE Messages!Reject /\ Messages!FailItems
      BY <1>3, <2>2 DEF Messages!FailItems, Messages!Positions
    <2>3. CASE Messages!Reject /\ (Messages!Respond("rejected") \/ Messages!Respond("unavailable"))
      BY <1>3, <2>0, <2>3
    <2>4. CASE /\ UNCHANGED <<pending, accepted>>
               /\ \/ Messages!Go("readback")
                  \/ Messages!Respond(IF request.custom /\ ~on[1] THEN "unavailable" ELSE "done")
      <3>1. Open
        BY <1>2, <2>4
      <3>2. CASE Messages!Go("readback")
        BY <2>0, <3>1, <3>2
      <3>3. CASE Messages!Respond("unavailable")
        BY <2>0, <3>1, <3>3
      <3>4. CASE ~(request.custom /\ ~on[1]) /\ Messages!Respond("done")
        BY <2>0, <3>1, <3>4
      <3> QED
        BY <2>4, <3>2, <3>3, <3>4
    <2>5. CASE Messages!Unanswered
      <3>1. Open
        BY <1>2, <2>5 DEF Messages!Unanswered
      <3>2. Messages!Go("readback") \/ Messages!Respond("unavailable")
        BY <2>5 DEF Messages!Unanswered
      <3> QED
        BY <2>0, <3>1, <3>2
    <2> QED
      BY <2>1, <2>2, <2>3, <2>4, <2>5 DEF Messages!Receive
  <1>5. seen' = IF phase' = "answered" /\ answer' = "done" /\ on[1] = request.add
                THEN seen \cup {1} ELSE seen
    BY DEF Messages!Receive
  <1>6. Messages!TypeOK'
    <2>1. phase' \in Messages!Phases /\ answer' \in Messages!Answers /\ (phase' = "answered" <=> answer' # "none")
      BY <1>2, <1>4 DEF Messages!Phases, Messages!Answers
    <2>2. pending' \subseteq batch' /\ accepted' \in Nat
      BY <1>1, <1>2, <1>4
    <2>3. seen' \subseteq 1..N
      BY <1>5, ProviderRequestsAssumption DEF MessagesInv, Messages!TypeOK, Messages!Positions
    <2>4. outcome' \in [1..N -> Messages!Outcomes]
      BY <1>2, <1>4 DEF Messages!Outcomes
    <2> QED
      BY <1>1, <2>1, <2>2, <2>3, <2>4 DEF MessagesInv, Messages!TypeOK, Messages!Targets, Messages!Positions
  <1>7. MessagesSent'
    BY <1>1, <1>2, <1>4 DEF MessagesSent
  <1>8. MessagesRead'
    <2>1. phase' = "readback" => \A i \in batch : observed[Messages!Rank(i)] # "yes"
      <3>1. batch \in SUBSET (1..N)
        BY BatchInRange DEF MessagesInv
      <3> QED
        BY <1>2, <3>1, RankInRange
    <2>2. \A i \in batch : Messages!Rank(i)' = Messages!Rank(i)
      BY <1>1 DEF Messages!Rank
    <2> QED
      BY <1>1, <1>2, <1>4, <2>1, <2>2 DEF MessagesRead
  <1>9. Messages!SucceededWasSeen'
    <2>1. \A i \in 1..N : outcome'[i] # "succeeded"
      BY <1>2, <1>4
    <2>2. answer' = "done" /\ request.custom => on[1] = request.add
      <3>1. request \in Messages!Requests /\ 1 \in 1..N /\ on \in [1..N -> BOOLEAN]
        BY ProviderRequestsAssumption DEF MessagesInv, Messages!TypeOK, Messages!Positions
      <3>2. request.custom => request.add
        BY <3>1 DEF Messages!Requests
      <3>3. request.add \in BOOLEAN /\ on[1] \in BOOLEAN
        BY <3>1 DEF Messages!Requests
      <3>4. answer' = "done" /\ request.custom => on[1]
        BY <1>2, <1>4
      <3> QED
        BY <3>2, <3>3, <3>4
    <2>3. answer' = "done" => phase' = "answered"
      BY <1>2, <1>4
    <2> QED
      BY <1>1, <1>5, <2>1, <2>2, <2>3 DEF Messages!SucceededWasSeen, Messages!Positions
  <1>10. Messages!FailedIsUntouched'
    BY <1>1, <1>2, <1>4 DEF Messages!FailedIsUntouched, Messages!Positions
  <1> QED
    BY <1>6, <1>7, <1>8, <1>9, <1>10 DEF MessagesInv

\* The read of one message after the write.
LEMMA MessagesReadback ==
  ASSUME MessagesInv, NEW i \in Messages!Positions, Messages!Readback(i)
  PROVE  MessagesInv'
  <1>1. /\ request' = request /\ message' = message /\ on' = on /\ label' = label
        /\ changes' = changes /\ touched' = touched /\ attempt' = attempt /\ check' = check
        /\ batch' = batch /\ phase = "readback" /\ phase' = phase /\ pending' = pending
        /\ accepted' = accepted /\ answer' = answer /\ outcome' = outcome /\ i \in batch
    BY DEF Messages!Readback, Messages!gmail, Messages!result
  <1>2. batch \in SUBSET (1..N) /\ observed \in [1..N -> {"none", "yes", "no"}] /\ seen \subseteq 1..N
    BY BatchInRange DEF MessagesInv, Messages!TypeOK, Messages!Positions
  <1>3. PICK v \in {"yes", "no"} :
          /\ observed' = [observed EXCEPT ![Messages!Rank(i)] = v]
          /\ v = "yes" => i \in seen'
          /\ seen \subseteq seen' /\ seen' \subseteq seen \cup {i}
    BY DEF Messages!Readback
  <1>4. Messages!TypeOK'
    <2>1. seen' \subseteq 1..N
      BY <1>2, <1>3 DEF Messages!Positions
    <2>2. observed' \in [1..N -> {"none", "yes", "no"}]
      BY <1>2, <1>3
    <2> QED
      BY <1>1, <2>1, <2>2 DEF MessagesInv, Messages!TypeOK, Messages!Targets, Messages!Positions
  <1>5. MessagesSent'
    BY <1>1 DEF MessagesInv, MessagesSent
  <1>6. MessagesRead'
    <2>1. \A j \in batch : Messages!Rank(j)' = Messages!Rank(j)
      BY <1>1 DEF Messages!Rank
    <2>2. ASSUME NEW j \in batch, observed'[Messages!Rank(j)] = "yes"
          PROVE  j \in seen'
      <3>1. CASE j = i
        BY <1>2, <1>3, <2>2, <3>1, RankInRange
      <3>2. CASE j # i
        <4>1. Messages!Rank(j) # Messages!Rank(i)
          <5>1. i \in Int /\ j \in Int
            BY <1>1, <1>2, ProviderRequestsAssumption
          <5>2. i < j \/ j < i
            BY <3>2, <5>1
          <5> QED
            BY <1>1, <1>2, <5>2, RankDistinct
        <4>2. Messages!Rank(j) \in 1..N
          BY <1>2, RankInRange
        <4>3. observed[Messages!Rank(j)] = "yes"
          BY <1>2, <1>3, <2>2, <4>1, <4>2
        <4> QED
          BY <1>1, <1>3, <4>3 DEF MessagesInv, MessagesRead
      <3> QED
        BY <3>1, <3>2
    <2> QED
      BY <1>1, <2>1, <2>2 DEF MessagesInv, MessagesRead
  <1>7. (Messages!SucceededWasSeen /\ Messages!FailedIsUntouched)'
    BY <1>1, <1>3 DEF MessagesInv, Messages!SucceededWasSeen, Messages!FailedIsUntouched
  <1> QED
    BY <1>4, <1>5, <1>6, <1>7 DEF MessagesInv

\* The answer built from the readbacks.
LEMMA MessagesFinish ==
  ASSUME MessagesInv, Messages!Finish
  PROVE  MessagesInv'
  <1>1. /\ request' = request /\ message' = message /\ on' = on /\ label' = label
        /\ changes' = changes /\ touched' = touched /\ attempt' = attempt /\ check' = check
        /\ batch' = batch /\ phase = "readback" /\ phase' = "answered" /\ pending' = pending
        /\ accepted' = accepted /\ answer' = "items" /\ observed' = observed /\ seen' = seen
        /\ outcome' = [i \in 1..N |->
                          IF i \notin batch THEN "failed"
                          ELSE IF observed[Messages!Rank(i)] = "yes" THEN "succeeded" ELSE "unknown"]
    BY DEF Messages!Finish, Messages!gmail, Messages!reads, Messages!ReadbackOf, Messages!Positions
  <1>2. Messages!TypeOK'
    <2>1. /\ outcome' \in [1..N -> Messages!Outcomes] /\ phase' \in Messages!Phases
          /\ answer' \in Messages!Answers /\ answer' # "none"
      BY <1>1 DEF Messages!Outcomes, Messages!Phases, Messages!Answers
    <2> QED
      BY <1>1, <2>1 DEF MessagesInv, Messages!TypeOK, Messages!Targets, Messages!Positions
  <1>3. MessagesSent' /\ MessagesRead'
    BY <1>1 DEF MessagesInv, MessagesSent, MessagesRead
  <1>4. Messages!SucceededWasSeen'
    BY <1>1 DEF MessagesInv, MessagesRead, Messages!SucceededWasSeen, Messages!Positions
  <1>5. Messages!FailedIsUntouched'
    <2>1. touched \cup pending \subseteq batch
      BY DEF MessagesInv, MessagesSent, Messages!TypeOK
    <2>2. \A i \in 1..N : outcome'[i] = "failed" => i \notin batch
      BY <1>1
    <2> QED
      BY <1>1, <2>1, <2>2 DEF Messages!FailedIsUntouched, Messages!Positions
  <1> QED
    BY <1>2, <1>3, <1>4, <1>5 DEF MessagesInv

\* Gmail changes a message, however late.
LEMMA MessagesApply ==
  ASSUME MessagesInv, NEW i \in Messages!Positions, Messages!Apply(i)
  PROVE  MessagesInv'
  <1>1. /\ request' = request /\ message' = message /\ label' = label /\ changes' = changes
        /\ phase' = phase /\ attempt' = attempt /\ check' = check /\ observed' = observed
        /\ seen' = seen /\ batch' = batch /\ answer' = answer /\ outcome' = outcome
        /\ accepted' = accepted /\ i \in pending /\ pending' = pending \ {i}
        /\ touched \subseteq touched' /\ touched' \subseteq touched \cup {i}
    BY DEF Messages!Apply, Messages!reads, Messages!result
  <1>2. pending \subseteq batch /\ touched \subseteq batch \ pending /\ accepted # 0
    BY <1>1 DEF MessagesInv, MessagesSent, Messages!TypeOK
  <1>3. Messages!TypeOK'
    <2>1. request \in Messages!Requests /\ on \in [1..N -> BOOLEAN]
      BY DEF MessagesInv, Messages!TypeOK, Messages!Positions
    <2>2. request.add \in BOOLEAN
      BY <2>1 DEF Messages!Requests
    <2>3. on' \in [1..N -> BOOLEAN]
      BY <2>1, <2>2 DEF Messages!Apply
    <2>4. touched' \subseteq 1..N
      BY <1>1 DEF MessagesInv, Messages!TypeOK, Messages!Positions
    <2> QED
      BY <1>1, <2>3, <2>4 DEF MessagesInv, Messages!TypeOK, Messages!Targets, Messages!Positions
  <1>4. MessagesSent'
    BY <1>1, <1>2 DEF MessagesInv, MessagesSent
  <1>5. MessagesRead'
    <2>1. \A j \in batch : Messages!Rank(j)' = Messages!Rank(j)
      BY <1>1 DEF Messages!Rank
    <2> QED
      BY <1>1, <2>1 DEF MessagesInv, MessagesRead
  <1>6. (Messages!SucceededWasSeen /\ Messages!FailedIsUntouched)'
    <2>1. touched' \cup pending' \subseteq touched \cup pending
      BY <1>1, <1>2
    <2> QED
      BY <1>1, <2>1 DEF MessagesInv, Messages!SucceededWasSeen, Messages!FailedIsUntouched
  <1> QED
    BY <1>3, <1>4, <1>5, <1>6 DEF MessagesInv

\* Whatever others do to the mailbox.
LEMMA MessagesOthers ==
  ASSUME MessagesInv, NEW i \in Messages!Positions, Messages!Others(i)
  PROVE  MessagesInv'
  <1>1. /\ request' = request /\ phase' = phase /\ attempt' = attempt /\ check' = check
        /\ observed' = observed /\ seen' = seen /\ batch' = batch /\ answer' = answer
        /\ outcome' = outcome /\ accepted' = accepted /\ pending' = pending /\ touched' = touched
    BY DEF Messages!Others, Messages!reads, Messages!result
  <1>2. Messages!TypeOK'
    <2>1. on' \in [1..N -> BOOLEAN]
      BY DEF MessagesInv, Messages!TypeOK, Messages!Positions, Messages!Others
    <2>2. message' \in [1..N -> {"mail", "draft", "gone"}]
      BY DEF MessagesInv, Messages!TypeOK, Messages!Positions, Messages!Others
    <2>3. label' \in {"user", "system", "gone"}
      BY DEF MessagesInv, Messages!TypeOK, Messages!Others
    <2>4. changes' \in 0..MaxChanges
      <3>1. changes \in 0..MaxChanges /\ changes < MaxChanges /\ changes' = changes + 1
        BY DEF MessagesInv, Messages!TypeOK, Messages!Others
      <3> QED
        BY <3>1, ProviderRequestsAssumption
    <2> QED
      BY <1>1, <2>1, <2>2, <2>3, <2>4 DEF MessagesInv, Messages!TypeOK, Messages!Targets, Messages!Positions
  <1>3. MessagesSent'
    BY <1>1 DEF MessagesInv, MessagesSent
  <1>4. MessagesRead'
    <2>1. \A j \in batch : Messages!Rank(j)' = Messages!Rank(j)
      BY <1>1 DEF Messages!Rank
    <2> QED
      BY <1>1, <2>1 DEF MessagesInv, MessagesRead
  <1>5. (Messages!SucceededWasSeen /\ Messages!FailedIsUntouched)'
    BY <1>1 DEF MessagesInv, Messages!SucceededWasSeen, Messages!FailedIsUntouched
  <1> QED
    BY <1>2, <1>3, <1>4, <1>5 DEF MessagesInv

\* Every step of the request, of Gmail and of others keeps the invariant.
LEMMA MessagesStep ==
  ASSUME MessagesInv, Messages!Next
  PROVE  MessagesInv'
  BY MessagesToken, MessagesCheckLabel, MessagesPreflight, MessagesReceive, MessagesFinish,
     MessagesCheckMessage, MessagesReadback, MessagesApply, MessagesOthers
  DEF Messages!Next, Messages!RequestStep, Messages!Elsewhere

\* One write at most is ever out.
LEMMA MessagesTrue ==
  ASSUME MessagesInv
  PROVE  Messages!OneWrite
  BY DEF MessagesInv, MessagesSent, Messages!OneWrite

------------------------------------------------------------------------------
(* A page.                                                                  *)

PagesInv ==
    /\ Pages!TypeOK
    /\ phase # "answered" => mailbox \in moments /\ page = {}
    /\ phase = "details" => listed \in moments
    /\ Pages!PageComplete

\* What the mailbox holds at first is one of its moments.
LEMMA PagesInit ==
  ASSUME Pages!Init
  PROVE  PagesInv
  <1>1. /\ mailbox \in SUBSET (1..N) /\ changes = 0 /\ phase = "token" /\ attempt = 0
        /\ listed = {} /\ detail = [m \in 1..N |-> "none"] /\ answer = "none" /\ page = {}
        /\ moments = {mailbox}
    BY DEF Pages!Init, Pages!Mail
  <1>2. Pages!TypeOK
    <2>1. changes \in 0..MaxChanges /\ changes \in 0..MaxPageChanges /\ attempt \in 0..2
      BY <1>1, ProviderRequestsAssumption
    <2>2. detail \in [1..N -> Pages!Details] /\ phase \in Pages!Phases /\ answer \in Pages!Answers
      BY <1>1 DEF Pages!Details, Pages!Phases, Pages!Answers
    <2>3. moments \in SUBSET SUBSET (1..N)
      BY <1>1
    <2> QED
      BY <1>1, <2>1, <2>2, <2>3 DEF Pages!TypeOK, Pages!Mail
  <1> QED
    BY <1>1, <1>2 DEF PagesInv, Pages!PageComplete

\* Every step of the request and of others keeps the invariant.
LEMMA PagesStep ==
  ASSUME PagesInv, Pages!Next
  PROVE  PagesInv'
  <1>0. /\ mailbox \in SUBSET (1..N) /\ changes \in 0..MaxPageChanges /\ phase \in Pages!Phases
        /\ attempt \in 0..2 /\ listed \in SUBSET (1..N) /\ detail \in [1..N -> Pages!Details]
        /\ answer \in Pages!Answers /\ page \in SUBSET (1..N) /\ moments \in SUBSET SUBSET (1..N)
        /\ phase = "answered" <=> answer # "none"
    BY DEF PagesInv, Pages!TypeOK, Pages!Mail
  <1> DEFINE On(p) == phase' = p /\ answer' = answer /\ page' = page
             Answered(a, entries) == phase' = "answered" /\ answer' = a /\ page' = entries
  <1>1. /\ \A p : Pages!Go(p) <=> On(p)
        /\ \A a, entries : Pages!Respond(a, entries) <=> Answered(a, entries)
    BY DEF Pages!Go, Pages!Respond
  \* What the request has come to, when nothing was listed or read in this step.
  <1>2. ASSUME mailbox' = mailbox, changes' = changes, attempt' \in 0..2, moments' = moments,
               phase # "answered", listed' = listed, detail' = detail,
               \/ On("token") \/ On("list")
               \/ \E a \in {"credential", "reauthenticate", "unavailable", "not_found"} : Answered(a, {})
               \/ Answered("page", listed) /\ listed \in moments /\ \A m \in listed : detail[m] = "ok"
        PROVE  PagesInv'
    <2>1. phase' \in Pages!Phases /\ answer' \in Pages!Answers /\ (phase' = "answered" <=> answer' # "none")
      BY <1>0, <1>2 DEF Pages!Phases, Pages!Answers
    <2>2. page' \in SUBSET (1..N)
      BY <1>0, <1>2
    <2>3. Pages!TypeOK'
      BY <1>0, <1>2, <2>1, <2>2 DEF Pages!TypeOK, Pages!Mail
    <2>4. Pages!PageComplete'
      <3>1. CASE answer' = "page"
        BY <1>0, <1>2, <3>1
        DEF Pages!PageComplete
      <3>2. CASE answer' # "page"
        <4>1. page = {} /\ answer = "none"
          BY <1>0, <1>2 DEF PagesInv
        <4> QED
          BY <1>2, <3>2, <4>1 DEF Pages!PageComplete
      <3> QED
        BY <3>1, <3>2
    <2> QED
      BY <1>2, <2>3, <2>4 DEF PagesInv
  <1> HIDE DEF On, Answered
  <1>3. CASE Pages!Token
    <2>1. /\ mailbox' = mailbox /\ changes' = changes /\ moments' = moments /\ phase = "token"
          /\ listed' = listed /\ detail' = detail
          /\ On("list") \/ Answered("credential", {})
      BY <1>1, <1>3 DEF Pages!Token
    <2>2. attempt' \in 0..2
      BY <1>0, <1>3 DEF Pages!Token
    <2>3. CASE On("list")
      BY <1>2, <2>1, <2>2, <2>3
    <2>4. CASE Answered("credential", {})
      BY <1>2, <2>1, <2>2, <2>4
    <2> QED
      BY <2>1, <2>3, <2>4
  <1>4. CASE Pages!List
    <2>1. /\ mailbox' = mailbox /\ changes' = changes /\ moments' = moments /\ phase = "list"
          /\ attempt' = attempt
          /\ \/ On("details") /\ listed' = mailbox /\ detail' = [m \in 1..N |-> "none"]
             \/ /\ On("token") \/ Answered("reauthenticate", {}) \/ Answered("unavailable", {})
                /\ listed' = listed /\ detail' = detail
      BY <1>1, <1>4 DEF Pages!List, Pages!Rejected, Pages!Mail
    <2>2. CASE On("details") /\ listed' = mailbox /\ detail' = [m \in 1..N |-> "none"]
      <3>1. /\ phase' = "details" /\ answer' = "none" /\ page' = {} /\ mailbox \in moments
        BY <1>0, <2>1, <2>2 DEF On, PagesInv
      <3>2. detail' \in [1..N -> Pages!Details] /\ phase' \in Pages!Phases /\ answer' \in Pages!Answers
        BY <2>2, <3>1 DEF Pages!Details, Pages!Phases, Pages!Answers
      <3>3. Pages!TypeOK'
        BY <1>0, <2>1, <2>2, <3>1, <3>2 DEF Pages!TypeOK, Pages!Mail
      <3> QED
        BY <2>1, <2>2, <3>1, <3>3 DEF PagesInv, Pages!PageComplete
    <2>3. CASE /\ On("token") \/ Answered("reauthenticate", {}) \/ Answered("unavailable", {})
               /\ listed' = listed /\ detail' = detail
      BY <1>0, <1>2, <2>1, <2>3
    <2> QED
      BY <2>1, <2>2, <2>3
  <1>5. CASE Pages!Finish
    <2>1. /\ mailbox' = mailbox /\ changes' = changes /\ moments' = moments /\ phase = "details"
          /\ attempt' = attempt /\ listed' = listed /\ detail' = detail
      BY <1>5 DEF Pages!Finish
    <2>2. \/ Answered("page", listed) /\ Pages!Failures = {}
          \/ On("token") \/ Answered("reauthenticate", {}) \/ Answered("not_found", {})
          \/ Answered("unavailable", {})
      BY <1>1, <1>5 DEF Pages!Finish, Pages!Collect, Pages!Rejected
    <2>3. Pages!Failures = {} => \A m \in listed : detail[m] = "ok"
      BY DEF Pages!Failures
    <2>4. listed \in moments
      BY <2>1 DEF PagesInv
    <2> QED
      BY <1>0, <1>2, <2>1, <2>2, <2>3, <2>4
  <1>6. ASSUME NEW m \in 1..N, Pages!Read(m) PROVE PagesInv'
    <2>1. /\ mailbox' = mailbox /\ changes' = changes /\ moments' = moments /\ phase = "details"
          /\ phase' = phase /\ attempt' = attempt /\ listed' = listed /\ answer' = answer /\ page' = page
      BY <1>6 DEF Pages!Read
    <2>2. detail' \in [1..N -> Pages!Details]
      <3>1. PICK d \in {"denied", "failed", "ok", "gone"} : detail' = [detail EXCEPT ![m] = d]
        BY <1>6 DEF Pages!Read
      <3> QED
        BY <1>0, <3>1 DEF Pages!Details
    <2>3. answer = "none"
      BY <1>0, <2>1
    <2>4. Pages!TypeOK'
      BY <1>0, <2>1, <2>2 DEF Pages!TypeOK, Pages!Mail
    <2> QED
      BY <2>1, <2>3, <2>4 DEF PagesInv, Pages!PageComplete
  <1>7. ASSUME NEW m \in 1..N, Pages!Others(m) PROVE PagesInv'
    <2>1. /\ changes < MaxPageChanges /\ changes' = changes + 1 /\ phase' = phase /\ attempt' = attempt
          /\ listed' = listed /\ detail' = detail /\ answer' = answer /\ page' = page
          /\ moments' = IF phase = "answered" THEN moments ELSE moments \cup {mailbox'}
      BY <1>7 DEF Pages!Others
    <2>2. mailbox' \in SUBSET (1..N)
      BY <1>0, <1>7 DEF Pages!Others
    <2>3. changes' \in 0..MaxPageChanges
      BY <1>0, <2>1, ProviderRequestsAssumption
    <2>4. moments' \in SUBSET SUBSET (1..N)
      BY <1>0, <2>1, <2>2
    <2>5. Pages!TypeOK'
      BY <1>0, <2>1, <2>2, <2>3, <2>4 DEF Pages!TypeOK, Pages!Mail
    <2>6. moments \subseteq moments' /\ (phase # "answered" => mailbox' \in moments')
      BY <2>1
    <2> QED
      BY <2>1, <2>5, <2>6 DEF PagesInv, Pages!PageComplete
  <1> QED
    BY <1>3, <1>4, <1>5, <1>6, <1>7 DEF Pages!Next, Pages!RequestStep, Pages!Elsewhere, Pages!Mail

------------------------------------------------------------------------------
(* Messages read in bulk.                                                   *)

\* Windows follow each other in the order of the places.
LEMMA WindowsInOrder ==
  ASSUME NEW i \in 1..N, NEW j \in 1..N, i <= j
  PROVE  Reads!WindowOf(i) \in Int /\ Reads!WindowOf(i) <= Reads!WindowOf(j)
  <1> DEFINE a == i - 1
             b == j - 1
  <1>1. a \in Nat /\ b \in Nat /\ a <= b /\ Window \in Nat /\ Window > 0
    BY ProviderRequestsAssumption
  <1> HIDE DEF a, b
  <1>2. a \div Window \in Int /\ b \div Window \in Int /\ a \div Window <= b \div Window
    BY <1>1
  <1> QED
    BY <1>2 DEF a, b, Reads!WindowOf

\* Both modules count the same.
LEMMA ReadsCount == \A S : Reads!Cardinality(S) = Cardinality(S)
  BY DEF Reads!Cardinality, Cardinality

\* A place takes a number of units.
LEMMA SizeInNat ==
  ASSUME body \in [1..N -> Bodies], NEW i \in 1..N, NEW o
  PROVE  Reads!Size(o, i) \in Nat
  BY ProviderRequestsAssumption DEF Reads!Size

\* An answer has finitely many units.
LEMMA UnitsFinite ==
  ASSUME body \in [1..N -> Bodies], NEW out
  PROVE  IsFiniteSet(Reads!Units(out))
  <1> DEFINE Place(i) == {i} \X (1..Reads!Size(out[i], i))
  <1>1. IsFiniteSet(1..N)
    BY FS_Interval, ProviderRequestsAssumption
  <1>2. IsFiniteSet({Place(i) : i \in 1..N})
    <2> DEFINE Places == {Place(i) : i \in 1..N}
               f == [i \in 1..N |-> Place(i)]
    <2>1. f \in [1..N -> Places]
      BY Zenon
    <2>2. \A p \in Places : \E i \in 1..N : f[i] = p
      BY Zenon
    <2> HIDE DEF Place, Places, f
    <2>3. f \in Surjection(1..N, Places)
      BY <2>1, <2>2 DEF Surjection
    <2>4. IsFiniteSet(Places)
      BY <1>1, <2>3, FS_Surjection
    <2> QED
      BY <2>4 DEF Places
  <1>3. \A i \in 1..N : IsFiniteSet(Place(i))
    <2>1. TAKE i \in 1..N
    <2>2. IsFiniteSet({i})
      BY FS_Singleton
    <2>3. Reads!Size(out[i], i) \in Int /\ 1 \in Int
      BY SizeInNat
    <2>4. IsFiniteSet(1..Reads!Size(out[i], i))
      BY <2>3, FS_Interval
    <2> QED
      BY <2>2, <2>4, FS_Product
  <1>4. IsFiniteSet(UNION {Place(i) : i \in 1..N})
    BY <1>2, <1>3, FS_UNION
  <1> QED
    BY <1>4 DEF Reads!Units, Reads!Positions

\* Nothing that takes less room in each place takes more in all.
LEMMA TotalMonotone ==
  ASSUME body \in [1..N -> Bodies], NEW out, NEW new,
         \A i \in 1..N : Reads!Size(new[i], i) <= Reads!Size(out[i], i)
  PROVE  /\ Reads!Total(new) \in Nat /\ Reads!Total(out) \in Nat
         /\ Reads!Total(new) <= Reads!Total(out)
  <1>1. IsFiniteSet(Reads!Units(out)) /\ IsFiniteSet(Reads!Units(new))
    BY UnitsFinite
  <1>2. Reads!Units(new) \subseteq Reads!Units(out)
    <2>1. ASSUME NEW u \in Reads!Units(new) PROVE u \in Reads!Units(out)
      <3>1. PICK i \in 1..N : u \in {i} \X (1..Reads!Size(new[i], i))
        BY DEF Reads!Units, Reads!Positions
      <3>2. Reads!Size(new[i], i) \in Nat /\ Reads!Size(out[i], i) \in Nat
        BY SizeInNat
      <3>3. 1..Reads!Size(new[i], i) \subseteq 1..Reads!Size(out[i], i)
        BY <3>2
      <3>4. u \in {i} \X (1..Reads!Size(out[i], i))
        BY <3>1, <3>3
      <3> QED
        BY <3>4 DEF Reads!Units, Reads!Positions
    <2> QED
      BY <2>1
  <1>3. Cardinality(Reads!Units(new)) <= Cardinality(Reads!Units(out))
    BY <1>1, <1>2, FS_Subset
  <1> QED
    BY <1>1, <1>3, FS_CardinalityType, ReadsCount DEF Reads!Total

\* An answer made of placeholders fits.
LEMMA PlaceholdersFit ==
  ASSUME NEW out, \A i \in 1..N : out[i] = "placeholder"
  PROVE  Reads!Total(out) = 2 * N
  <1>1. N \in Nat /\ N > 0
    BY ProviderRequestsAssumption
  <1>2. \A i \in 1..N : 1..Reads!Size(out[i], i) = 1..2
    BY DEF Reads!Size
  <1>3. Reads!Units(out) = (1..N) \X (1..2)
    BY <1>2 DEF Reads!Units, Reads!Positions
  <1>4. /\ IsFiniteSet(1..N) /\ Cardinality(1..N) = N - 1 + 1
        /\ IsFiniteSet(1..2) /\ Cardinality(1..2) = 2 - 1 + 1
    <2>1. N \in Int /\ 1 \in Int /\ 2 \in Int /\ ~(1 > N) /\ ~(1 > 2)
      BY <1>1
    <2>2. IsFiniteSet(1..N) /\ Cardinality(1..N) = N - 1 + 1
      BY <2>1, FS_Interval
    <2>3. IsFiniteSet(1..2) /\ Cardinality(1..2) = 2 - 1 + 1
      BY <2>1, FS_Interval
    <2> QED
      BY <2>2, <2>3
  <1>5. Cardinality((1..N) \X (1..2)) = Cardinality(1..N) * Cardinality(1..2)
    BY <1>4, FS_Product
  <1> QED
    <2>1. Cardinality(1..N) = N /\ Cardinality(1..2) = 2
      BY <1>1, <1>4
    <2>2. Cardinality((1..N) \X (1..2)) = N * 2
      BY <1>5, <2>1
    <2> QED
      BY <1>1, <1>3, <2>2, ReadsCount DEF Reads!Total

\* What a thread has come to; the windows after the present one have not begun.
Threads ==
    \A i \in 1..N :
        /\ phase[i] = "done" <=> result[i] # "none"
        /\ i \in fetched <=> result[i] = "body"
        /\ Reads!WindowOf(next) < Reads!WindowOf(i) => phase[i] = "queued"

\* A place that has been filled.
FilledTo(i, r, o) ==
    /\ r # "none"
    /\ \/ o = r
       \/ o = "refused" /\ r \in {"body", "credential"}

\* The answer is filled up to the present place.
Filled ==
    \A i \in 1..N :
        IF i < next \/ (i = next /\ over)
        THEN FilledTo(i, result[i], outcome[i])
        ELSE outcome[i] = "placeholder"

\* What did not fit is in the present window, which is then the last.
Refusals ==
    /\ exhausted <=> \E j \in 1..N : outcome[j] = "refused"
    /\ \A j \in 1..N : outcome[j] = "refused" => Reads!WindowOf(j) = Reads!WindowOf(next)
    /\ over => next = N \/ (exhausted /\ Reads!WindowOf(next + 1) # Reads!WindowOf(next))

ReadsInv ==
    /\ Reads!TypeOK
    /\ Reads!WithinBudget
    /\ Threads
    /\ Filled
    /\ Refusals

\* The answer starts with a placeholder in every place.
LEMMA ReadsInit ==
  ASSUME Reads!Init
  PROVE  ReadsInv
  <1>1. /\ body \in [1..N -> Bodies] /\ next = 1
        /\ phase = [i \in 1..N |-> "queued"] /\ attempt = [i \in 1..N |-> 1] /\ fatal = FALSE
        /\ result = [i \in 1..N |-> "none"] /\ outcome = [i \in 1..N |-> "placeholder"]
        /\ exhausted = FALSE /\ over = FALSE /\ fetched = {}
    BY DEF Reads!Init, Reads!Positions
  <1>2. Reads!TypeOK
    <2>1. next \in 1..N
      BY <1>1, ProviderRequestsAssumption
    <2>2. phase \in [1..N -> Reads!Phases] /\ result \in [1..N -> Reads!Results]
      BY <1>1 DEF Reads!Phases, Reads!Results
    <2>3. outcome \in [1..N -> Reads!Outcomes] /\ attempt \in [1..N -> 1..2]
      BY <1>1 DEF Reads!Outcomes
    <2> QED
      BY <1>1, <2>1, <2>2, <2>3 DEF Reads!TypeOK, Reads!Positions
  <1>3. Reads!WithinBudget
    <2>1. Reads!Total(outcome) = 2 * N
      BY <1>1, PlaceholdersFit
    <2> QED
      BY <2>1, ProviderRequestsAssumption DEF Reads!WithinBudget
  <1>4. Threads
    BY <1>1 DEF Threads
  <1>5. Filled
    BY <1>1 DEF Filled
  <1>6. Refusals
    BY <1>1 DEF Refusals
  <1> QED
    BY <1>2, <1>3, <1>4, <1>5, <1>6 DEF ReadsInv

\* What one thread does before its place is filled.
LEMMA ReadMoves ==
  ASSUME ReadsInv, NEW i \in 1..N,
         NEW p \in Reads!Phases, NEW a \in 1..2, NEW r \in Reads!Results,
         ~(Reads!WindowOf(next) < Reads!WindowOf(i)),
         phase[i] # "done", p = "done" <=> r # "none",
         phase' = [phase EXCEPT ![i] = p],
         attempt' = [attempt EXCEPT ![i] = a],
         result' = [result EXCEPT ![i] = r],
         fetched' = IF r = "body" THEN fetched \cup {i} ELSE fetched,
         fatal' \in BOOLEAN,
         body' = body, next' = next, outcome' = outcome, exhausted' = exhausted, over' = over
  PROVE  ReadsInv'
  <1>1. /\ phase \in [1..N -> Reads!Phases] /\ attempt \in [1..N -> 1..2]
        /\ result \in [1..N -> Reads!Results] /\ fetched \subseteq 1..N
    BY DEF ReadsInv, Reads!TypeOK, Reads!Positions
  <1>2. result[i] = "none" /\ i \notin fetched
    BY DEF ReadsInv, Threads
  <1>3. Reads!TypeOK'
    <2>1. phase' \in [1..N -> Reads!Phases] /\ attempt' \in [1..N -> 1..2] /\ result' \in [1..N -> Reads!Results]
      BY <1>1
    <2>2. fetched' \subseteq 1..N
      BY <1>1
    <2> QED
      BY <2>1, <2>2 DEF ReadsInv, Reads!TypeOK, Reads!Positions
  <1>4. Reads!WithinBudget'
    <2>1. Reads!Total(outcome)' = Reads!Total(outcome)
      BY DEF Reads!Total, Reads!Units, Reads!Size, Reads!Positions
    <2> QED
      BY <2>1 DEF ReadsInv, Reads!WithinBudget
  <1>5. \A j \in 1..N : j # i => phase'[j] = phase[j] /\ result'[j] = result[j]
    BY <1>1
  <1>6. phase'[i] = p /\ result'[i] = r
    BY <1>1
  <1>7. \A j : Reads!WindowOf(j)' = Reads!WindowOf(j)
    BY DEF Reads!WindowOf
  <1>8. Threads'
    <2>1. ASSUME NEW j \in 1..N
          PROVE  /\ phase'[j] = "done" <=> result'[j] # "none"
                 /\ j \in fetched' <=> result'[j] = "body"
                 /\ Reads!WindowOf(next) < Reads!WindowOf(j) => phase'[j] = "queued"
      <3>1. CASE j = i
        BY <1>2, <1>6, <3>1
      <3>2. CASE j # i
        BY <1>5, <3>2 DEF ReadsInv, Threads
      <3> QED
        BY <3>1, <3>2
    <2> QED
      BY <1>7, <2>1 DEF Threads
  <1>9. Filled'
    <2>1. ASSUME NEW j \in 1..N
          PROVE  IF j < next \/ (j = next /\ over)
                 THEN FilledTo(j, result'[j], outcome[j])
                 ELSE outcome[j] = "placeholder"
      <3>1. CASE j = i
        BY <1>2, <3>1 DEF ReadsInv, Filled, FilledTo
      <3>2. CASE j # i
        BY <1>5, <3>2 DEF ReadsInv, Filled
      <3> QED
        BY <3>1, <3>2
    <2> QED
      BY <2>1 DEF Filled
  <1>10. Refusals'
    BY <1>7 DEF ReadsInv, Refusals
  <1> QED
    BY <1>3, <1>4, <1>8, <1>9, <1>10 DEF ReadsInv

\* Every step of a thread is such a move.
LEMMA ReadsThread ==
  ASSUME ReadsInv, NEW i \in 1..N, Reads!Start(i) \/ Reads!Token(i) \/ Reads!Read(i)
  PROVE  ReadsInv'
  <1>1. /\ phase \in [1..N -> Reads!Phases] /\ attempt \in [1..N -> 1..2] /\ fatal \in BOOLEAN
        /\ result \in [1..N -> Reads!Results]
    BY DEF ReadsInv, Reads!TypeOK, Reads!Positions
  <1>2. /\ body' = body /\ next' = next /\ outcome' = outcome /\ exhausted' = exhausted /\ over' = over
        /\ fatal' \in BOOLEAN
        /\ phase[i] \in {"queued", "token", "read"}
    BY <1>1 DEF Reads!Start, Reads!Token, Reads!Read
  <1>3. ~(Reads!WindowOf(next) < Reads!WindowOf(i))
    <2>1. CASE Reads!Start(i)
      <3>1. Reads!WindowOf(i) = Reads!WindowOf(next)
        BY <2>1 DEF Reads!Start, Reads!InWindow
      <3>2. Reads!WindowOf(i) \in Int
        BY WindowsInOrder
      <3> QED
        BY <3>1, <3>2
    <2>2. CASE phase[i] # "queued"
      BY <2>2 DEF ReadsInv, Threads
    <2> QED
      BY <2>1, <2>2 DEF Reads!Token, Reads!Read
  <1>4. result[i] = "none"
    BY <1>2 DEF ReadsInv, Threads
  <1> DEFINE Moved(p, a, r) ==
        /\ phase' = [phase EXCEPT ![i] = p]
        /\ attempt' = [attempt EXCEPT ![i] = a]
        /\ result' = [result EXCEPT ![i] = r]
        /\ fetched' = IF r = "body" THEN fetched \cup {i} ELSE fetched
  <1>5. \E p \in Reads!Phases, a \in 1..2, r \in Reads!Results : Moved(p, a, r) /\ (p = "done" <=> r # "none")
    <2>1. attempt[i] \in 1..2 /\ attempt = [attempt EXCEPT ![i] = attempt[i]] /\ result = [result EXCEPT ![i] = "none"]
      BY <1>1, <1>4
    <2>2. {"token", "read", "done"} \subseteq Reads!Phases
          /\ {"none", "body", "failed", "credential", "skipped"} \subseteq Reads!Results /\ 2 \in 1..2
      BY DEF Reads!Phases, Reads!Results
    <2>3. ASSUME NEW r, Reads!Settle(i, r), fetched' = IF r = "body" THEN fetched \cup {i} ELSE fetched
          PROVE  Moved("done", attempt[i], r)
      BY <2>1, <2>3 DEF Reads!Settle
    <2>4. ASSUME NEW p, Reads!Go(i, p), fetched' = fetched
          PROVE  Moved(p, attempt[i], "none")
      BY <2>1, <2>4 DEF Reads!Go
    <2> HIDE DEF Moved
    <2>5. CASE Reads!Start(i)
      <3>1. fetched' = fetched /\ (Reads!Settle(i, "skipped") \/ Reads!Go(i, "token"))
        BY <2>5 DEF Reads!Start
      <3>2. Moved("done", attempt[i], "skipped") \/ Moved("token", attempt[i], "none")
        BY <2>3, <2>4, <3>1
      <3> QED
        BY <2>1, <2>2, <3>2
    <2>6. CASE Reads!Token(i)
      <3>1. fetched' = fetched /\ (Reads!Settle(i, "credential") \/ Reads!Go(i, "read"))
        BY <2>6 DEF Reads!Token
      <3>2. Moved("done", attempt[i], "credential") \/ Moved("read", attempt[i], "none")
        BY <2>3, <2>4, <3>1
      <3> QED
        BY <2>1, <2>2, <3>2
    <2>7. CASE Reads!Read(i)
      <3>1. CASE Reads!Settle(i, "body") /\ fetched' = fetched \cup {i}
        BY <2>1, <2>2, <2>3, <3>1
      <3>2. CASE Reads!Settle(i, "failed") /\ UNCHANGED fetched
        BY <2>1, <2>2, <2>3, <3>2
      <3>3. CASE /\ phase' = [phase EXCEPT ![i] = "token"]
                 /\ attempt' = [attempt EXCEPT ![i] = 2]
                 /\ UNCHANGED <<result, fetched>>
        <4>1. Moved("token", 2, "none")
          BY <2>1, <3>3 DEF Moved
        <4> QED
          BY <2>2, <4>1
      <3> QED
        BY <2>7, <3>1, <3>2, <3>3 DEF Reads!Read
    <2> QED
      BY <2>5, <2>6, <2>7
  <1>6. PICK p \in Reads!Phases, a \in 1..2, r \in Reads!Results : Moved(p, a, r) /\ (p = "done" <=> r # "none")
    BY <1>5
  <1>7. phase[i] # "done"
    BY <1>2
  <1> QED
    BY <1>2, <1>3, <1>6, <1>7, ReadMoves

\* The place that is filled next is that of a thread that has ended, and what is refused
\* there is larger than the placeholder it replaces.
LEMMA ReadsFillPlace ==
  ASSUME ReadsInv, Reads!Fill
  PROVE  /\ outcome' \in [1..N -> Reads!Outcomes] /\ exhausted' \in BOOLEAN
         /\ Reads!Total(outcome') <= Budget
         /\ \A j \in 1..N : j # next => outcome'[j] = outcome[j]
         /\ FilledTo(next, result[next], outcome'[next])
         /\ \/ outcome'[next] # "refused" /\ exhausted' = exhausted
            \/ outcome'[next] = "refused" /\ exhausted' = TRUE
  <1>1. /\ next \in 1..N /\ outcome \in [1..N -> Reads!Outcomes] /\ exhausted \in BOOLEAN
        /\ body \in [1..N -> Bodies] /\ result \in [1..N -> Reads!Results] /\ ~over
        /\ Reads!Total(outcome) <= Budget
    BY DEF ReadsInv, Reads!TypeOK, Reads!Positions, Reads!WithinBudget, Reads!Fill
  <1>2. result[next] # "none" /\ outcome[next] = "placeholder"
    <2>1. next \in Reads!InWindow
      BY <1>1 DEF Reads!InWindow, Reads!Positions
    <2>2. phase[next] = "done"
      BY <2>1 DEF Reads!Fill
    <2>3. ~(next < next)
      BY <1>1
    <2> QED
      BY <1>1, <2>2, <2>3 DEF ReadsInv, Threads, Filled
  <1> DEFINE new == [outcome EXCEPT ![next] = result[next]]
             without == [outcome EXCEPT ![next] = "refused"]
  <1>3. \/ Reads!Total(new) <= Budget /\ outcome' = new /\ exhausted' = exhausted
        \/ ~(Reads!Total(new) <= Budget) /\ outcome' = without /\ exhausted' = TRUE
    BY DEF Reads!Fill, Reads!Insert, Reads!InsertAt
  <1>4. ASSUME NEW out, NEW o, out = [outcome EXCEPT ![next] = o], o \in {"refused", "failed", "skipped"}
        PROVE  Reads!Total(out) <= Budget
    <2>1. ASSUME NEW j \in 1..N PROVE Reads!Size(out[j], j) <= Reads!Size(outcome[j], j)
      <3>1. CASE j = next
        <4>1. out[j] = o /\ outcome[j] = "placeholder"
          BY <1>1, <1>2, <1>4, <3>1
        <4> QED
          BY <1>4, <4>1 DEF Reads!Size
      <3>2. CASE j # next
        <4>1. out[j] = outcome[j] /\ Reads!Size(outcome[j], j) \in Nat
          BY <1>1, <1>4, <3>2, SizeInNat
        <4> QED
          BY <4>1
      <3> QED
        BY <3>1, <3>2
    <2>2. Reads!Total(out) \in Nat /\ Reads!Total(outcome) \in Nat /\ Reads!Total(out) <= Reads!Total(outcome)
      BY <1>1, <2>1, TotalMonotone
    <2> QED
      BY <1>1, <2>2, ProviderRequestsAssumption
  <1>5. CASE Reads!Total(new) <= Budget /\ outcome' = new /\ exhausted' = exhausted
    <2>1. result[next] \in Reads!Outcomes /\ result[next] # "refused"
      BY <1>1, <1>2 DEF Reads!Outcomes, Reads!Results
    <2>2. outcome' \in [1..N -> Reads!Outcomes] /\ outcome'[next] = result[next]
      BY <1>1, <1>5, <2>1
    <2>3. \A j \in 1..N : j # next => outcome'[j] = outcome[j]
      BY <1>1, <1>5
    <2>4. Reads!Total(outcome') <= Budget
      BY <1>5
    <2> QED
      <3>1. FilledTo(next, result[next], outcome'[next])
        BY <1>2, <2>2 DEF FilledTo
      <3>2. exhausted' = exhausted /\ exhausted' \in BOOLEAN
        BY <1>1, <1>5
      <3> QED
        BY <2>1, <2>2, <2>3, <2>4, <3>1, <3>2
  <1>6. CASE ~(Reads!Total(new) <= Budget) /\ outcome' = without /\ exhausted' = TRUE
    <2>1. result[next] \notin {"failed", "skipped"}
      BY <1>4, <1>6
    <2>2. result[next] \in {"body", "credential"}
      BY <1>1, <1>2, <2>1 DEF Reads!Results
    <2>3. "refused" \in Reads!Outcomes
      BY DEF Reads!Outcomes
    <2>4. outcome' \in [1..N -> Reads!Outcomes] /\ outcome'[next] = "refused"
      BY <1>1, <1>6, <2>3
    <2>5. \A j \in 1..N : j # next => outcome'[j] = outcome[j]
      BY <1>1, <1>6
    <2>6. Reads!Total(outcome') <= Budget
      BY <1>4, <1>6
    <2> QED
      BY <1>2, <1>6, <2>2, <2>4, <2>5, <2>6 DEF FilledTo
  <1> QED
    BY <1>3, <1>5, <1>6

\* Filling a place, the end of a window and the end of the request.
LEMMA ReadsFill ==
  ASSUME ReadsInv, Reads!Fill
  PROVE  ReadsInv'
  <1>1. /\ next \in 1..N /\ outcome \in [1..N -> Reads!Outcomes] /\ exhausted \in BOOLEAN
        /\ fatal \in BOOLEAN /\ over \in BOOLEAN /\ ~over
        /\ body' = body /\ phase' = phase /\ attempt' = attempt /\ result' = result /\ fetched' = fetched
        /\ N \in Nat
    BY ProviderRequestsAssumption DEF ReadsInv, Reads!TypeOK, Reads!Positions, Reads!Fill
  <1>2. /\ outcome' \in [1..N -> Reads!Outcomes] /\ exhausted' \in BOOLEAN
        /\ Reads!Total(outcome') <= Budget
        /\ \A j \in 1..N : j # next => outcome'[j] = outcome[j]
        /\ FilledTo(next, result[next], outcome'[next])
        /\ \/ outcome'[next] # "refused" /\ exhausted' = exhausted
           \/ outcome'[next] = "refused" /\ exhausted' = TRUE
    BY ReadsFillPlace
  \* Where the reading stands afterwards.
  <1>3. \/ next < N /\ next + 1 \in Reads!InWindow /\ next' = next + 1 /\ over' = FALSE /\ fatal' = fatal
        \/ /\ next < N /\ next + 1 \notin Reads!InWindow /\ ~exhausted'
           /\ next' = next + 1 /\ over' = FALSE /\ fatal' = FALSE
        \/ /\ next = N \/ (exhausted' /\ next + 1 \notin Reads!InWindow)
           /\ next' = next /\ over' = TRUE /\ fatal' = FALSE
    <2>1. over' = over \/ over' = (exhausted' \/ next = N)
      BY DEF Reads!Fill
    <2>2. next < N \/ next = N
      BY <1>1
    <2>3. CASE next < N /\ next + 1 \in Reads!InWindow
      BY <1>1, <2>3 DEF Reads!Fill
    <2>4. CASE ~(next < N /\ next + 1 \in Reads!InWindow)
      <3>1. /\ over' = (exhausted' \/ next = N) /\ next' = (IF over' THEN next ELSE next + 1) /\ fatal' = FALSE
        BY <2>4 DEF Reads!Fill
      <3>2. CASE over' = TRUE
        BY <1>1, <2>2, <2>4, <3>1, <3>2
      <3>3. CASE over' = FALSE
        BY <1>1, <2>2, <2>4, <3>1, <3>3
      <3> QED
        BY <1>2, <3>1, <3>2, <3>3
    <2> QED
      BY <2>3, <2>4
  <1>4. /\ next' \in 1..N /\ over' \in BOOLEAN /\ fatal' \in BOOLEAN
        /\ next' = next \/ next' = next + 1
    <2>1. next' \in 1..N
      BY <1>1, <1>3
    <2>2. over' \in BOOLEAN
      BY <1>3
    <2>3. fatal' \in BOOLEAN
      BY <1>1, <1>3
    <2>4. next' = next \/ next' = next + 1
      BY <1>3
    <2> QED
      BY <2>1, <2>2, <2>3, <2>4
  <1>5. Reads!TypeOK'
    BY <1>1, <1>2, <1>4 DEF ReadsInv, Reads!TypeOK, Reads!Positions
  <1>6. Reads!WithinBudget'
    <2>1. Reads!Total(outcome)' = Reads!Total(outcome')
      BY <1>1 DEF Reads!Total, Reads!Units, Reads!Size, Reads!Positions
    <2> QED
      BY <1>2, <2>1 DEF Reads!WithinBudget
  <1>7. \A j : Reads!WindowOf(j)' = Reads!WindowOf(j)
    BY DEF Reads!WindowOf
  <1>8. /\ Reads!WindowOf(next) \in Int /\ Reads!WindowOf(next') \in Int
        /\ Reads!WindowOf(next) <= Reads!WindowOf(next')
    BY <1>1, <1>4, WindowsInOrder
  <1>9. Threads'
    <2>1. ASSUME NEW j \in 1..N, Reads!WindowOf(next') < Reads!WindowOf(j)
          PROVE  phase[j] = "queued"
      <3>1. Reads!WindowOf(j) \in Int
        BY WindowsInOrder
      <3>2. Reads!WindowOf(next) < Reads!WindowOf(j)
        BY <1>8, <2>1, <3>1
      <3> QED
        BY <3>2 DEF ReadsInv, Threads
    <2>2. Reads!WindowOf(next)' = Reads!WindowOf(next')
      BY DEF Reads!WindowOf
    <2> QED
      BY <1>1, <1>7, <2>1, <2>2 DEF ReadsInv, Threads
  <1>10. Filled'
    <2>1. ASSUME NEW j \in 1..N
          PROVE  IF j < next' \/ (j = next' /\ over')
                 THEN FilledTo(j, result[j], outcome'[j])
                 ELSE outcome'[j] = "placeholder"
      <3>1. CASE j = next
        <4>1. j < next' \/ (j = next' /\ over')
          BY <1>1, <1>3, <3>1
        <4> QED
          BY <1>2, <3>1, <4>1 DEF FilledTo
      <3>2. CASE j # next
        <4>1. (j < next' \/ (j = next' /\ over')) <=> j < next
          BY <1>1, <1>3, <3>2
        <4> QED
          BY <1>1, <1>2, <3>2, <4>1 DEF ReadsInv, Filled
      <3> QED
        BY <3>1, <3>2
    <2> QED
      BY <1>1, <2>1 DEF Filled
  <1>11. Refusals'
    <2>1. exhausted' <=> \E j \in 1..N : outcome'[j] = "refused"
      <3>1. outcome[next] = "placeholder" /\ next \in 1..N
        BY <1>1 DEF ReadsInv, Filled
      <3>2. exhausted <=> \E j \in 1..N : outcome[j] = "refused"
        BY DEF ReadsInv, Refusals
      <3>3. CASE outcome'[next] = "refused" /\ exhausted' = TRUE
        BY <3>1, <3>3
      <3>4. CASE outcome'[next] # "refused" /\ exhausted' = exhausted
        BY <1>2, <3>1, <3>2, <3>4
      <3> QED
        BY <1>2, <3>3, <3>4
    <2>2. ASSUME NEW j \in 1..N, outcome'[j] = "refused"
          PROVE  Reads!WindowOf(j) = Reads!WindowOf(next')
      <3>1. exhausted'
        BY <2>1, <2>2
      <3>2. Reads!WindowOf(j) = Reads!WindowOf(next)
        BY <1>2, <2>2 DEF ReadsInv, Refusals
      <3>3. Reads!WindowOf(next') = Reads!WindowOf(next)
        BY <1>3, <3>1 DEF Reads!InWindow
      <3> QED
        BY <3>2, <3>3
    <2>3. over' => next' = N \/ (exhausted' /\ Reads!WindowOf(next' + 1) # Reads!WindowOf(next'))
      <3>1. CASE next < N /\ over'
        <4>1. next' = next /\ exhausted' /\ next + 1 \notin Reads!InWindow
          BY <1>1, <1>3, <3>1
        <4>2. next + 1 \in 1..N
          BY <1>1, <3>1
        <4> QED
          BY <4>1, <4>2 DEF Reads!InWindow, Reads!Positions
      <3>2. CASE next = N \/ ~over'
        BY <1>1, <1>3, <3>2
      <3> QED
        BY <1>1, <3>1, <3>2
    <2>4. \A k : Reads!WindowOf(k)' = Reads!WindowOf(k')
      BY DEF Reads!WindowOf
    <2>5. Reads!WindowOf(next)' = Reads!WindowOf(next') /\ Reads!WindowOf(next + 1)' = Reads!WindowOf(next' + 1)
      BY DEF Reads!WindowOf
    <2> QED
      BY <1>7, <2>1, <2>2, <2>3, <2>5 DEF Refusals
  <1> QED
    BY <1>5, <1>6, <1>9, <1>10, <1>11 DEF ReadsInv

\* Every step of the request keeps the invariant.
LEMMA ReadsStep ==
  ASSUME ReadsInv, Reads!RequestStep
  PROVE  ReadsInv'
  BY ReadsFill, ReadsThread DEF Reads!RequestStep, Reads!Positions

\* When the answer is sent, every place tells of its own message.
LEMMA ReadsTrue ==
  ASSUME ReadsInv
  PROVE  Reads!PlacesTruthful
  <1>1. SUFFICES ASSUME over, NEW i \in 1..N
                 PROVE  /\ outcome[i] = "body" => i \in fetched
                        /\ outcome[i] = "placeholder" => i \notin fetched /\ phase[i] = "queued"
                        /\ outcome[i] = "placeholder"
                              <=> \E j \in 1..N : outcome[j] = "refused"
                                                  /\ Reads!WindowOf(j) < Reads!WindowOf(i)
                        /\ outcome[i] = "refused" => result[i] \in {"body", "credential"}
                        /\ i \in fetched => outcome[i] \in {"body", "refused"}
    BY DEF Reads!PlacesTruthful, Reads!Positions
  <1>2. next \in 1..N /\ N \in Nat /\ result[i] \in Reads!Results
    BY ProviderRequestsAssumption DEF ReadsInv, Reads!TypeOK, Reads!Positions
  <1>3. Reads!WindowOf(i) \in Int /\ Reads!WindowOf(next) \in Int
    BY <1>2, WindowsInOrder
  <1>4. CASE i <= next
    <2>1. FilledTo(i, result[i], outcome[i])
      BY <1>1, <1>2, <1>4 DEF ReadsInv, Filled
    <2>2. Reads!WindowOf(i) <= Reads!WindowOf(next)
      BY <1>2, <1>4, WindowsInOrder
    <2>3. ~(\E j \in 1..N : outcome[j] = "refused" /\ Reads!WindowOf(j) < Reads!WindowOf(i))
      BY <1>3, <2>2 DEF ReadsInv, Refusals
    <2>4. i \in fetched <=> result[i] = "body"
      BY DEF ReadsInv, Threads
    <2>5. result[i] \notin {"placeholder", "refused"}
      BY <1>2 DEF Reads!Results
    <2> QED
      BY <2>1, <2>3, <2>4, <2>5 DEF FilledTo
  <1>5. CASE next < i
    <2>1. outcome[i] = "placeholder"
      BY <1>1, <1>2, <1>5 DEF ReadsInv, Filled
    <2>2. next # N /\ next + 1 \in 1..N /\ next + 1 <= i /\ next <= next + 1
      BY <1>2, <1>5
    <2>3. exhausted /\ Reads!WindowOf(next + 1) # Reads!WindowOf(next)
      BY <1>1, <2>2 DEF ReadsInv, Refusals
    <2>4. /\ Reads!WindowOf(next + 1) \in Int
          /\ Reads!WindowOf(next) <= Reads!WindowOf(next + 1)
          /\ Reads!WindowOf(next + 1) <= Reads!WindowOf(i)
      BY <1>2, <2>2, WindowsInOrder
    <2>5. Reads!WindowOf(next) < Reads!WindowOf(i)
      BY <1>3, <2>3, <2>4
    <2>6. phase[i] = "queued" /\ i \notin fetched
      BY <2>5 DEF ReadsInv, Threads
    <2>7. \E j \in 1..N : outcome[j] = "refused" /\ Reads!WindowOf(j) < Reads!WindowOf(i)
      BY <2>3, <2>5 DEF ReadsInv, Refusals
    <2> QED
      BY <2>1, <2>6, <2>7
  <1> QED
    BY <1>2, <1>4, <1>5
------------------------------------------------------------------------------
(* Labels created and deleted.                                              *)

\* How far the thread of a label is, what became of its write and what is answered.
LabelFits(l, p, w, e, o) ==
    /\ p # "done" => o = "none" /\ stage # "over" /\ l \in targets
    /\ p \in {"queued", "token", "check", "lookup"} => w \in {"none", "rejected"}
    /\ p \in {"write", "verify", "reconcile"} => w # "none"
    /\ p = "verify" => w = "applied" /\ request.create
    /\ p = "check" => stage = "preflight"
    /\ p \in {"lookup", "write", "verify", "reconcile"} => stage # "preflight"
    /\ e = IF w = "applied" THEN 1 ELSE 0
    /\ w = "applied" /\ ~request.create => l \in missing
    /\ w # "none" => request.create \/ l \notin System
    /\ stage = "preflight" => w = "none" /\ o = "none"
    /\ aborted => w = "none"
    /\ o = "succeeded" => IF request.create THEN w = "applied" ELSE l \in missing
    /\ o \in {"failed", "system", "not_attempted"} => w \in {"none", "rejected"}
    /\ o = "unknown" => w # "none"

CatalogueInv ==
    /\ Catalogue!TypeOK
    /\ Labels \ exists \subseteq missing
    /\ aborted => stage = "over"
    /\ \A l \in Labels : LabelFits(l, phase[l], wire[l], effects[l], outcome[l])

\* The request begins with no write sent.
LEMMA CatalogueInit ==
  ASSUME Catalogue!Init
  PROVE  CatalogueInv
  <1>1. PICK some \in SUBSET (Labels \ System) : exists = some \cup System
    BY DEF Catalogue!Init
  <1>2. exists \in SUBSET Labels /\ System \subseteq exists
    BY <1>1, ProviderRequestsAssumption
  <1>3. request \in Catalogue!Requests /\ targets \in SUBSET Labels /\ stage \in {"preflight", "execute"}
    BY DEF Catalogue!Init
  <1>4. Catalogue!TypeOK
    <2>1. wire \in [Labels -> Catalogue!Wires]
      BY DEF Catalogue!Init, Catalogue!Wires
    <2>2. changes \in 0..MaxLabelChanges
      BY ProviderRequestsAssumption DEF Catalogue!Init
    <2>3. /\ phase \in [Labels -> Catalogue!Phases]
          /\ \A l \in Labels : phase[l] # "reconcile"
      <3>1. \A l \in Labels : (IF l \in targets THEN "queued" ELSE "done") \in Catalogue!Phases \ {"reconcile"}
        BY DEF Catalogue!Phases
      <3> QED
        BY <3>1 DEF Catalogue!Init
    <2>4. attempt \in [Labels -> 1..2] /\ effects \in [Labels -> Nat]
      BY DEF Catalogue!Init
    <2>5. "none" \in Catalogue!Outcomes \ {"unknown", "unavailable"}
      BY DEF Catalogue!Outcomes
    <2>6. /\ checked \in [Labels -> Catalogue!Outcomes \ {"unknown", "unavailable"}]
          /\ outcome \in [Labels -> Catalogue!Outcomes]
      BY <2>5 DEF Catalogue!Init
    <2>7. fatal \in BOOLEAN /\ aborted \in BOOLEAN /\ missing \subseteq Labels
      BY DEF Catalogue!Init
    <2> QED
      BY <1>2, <1>3, <2>1, <2>2, <2>3, <2>4, <2>6, <2>7 DEF Catalogue!TypeOK
  <1>5. ASSUME NEW l \in Labels
        PROVE  LabelFits(l, phase[l], wire[l], effects[l], outcome[l])
    <2>1. /\ phase[l] \in {"queued", "done"} /\ wire[l] = "none" /\ effects[l] = 0
          /\ outcome[l] = "none" /\ aborted = FALSE /\ (phase[l] # "done" => l \in targets)
      BY DEF Catalogue!Init
    <2> QED
      BY <1>3, <2>1 DEF LabelFits
  <1>6. Labels \ exists \subseteq missing
    BY DEF Catalogue!Init
  <1>7. aborted => stage = "over"
    BY DEF Catalogue!Init
  <1> QED
    BY <1>4, <1>5, <1>6, <1>7 DEF CatalogueInv

\* What one thread does leaves the other labels as they were.
LEMMA CatalogueMoves ==
  ASSUME CatalogueInv,
         request' = request, targets' = targets, stage' = stage, aborted' = aborted,
         exists' = exists, effects' = effects, missing' = missing, changes' = changes,
         NEW l \in Labels,
         NEW p \in Catalogue!Phases, NEW a \in 1..2,
         NEW c \in Catalogue!Outcomes \ {"unknown", "unavailable"},
         NEW o \in Catalogue!Outcomes, NEW w \in Catalogue!Wires,
         phase' = [phase EXCEPT ![l] = p],
         attempt' = [attempt EXCEPT ![l] = a],
         checked' = [checked EXCEPT ![l] = c],
         outcome' = [outcome EXCEPT ![l] = o],
         wire' = [wire EXCEPT ![l] = w],
         fatal' \in BOOLEAN,
         p = "reconcile" => request.many /\ ~request.create,
         LabelFits(l, p, w, effects[l], o)
  PROVE  CatalogueInv'
  <1>1. /\ phase' \in [Labels -> Catalogue!Phases] /\ attempt' \in [Labels -> 1..2]
        /\ checked' \in [Labels -> Catalogue!Outcomes \ {"unknown", "unavailable"}]
        /\ outcome' \in [Labels -> Catalogue!Outcomes] /\ wire' \in [Labels -> Catalogue!Wires]
    BY DEF CatalogueInv, Catalogue!TypeOK
  <1>2. /\ phase'[l] = p /\ outcome'[l] = o /\ wire'[l] = w
        /\ \A m \in Labels : m # l => /\ phase'[m] = phase[m] /\ outcome'[m] = outcome[m]
                                      /\ wire'[m] = wire[m]
    BY DEF CatalogueInv, Catalogue!TypeOK
  <1>3. \A m \in Labels : phase'[m] = "reconcile" => request.many /\ ~request.create
    BY <1>2 DEF CatalogueInv, Catalogue!TypeOK
  <1>4. Catalogue!TypeOK'
    BY <1>1, <1>3 DEF CatalogueInv, Catalogue!TypeOK
  <1>5. ASSUME NEW m \in Labels
        PROVE  LabelFits(m, phase[m], wire[m], effects[m], outcome[m])'
    <2>1. CASE m = l
      BY <1>2, <2>1 DEF LabelFits
    <2>2. CASE m # l
      <3>1. LabelFits(m, phase[m], wire[m], effects[m], outcome[m])
        BY DEF CatalogueInv
      <3> QED
        BY <1>2, <2>2, <3>1 DEF LabelFits
    <2> QED
      BY <2>1, <2>2
  <1> QED
    BY <1>4, <1>5 DEF CatalogueInv

\* Every step of a label's thread is such a move.
LEMMA CatalogueThread ==
  ASSUME CatalogueInv, NEW l \in targets, Catalogue!ItemStep(l)
  PROVE  CatalogueInv'
  <1>1. /\ l \in Labels /\ phase[l] \in Catalogue!Phases /\ attempt[l] \in 1..2
        /\ checked[l] \in Catalogue!Outcomes \ {"unknown", "unavailable"}
        /\ outcome[l] \in Catalogue!Outcomes /\ wire[l] \in Catalogue!Wires /\ fatal \in BOOLEAN
        /\ stage \in {"preflight", "execute", "over"}
        /\ LabelFits(l, phase[l], wire[l], effects[l], outcome[l])
        /\ aborted => stage = "over"
    BY DEF CatalogueInv, Catalogue!TypeOK
  <1>2. /\ phase = [phase EXCEPT ![l] = phase[l]] /\ attempt = [attempt EXCEPT ![l] = attempt[l]]
        /\ checked = [checked EXCEPT ![l] = checked[l]]
        /\ outcome = [outcome EXCEPT ![l] = outcome[l]] /\ wire = [wire EXCEPT ![l] = wire[l]]
    BY DEF CatalogueInv, Catalogue!TypeOK
  <1> DEFINE Moved(p, a, c, o, w) ==
        /\ p \in Catalogue!Phases /\ a \in 1..2 /\ c \in Catalogue!Outcomes \ {"unknown", "unavailable"}
        /\ o \in Catalogue!Outcomes /\ w \in Catalogue!Wires
        /\ phase' = [phase EXCEPT ![l] = p]
        /\ attempt' = [attempt EXCEPT ![l] = a]
        /\ checked' = [checked EXCEPT ![l] = c]
        /\ outcome' = [outcome EXCEPT ![l] = o]
        /\ wire' = [wire EXCEPT ![l] = w]
        /\ p = "reconcile" => request.many /\ ~request.create
        /\ LabelFits(l, p, w, effects[l], o)
  <1> DEFINE Kept == /\ request' = request /\ targets' = targets /\ stage' = stage
                     /\ aborted' = aborted /\ exists' = exists /\ effects' = effects
                     /\ missing' = missing /\ changes' = changes /\ fatal' \in BOOLEAN
  <1>3. ASSUME NEW p, NEW a, NEW c, NEW o, NEW w, Moved(p, a, c, o, w), Kept
        PROVE  CatalogueInv'
    BY <1>1, <1>3, CatalogueMoves
  <1>4. Kept
    BY <1>1 DEF Catalogue!ItemStep, Catalogue!Start, Catalogue!Token, Catalogue!Check, Catalogue!Lookup,
        Catalogue!Receive, Catalogue!Verify, Catalogue!Reconcile, Catalogue!gmail
  <1> HIDE DEF Kept
  <1> DEFINE On(p) == Moved(p, attempt[l], checked[l], outcome[l], wire[l])
             Sent == Moved("write", attempt[l], checked[l], outcome[l], "sent")
             Again(w) == Moved("token", 2, checked[l], outcome[l], w)
             Found(c) == Moved("done", attempt[l], c, outcome[l], wire[l])
             Answered(o, w) == Moved("done", attempt[l], checked[l], o, w)
  \* Each of the ways a step may settle a label that has no write on its way.
  <1>5. ASSUME NEW o \in {"failed", "system", "not_attempted"}, Catalogue!Settle(l, o), wire' = wire,
               phase[l] \in {"queued", "token", "check", "lookup"}
        PROVE  Found(o) \/ Answered(o, wire[l])
    <2>1. o \in Catalogue!Outcomes \ {"unknown", "unavailable"} /\ "done" \in Catalogue!Phases
      BY DEF Catalogue!Outcomes, Catalogue!Phases
    <2>2. CASE stage = "preflight" /\ checked' = [checked EXCEPT ![l] = o] /\ outcome' = outcome
      <3>1. LabelFits(l, "done", wire[l], effects[l], outcome[l])
        BY <1>1, <1>5 DEF LabelFits
      <3> QED
        BY <1>1, <1>2, <1>5, <2>1, <2>2, <3>1 DEF Catalogue!Settle
    <2>3. CASE stage = "execute" /\ outcome' = [outcome EXCEPT ![l] = o] /\ checked' = checked
      <3>1. LabelFits(l, "done", wire[l], effects[l], o)
        BY <1>1, <1>5, <2>3 DEF LabelFits
      <3> QED
        BY <1>1, <1>2, <1>5, <2>1, <2>3, <3>1 DEF Catalogue!Settle
    <2> QED
      BY <1>5, <2>2, <2>3 DEF Catalogue!Settle
  <1>6. ASSUME Catalogue!Unauthorized(l), wire' = wire,
               phase[l] \in {"check", "lookup"}
        PROVE  Again(wire[l]) \/ Found("failed") \/ Answered("failed", wire[l])
    <2>1. CASE Catalogue!Settle(l, "failed")
      BY <1>5, <1>6, <2>1
    <2>2. CASE phase' = [phase EXCEPT ![l] = "token"] /\ attempt' = [attempt EXCEPT ![l] = 2]
               /\ UNCHANGED <<checked, outcome>>
      <3>1. LabelFits(l, "token", wire[l], effects[l], outcome[l]) /\ "token" \in Catalogue!Phases
        BY <1>1, <1>6 DEF LabelFits, Catalogue!Phases
      <3> QED
        BY <1>1, <1>2, <1>6, <2>2, <3>1
    <2> QED
      BY <1>6, <2>1, <2>2 DEF Catalogue!Unauthorized
  \* An answer of the execution.
  <1>7. ASSUME NEW o \in Catalogue!Outcomes, NEW w \in Catalogue!Wires,
               Catalogue!Settle(l, o), wire' = [wire EXCEPT ![l] = w], stage # "preflight",
               LabelFits(l, "done", w, effects[l], o)
        PROVE  Answered(o, w)
    <2>1. "done" \in Catalogue!Phases
      BY DEF Catalogue!Phases
    <2> QED
      BY <1>1, <1>2, <1>7, <2>1 DEF Catalogue!Settle
  <1>8. ASSUME NEW p \in Catalogue!Phases, NEW w \in Catalogue!Wires,
               Catalogue!Go(l, p), wire' = [wire EXCEPT ![l] = w],
               p = "reconcile" => request.many /\ ~request.create,
               LabelFits(l, p, w, effects[l], outcome[l])
        PROVE  Moved(p, attempt[l], checked[l], outcome[l], w)
    BY <1>1, <1>2, <1>8 DEF Catalogue!Go
  <1> HIDE DEF Moved
  <1>9. ASSUME Catalogue!Start(l) PROVE CatalogueInv'
    <2>1. wire' = wire /\ phase[l] = "queued"
      BY <1>9 DEF Catalogue!Start, Catalogue!gmail
    <2>2. CASE Catalogue!Settle(l, "not_attempted")
      <3>1. Found("not_attempted") \/ Answered("not_attempted", wire[l])
        BY <1>5, <2>1, <2>2
      <3> QED
        BY <1>3, <1>4, <3>1
    <2>3. CASE Catalogue!Go(l, "token")
      <3>1. LabelFits(l, "token", wire[l], effects[l], outcome[l]) /\ "token" \in Catalogue!Phases
        BY <1>1, <2>1 DEF LabelFits, Catalogue!Phases
      <3>2. On("token")
        BY <1>1, <1>2, <1>8, <2>1, <2>3, <3>1
      <3> QED
        BY <1>3, <1>4, <3>2
    <2> QED
      BY <1>9, <2>2, <2>3 DEF Catalogue!Start
  <1>10. ASSUME Catalogue!Token(l) PROVE CatalogueInv'
    <2>1. phase[l] = "token" /\ wire = [wire EXCEPT ![l] = @]
      BY <1>10, <1>2 DEF Catalogue!Token
    <2>2. CASE stage = "preflight" /\ Catalogue!Go(l, "check") /\ wire' = wire
      <3>1. LabelFits(l, "check", wire[l], effects[l], outcome[l]) /\ "check" \in Catalogue!Phases
        BY <1>1, <2>1, <2>2 DEF LabelFits, Catalogue!Phases
      <3>2. On("check")
        BY <1>1, <1>2, <1>8, <2>2, <3>1
      <3> QED
        BY <1>3, <1>4, <3>2
    <2>3. CASE stage = "execute" /\ request.create /\ Catalogue!Go(l, "write")
               /\ wire' = [wire EXCEPT ![l] = "sent"]
      <3>1. LabelFits(l, "write", "sent", effects[l], outcome[l]) /\ "write" \in Catalogue!Phases
            /\ "sent" \in Catalogue!Wires
        BY <1>1, <2>1, <2>3 DEF LabelFits, Catalogue!Phases, Catalogue!Wires
      <3>2. Sent
        BY <1>1, <1>2, <1>8, <2>3, <3>1
      <3> QED
        BY <1>3, <1>4, <3>2
    <2>4. CASE stage = "execute" /\ Catalogue!Go(l, "lookup") /\ wire' = wire
      <3>1. LabelFits(l, "lookup", wire[l], effects[l], outcome[l]) /\ "lookup" \in Catalogue!Phases
        BY <1>1, <2>1, <2>4 DEF LabelFits, Catalogue!Phases
      <3>2. On("lookup")
        BY <1>1, <1>2, <1>8, <2>4, <3>1
      <3> QED
        BY <1>3, <1>4, <3>2
    <2>5. CASE /\ stage = "execute" /\ checked[l] \notin {"none", "succeeded"}
               /\ Catalogue!Settle(l, checked[l]) /\ wire' = wire
      <3>1. checked[l] \in {"failed", "system", "not_attempted"}
        BY <1>1, <2>5 DEF Catalogue!Outcomes
      <3>2. Found(checked[l]) \/ Answered(checked[l], wire[l])
        BY <1>5, <2>1, <2>5, <3>1
      <3> QED
        BY <1>3, <1>4, <3>2
    <2>6. CASE Catalogue!Settle(l, "not_attempted") /\ wire' = wire
      <3>1. Found("not_attempted") \/ Answered("not_attempted", wire[l])
        BY <1>5, <2>1, <2>6
      <3> QED
        BY <1>3, <1>4, <3>1
    <2>7. \/ stage = "preflight" /\ Catalogue!Go(l, "check")
          \/ stage = "execute" /\ request.create /\ Catalogue!Go(l, "write")
          \/ stage = "execute" /\ Catalogue!Go(l, "lookup")
          \/ stage = "execute" /\ checked[l] \notin {"none", "succeeded"} /\ Catalogue!Settle(l, checked[l])
          \/ Catalogue!Settle(l, "not_attempted") /\ wire' = wire
      BY <1>10 DEF Catalogue!Token
    <2>8. \/ Catalogue!Settle(l, "not_attempted") /\ wire' = wire
          \/ wire' = [wire EXCEPT ![l] = IF phase'[l] = "write" THEN "sent" ELSE @]
      BY <1>10 DEF Catalogue!Token
    <2>9. \A p : Catalogue!Go(l, p) => phase'[l] = p
      BY <1>1 DEF Catalogue!Go, CatalogueInv, Catalogue!TypeOK
    <2>10. \A o : Catalogue!Settle(l, o) => phase'[l] = "done"
      BY <1>1 DEF Catalogue!Settle, CatalogueInv, Catalogue!TypeOK
    <2>11. phase'[l] # "write" => wire' = wire
      BY <1>2, <2>8
    <2>12. phase'[l] = "write" => wire' = [wire EXCEPT ![l] = "sent"]
      BY <2>8, <2>10
    <2>13. \/ stage = "preflight" /\ Catalogue!Go(l, "check") /\ phase'[l] = "check"
           \/ stage = "execute" /\ request.create /\ Catalogue!Go(l, "write") /\ phase'[l] = "write"
           \/ stage = "execute" /\ Catalogue!Go(l, "lookup") /\ phase'[l] = "lookup"
           \/ /\ stage = "execute" /\ checked[l] \notin {"none", "succeeded"}
              /\ Catalogue!Settle(l, checked[l]) /\ phase'[l] = "done"
           \/ Catalogue!Settle(l, "not_attempted") /\ wire' = wire
      BY <2>7, <2>9, <2>10
    <2> QED
      BY <2>2, <2>3, <2>4, <2>5, <2>6, <2>11, <2>12, <2>13
  <1>11. ASSUME Catalogue!Check(l) PROVE CatalogueInv'
    <2>1. wire' = wire /\ phase[l] = "check" /\ stage = "preflight"
      BY <1>1, <1>11 DEF Catalogue!Check, Catalogue!gmail, LabelFits
    <2>2. CASE Catalogue!Settle(l, "succeeded")
      <3>1. LabelFits(l, "done", wire[l], effects[l], outcome[l]) /\ "done" \in Catalogue!Phases
            /\ "succeeded" \in Catalogue!Outcomes \ {"unknown", "unavailable"}
        BY <1>1, <2>1 DEF LabelFits, Catalogue!Phases, Catalogue!Outcomes
      <3>2. Found("succeeded")
        BY <1>1, <1>2, <2>1, <2>2, <3>1 DEF Moved, Catalogue!Settle
      <3> QED
        BY <1>3, <1>4, <3>2
    <2>3. CASE Catalogue!Settle(l, "system") \/ Catalogue!Settle(l, "failed")
      <3>1. \/ Found("system") \/ Answered("system", wire[l])
            \/ Found("failed") \/ Answered("failed", wire[l])
        BY <1>5, <2>1, <2>3
      <3> QED
        BY <1>3, <1>4, <3>1
    <2>4. CASE Catalogue!Unauthorized(l)
      <3>1. Again(wire[l]) \/ Found("failed") \/ Answered("failed", wire[l])
        BY <1>6, <2>1, <2>4
      <3> QED
        BY <1>3, <1>4, <3>1
    <2> QED
      BY <1>11, <2>2, <2>3, <2>4 DEF Catalogue!Check
  <1>12. ASSUME Catalogue!Lookup(l) PROVE CatalogueInv'
    <2>1. phase[l] = "lookup"
      BY <1>12 DEF Catalogue!Lookup
    <2>2. wire[l] \in {"none", "rejected"} /\ stage # "preflight"
      BY <1>1, <2>1 DEF LabelFits
    <2>3. CASE l \in exists \ System /\ Catalogue!Go(l, "write") /\ wire' = [wire EXCEPT ![l] = "sent"]
      <3>1. /\ LabelFits(l, "write", "sent", effects[l], outcome[l]) /\ "write" \in Catalogue!Phases
            /\ "sent" \in Catalogue!Wires
        BY <1>1, <2>1, <2>2, <2>3 DEF LabelFits, Catalogue!Phases, Catalogue!Wires
      <3>2. Sent
        BY <1>8, <2>3, <3>1
      <3> QED
        BY <1>3, <1>4, <3>2
    <2>4. CASE Catalogue!Failure(l, "system") /\ wire' = wire
      <3>1. Catalogue!Settle(l, "system")
        BY <2>2, <2>4 DEF Catalogue!Failure, Catalogue!Dispatched
      <3>2. Found("system") \/ Answered("system", wire[l])
        BY <1>5, <2>1, <2>4, <3>1
      <3> QED
        BY <1>3, <1>4, <3>2
    <2>5. CASE Catalogue!Failure(l, "failed") /\ wire' = wire
      <3>1. Catalogue!Settle(l, "failed")
        BY <2>2, <2>5 DEF Catalogue!Failure, Catalogue!Dispatched
      <3>2. Found("failed") \/ Answered("failed", wire[l])
        BY <1>5, <2>1, <2>5, <3>1
      <3> QED
        BY <1>3, <1>4, <3>2
    <2>6. CASE Catalogue!Unauthorized(l) /\ wire' = wire
      <3>1. Again(wire[l]) \/ Found("failed") \/ Answered("failed", wire[l])
        BY <1>6, <2>1, <2>6
      <3> QED
        BY <1>3, <1>4, <3>1
    <2>7. CASE Catalogue!Failure(l, "unavailable") /\ wire' = wire
      <3>1. Catalogue!Settle(l, "unavailable")
        BY <2>2, <2>7 DEF Catalogue!Failure, Catalogue!Dispatched
      <3>2. /\ LabelFits(l, "done", wire[l], effects[l], "unavailable")
            /\ "unavailable" \in Catalogue!Outcomes
        BY <1>1, <2>1 DEF LabelFits, Catalogue!Outcomes
      <3>3. Answered("unavailable", wire[l])
        BY <1>1, <1>2, <1>7, <2>2, <2>7, <3>1, <3>2
      <3> QED
        BY <1>3, <1>4, <3>3
    <2> QED
      BY <1>12, <2>3, <2>4, <2>5, <2>6, <2>7 DEF Catalogue!Lookup, Catalogue!Failures
  <1>13. ASSUME Catalogue!Receive(l) PROVE CatalogueInv'
    <2>1. phase[l] = "write"
      BY <1>13 DEF Catalogue!Receive
    <2>2. wire[l] # "none" /\ stage # "preflight" /\ outcome[l] = "none"
      BY <1>1, <2>1 DEF LabelFits
    <2>3. ASSUME NEW o \in {"failed", "unavailable"}, Catalogue!Refused(l), Catalogue!Settle(l, o)
          PROVE  CatalogueInv'
      <3>1. /\ LabelFits(l, "done", "rejected", effects[l], o) /\ o \in Catalogue!Outcomes
            /\ "rejected" \in Catalogue!Wires /\ wire' = [wire EXCEPT ![l] = "rejected"]
        BY <1>1, <2>1, <2>3 DEF LabelFits, Catalogue!Outcomes, Catalogue!Wires, Catalogue!Refused
      <3>2. Answered(o, "rejected")
        BY <1>7, <2>2, <2>3, <3>1
      <3> QED
        BY <1>3, <1>4, <3>2
    <2>4. CASE Catalogue!Refused(l) /\ Catalogue!Unauthorized(l)
      <3>1. CASE Catalogue!Settle(l, "failed")
        BY <2>3, <2>4, <3>1
      <3>2. CASE phase' = [phase EXCEPT ![l] = "token"] /\ attempt' = [attempt EXCEPT ![l] = 2]
                 /\ UNCHANGED <<checked, outcome>>
        <4>1. /\ LabelFits(l, "token", "rejected", effects[l], outcome[l]) /\ "token" \in Catalogue!Phases
              /\ "rejected" \in Catalogue!Wires /\ wire' = [wire EXCEPT ![l] = "rejected"]
          BY <1>1, <2>1, <2>4 DEF LabelFits, Catalogue!Phases, Catalogue!Wires, Catalogue!Refused
        <4>2. Again("rejected")
          BY <1>1, <1>2, <3>2, <4>1 DEF Moved
        <4> QED
          BY <1>3, <1>4, <4>2
      <3> QED
        BY <2>4, <3>1, <3>2 DEF Catalogue!Unauthorized
    <2>5. CASE wire[l] = "applied" /\ Catalogue!Settle(l, "succeeded") /\ wire' = wire
      <3>1. LabelFits(l, "done", wire[l], effects[l], "succeeded") /\ "succeeded" \in Catalogue!Outcomes
        BY <1>1, <2>1, <2>5 DEF LabelFits, Catalogue!Outcomes
      <3>2. Answered("succeeded", wire[l])
        BY <1>1, <1>2, <1>7, <2>2, <2>5, <3>1
      <3> QED
        BY <1>3, <1>4, <3>2
    <2>6. CASE wire[l] = "applied" /\ request.create /\ Catalogue!Go(l, "verify") /\ wire' = wire
      <3>1. LabelFits(l, "verify", wire[l], effects[l], outcome[l]) /\ "verify" \in Catalogue!Phases
        BY <1>1, <2>1, <2>6 DEF LabelFits, Catalogue!Phases
      <3>2. On("verify")
        BY <1>1, <1>2, <1>8, <2>6, <3>1
      <3> QED
        BY <1>3, <1>4, <3>2
    <2>7. CASE Catalogue!Unsettled(l) /\ wire' = wire
      <3>1. CASE request.many /\ ~request.create /\ Catalogue!Go(l, "reconcile")
        <4>1. LabelFits(l, "reconcile", wire[l], effects[l], outcome[l]) /\ "reconcile" \in Catalogue!Phases
          BY <1>1, <2>1, <3>1 DEF LabelFits, Catalogue!Phases
        <4>2. On("reconcile")
          BY <1>1, <1>2, <1>8, <2>7, <3>1, <4>1
        <4> QED
          BY <1>3, <1>4, <4>2
      <3>2. ASSUME NEW o \in {"unknown", "unavailable"}, Catalogue!Settle(l, o)
            PROVE  CatalogueInv'
        <4>1. LabelFits(l, "done", wire[l], effects[l], o) /\ o \in Catalogue!Outcomes
          BY <1>1, <2>1 DEF LabelFits, Catalogue!Outcomes
        <4>2. Answered(o, wire[l])
          BY <1>1, <1>2, <1>7, <2>2, <2>7, <3>2, <4>1
        <4> QED
          BY <1>3, <1>4, <4>2
      <3> QED
        BY <2>7, <3>1, <3>2 DEF Catalogue!Unsettled
    <2> QED
      BY <1>13, <2>3, <2>4, <2>5, <2>6, <2>7 DEF Catalogue!Receive, Catalogue!Failures
  \* What a read of the label settles.
  <1>14. ASSUME NEW o \in {"succeeded", "unknown"}, Catalogue!Settle(l, o),
                wire' = wire, phase[l] \in {"verify", "reconcile"},
                o = "succeeded" => request.create \/ l \notin exists
         PROVE  CatalogueInv'
    <2>1. l \notin exists => l \in missing
      BY <1>1 DEF CatalogueInv
    <2>2. /\ stage # "preflight" /\ o \in Catalogue!Outcomes
          /\ phase[l] = "reconcile" => ~request.create
      BY <1>1, <1>14 DEF LabelFits, CatalogueInv, Catalogue!TypeOK, Catalogue!Outcomes
    <2>3. LabelFits(l, "done", wire[l], effects[l], o)
      BY <1>1, <1>14, <2>1, <2>2 DEF LabelFits
    <2>4. Answered(o, wire[l])
      BY <1>1, <1>2, <1>7, <1>14, <2>2, <2>3
    <2> QED
      BY <1>3, <1>4, <2>4
  <1>15. ASSUME Catalogue!Verify(l) PROVE CatalogueInv'
    <2>1. request.create
      BY <1>1, <1>15 DEF Catalogue!Verify, LabelFits
    <2> QED
      BY <1>14, <1>15, <2>1 DEF Catalogue!Verify, Catalogue!gmail
  <1>16. ASSUME Catalogue!Reconcile(l) PROVE CatalogueInv'
    BY <1>14, <1>16 DEF Catalogue!Reconcile, Catalogue!gmail
  <1> QED
    BY <1>9, <1>10, <1>11, <1>12, <1>13, <1>15, <1>16 DEF Catalogue!ItemStep

\* The two ends of a request: its preflight's and its own.
LEMMA CatalogueEnds ==
  ASSUME CatalogueInv, Catalogue!EndPreflight \/ Catalogue!EndRequest
  PROVE  CatalogueInv'
  <1>1. /\ wire' = wire /\ effects' = effects /\ exists' = exists /\ missing' = missing
        /\ changes' = changes /\ request' = request /\ targets' = targets
        /\ checked' = checked /\ outcome' = outcome
    BY DEF Catalogue!EndPreflight, Catalogue!EndRequest, Catalogue!gmail
  <1>2. \A l \in Labels : /\ phase[l] = "done"
                          /\ LabelFits(l, phase[l], wire[l], effects[l], outcome[l])
    <2>1. \A l \in targets : phase[l] = "done"
      BY DEF Catalogue!EndPreflight, Catalogue!EndRequest, Catalogue!AllDone
    <2> QED
      BY <2>1 DEF CatalogueInv, LabelFits
  <1>3. aborted = FALSE
    BY DEF CatalogueInv, Catalogue!TypeOK, Catalogue!EndPreflight, Catalogue!EndRequest
  <1>4. CASE stage' = "over" /\ phase' = phase /\ attempt' = attempt /\ fatal' = fatal
             /\ (aborted' = aborted \/ (aborted' = TRUE /\ stage = "preflight"))
    <2>1. Catalogue!TypeOK'
      BY <1>1, <1>4 DEF CatalogueInv, Catalogue!TypeOK
    <2>2. ASSUME NEW l \in Labels
          PROVE  LabelFits(l, phase[l], wire[l], effects[l], outcome[l])'
      BY <1>1, <1>2, <1>3, <1>4 DEF LabelFits
    <2> QED
      BY <1>1, <1>4, <2>1, <2>2 DEF CatalogueInv
  <1>5. CASE /\ stage = "preflight" /\ stage' = "execute" /\ aborted' = aborted /\ fatal' = FALSE
             /\ phase' = [l \in Labels |-> IF l \in targets THEN "queued" ELSE "done"]
             /\ attempt' = [l \in Labels |-> 1]
    <2>1. \A l \in Labels : (IF l \in targets THEN "queued" ELSE "done") \in Catalogue!Phases \ {"reconcile"}
      BY DEF Catalogue!Phases
    <2>2. /\ phase' \in [Labels -> Catalogue!Phases]
          /\ \A l \in Labels : phase'[l] # "reconcile"
      BY <1>5, <2>1
    <2>3. attempt' \in [Labels -> 1..2]
      BY <1>5
    <2>4. Catalogue!TypeOK'
      BY <1>1, <1>3, <1>5, <2>2, <2>3 DEF CatalogueInv, Catalogue!TypeOK
    <2>5. ASSUME NEW l \in Labels
          PROVE  LabelFits(l, phase[l], wire[l], effects[l], outcome[l])'
      <3>1. phase'[l] = (IF l \in targets THEN "queued" ELSE "done")
        BY <1>5
      <3>2. wire[l] = "none" /\ outcome[l] = "none" /\ effects[l] = 0
        BY <1>2, <1>5 DEF LabelFits
      <3> QED
        BY <1>1, <1>3, <1>5, <3>1, <3>2 DEF LabelFits
    <2> QED
      BY <1>1, <1>3, <1>5, <2>4, <2>5 DEF CatalogueInv
  <1>6. CASE Catalogue!EndPreflight
    BY <1>4, <1>5, <1>6 DEF Catalogue!EndPreflight
  <1>7. CASE Catalogue!EndRequest
    BY <1>4, <1>7 DEF Catalogue!EndRequest, Catalogue!item
  <1> QED
    BY <1>6, <1>7

\* Gmail carries out a write or finds nothing to do.
LEMMA CatalogueApply ==
  ASSUME CatalogueInv, NEW l \in targets, Catalogue!Apply(l)
  PROVE  CatalogueInv'
  <1>1. /\ l \in Labels /\ wire[l] = "sent" /\ wire \in [Labels -> Catalogue!Wires]
        /\ effects \in [Labels -> Nat] /\ exists \in SUBSET Labels /\ System \subseteq exists
        /\ missing \subseteq Labels /\ Labels \ exists \subseteq missing
        /\ \A m \in Labels : LabelFits(m, phase[m], wire[m], effects[m], outcome[m])
    BY DEF CatalogueInv, Catalogue!TypeOK, Catalogue!Apply
  <1>2. /\ changes' = changes /\ request' = request /\ targets' = targets /\ stage' = stage
        /\ phase' = phase /\ attempt' = attempt /\ fatal' = fatal /\ checked' = checked
        /\ outcome' = outcome /\ aborted' = aborted
    BY DEF Catalogue!Apply, Catalogue!item
  <1>3. effects[l] = 0 /\ ~aborted /\ stage # "preflight" /\ (request.create \/ l \notin System)
    BY <1>1 DEF LabelFits
  <1>4. /\ exists' \in SUBSET Labels /\ System \subseteq exists'
        /\ missing \subseteq missing' /\ missing' \subseteq Labels /\ Labels \ exists' \subseteq missing'
        /\ \/ /\ wire' = [wire EXCEPT ![l] = "applied"] /\ effects' = [effects EXCEPT ![l] = 1]
              /\ ~request.create => l \in missing'
           \/ wire' = [wire EXCEPT ![l] = "rejected"] /\ effects' = effects
    <2>1. CASE /\ exists' = IF request.create THEN exists \cup {l} ELSE exists \ {l}
               /\ wire' = [wire EXCEPT ![l] = "applied"]
               /\ effects' = [effects EXCEPT ![l] = @ + 1]
               /\ missing' = missing \cup (Labels \ exists')
      <3>1. exists' \in SUBSET Labels
        BY <1>1, <2>1
      <3>2. System \subseteq exists'
        BY <1>1, <1>3, <2>1
      <3>3. ~request.create => l \in missing'
        BY <1>1, <2>1
      <3>4. effects' = [effects EXCEPT ![l] = 1]
        BY <1>3, <2>1
      <3>5. /\ missing \subseteq missing' /\ missing' \subseteq Labels /\ Labels \ exists' \subseteq missing'
        BY <1>1, <2>1
      <3> QED
        BY <2>1, <3>1, <3>2, <3>3, <3>4, <3>5
    <2>2. CASE wire' = [wire EXCEPT ![l] = "rejected"] /\ UNCHANGED <<exists, effects, missing>>
      BY <1>1, <2>2
    <2> QED
      BY <2>1, <2>2 DEF Catalogue!Apply
  <1>5. wire' \in [Labels -> Catalogue!Wires] /\ effects' \in [Labels -> Nat]
    <2>1. "applied" \in Catalogue!Wires /\ "rejected" \in Catalogue!Wires
      BY DEF Catalogue!Wires
    <2>2. wire' \in [Labels -> Catalogue!Wires]
      BY <1>1, <1>4, <2>1
    <2>3. effects' \in [Labels -> Nat]
      BY <1>1, <1>4
    <2> QED
      BY <2>2, <2>3
  <1>6. Catalogue!TypeOK'
    BY <1>2, <1>4, <1>5 DEF CatalogueInv, Catalogue!TypeOK
  <1>7. ASSUME NEW m \in Labels
        PROVE  LabelFits(m, phase[m], wire[m], effects[m], outcome[m])'
    <2>1. CASE m # l
      <3>1. wire'[m] = wire[m] /\ effects'[m] = effects[m] /\ (m \in missing => m \in missing')
        BY <1>1, <1>4, <2>1
      <3> QED
        BY <1>1, <1>2, <3>1 DEF LabelFits
    <2>2. CASE m = l /\ wire'[l] = "applied" /\ effects'[l] = 1 /\ (~request.create => l \in missing')
      <3>1. LabelFits(l, phase[l], "sent", effects[l], outcome[l]) /\ (l \in missing => l \in missing')
        BY <1>1, <1>4
      <3> QED
        BY <1>2, <1>3, <2>2, <3>1 DEF LabelFits
    <2>3. CASE m = l /\ wire'[l] = "rejected" /\ effects'[l] = effects[l]
      <3>1. LabelFits(l, phase[l], "sent", effects[l], outcome[l]) /\ (l \in missing => l \in missing')
        BY <1>1, <1>4
      <3>2. phase[l] # "verify"
        BY <3>1 DEF LabelFits
      <3> QED
        BY <1>2, <1>3, <2>3, <3>1, <3>2 DEF LabelFits
    <2> QED
      BY <1>1, <1>4, <2>1, <2>2, <2>3
  <1> QED
    BY <1>2, <1>3, <1>4, <1>6, <1>7 DEF CatalogueInv

\* Somebody else creates or deletes a label that is not Gmail's own.
LEMMA CatalogueOthers ==
  ASSUME CatalogueInv, NEW l \in targets, Catalogue!Others(l)
  PROVE  CatalogueInv'
  <1>1. /\ wire' = wire /\ effects' = effects /\ request' = request /\ targets' = targets
        /\ stage' = stage /\ phase' = phase /\ attempt' = attempt /\ fatal' = fatal
        /\ checked' = checked /\ outcome' = outcome /\ aborted' = aborted
        /\ changes' = changes + 1 /\ changes < MaxLabelChanges
        /\ missing' = missing \cup (Labels \ exists') /\ l \notin System
    BY DEF Catalogue!Others, Catalogue!item
  <1>2. /\ exists \in SUBSET Labels /\ System \subseteq exists /\ l \in Labels
        /\ changes \in 0..MaxLabelChanges /\ missing \subseteq Labels
    BY DEF CatalogueInv, Catalogue!TypeOK
  <1>3. exists' \in SUBSET Labels
    BY <1>2 DEF Catalogue!Others
  <1>4. System \subseteq exists'
    BY <1>1, <1>2 DEF Catalogue!Others
  <1>5. changes' \in 0..MaxLabelChanges
    BY <1>1, <1>2, ProviderRequestsAssumption
  <1>6. missing' \subseteq Labels /\ missing \subseteq missing' /\ Labels \ exists' \subseteq missing'
    BY <1>1, <1>2
  <1>7. Catalogue!TypeOK'
    BY <1>1, <1>3, <1>4, <1>5, <1>6 DEF CatalogueInv, Catalogue!TypeOK
  <1>8. ASSUME NEW m \in Labels
        PROVE  LabelFits(m, phase[m], wire[m], effects[m], outcome[m])'
    <2>1. LabelFits(m, phase[m], wire[m], effects[m], outcome[m]) /\ (m \in missing => m \in missing')
      BY <1>6 DEF CatalogueInv
    <2> QED
      BY <1>1, <2>1 DEF LabelFits
  <1> QED
    BY <1>1, <1>6, <1>7, <1>8 DEF CatalogueInv

\* Every step, the request's or somebody else's.
LEMMA CatalogueStep ==
  ASSUME CatalogueInv, Catalogue!Next
  PROVE  CatalogueInv'
  BY CatalogueThread, CatalogueEnds, CatalogueApply, CatalogueOthers
  DEF Catalogue!Next, Catalogue!RequestStep, Catalogue!Elsewhere

\* What is reported of a label is so, it is written once, and a rejected set is whole.
LEMMA CatalogueTrue ==
  ASSUME CatalogueInv
  PROVE  /\ Catalogue!OutcomesTruthful /\ Catalogue!RejectedSetUntouched
         /\ Catalogue!OneEffectPerLabel
  <1>1. targets \subseteq Labels /\ System \subseteq Labels /\ wire \in [Labels -> Catalogue!Wires]
    BY ProviderRequestsAssumption DEF CatalogueInv, Catalogue!TypeOK
  <1>2. \A l \in Labels : LabelFits(l, phase[l], wire[l], effects[l], outcome[l])
    BY DEF CatalogueInv
  <1>3. Catalogue!OutcomesTruthful
    BY <1>1, <1>2 DEF LabelFits, Catalogue!OutcomesTruthful
  <1>4. Catalogue!RejectedSetUntouched
    BY <1>2 DEF LabelFits, Catalogue!RejectedSetUntouched
  <1>5. Catalogue!OneEffectPerLabel
    BY <1>1, <1>2 DEF LabelFits, Catalogue!OneEffectPerLabel
  <1> QED
    BY <1>3, <1>4, <1>5

------------------------------------------------------------------------------
(* A request of any kind.                                                   *)

Inv ==
    /\ kind \in Kinds
    /\ kind = "messages" => MessagesInv
    /\ kind = "catalogue" => CatalogueInv
    /\ kind = "drafts" => DraftsInv
    /\ kind = "page" => PagesInv
    /\ kind = "reads" => ReadsInv

\* Whatever the kind, its own invariant holds at first.
LEMMA Initially ==
  ASSUME Init
  PROVE  Inv
  <1>1. CASE kind = "messages" /\ Messages!Init
    BY <1>1, MessagesInit DEF Inv, Kinds
  <1>2. CASE kind = "catalogue" /\ Catalogue!Init
    BY <1>2, CatalogueInit DEF Inv, Kinds
  <1>3. CASE kind = "drafts" /\ Drafts!Init
    BY <1>3, DraftsInit DEF Inv, Kinds
  <1>4. CASE kind = "page" /\ Pages!Init
    BY <1>4, PagesInit DEF Inv, Kinds
  <1>5. CASE kind = "reads" /\ Reads!Init
    BY <1>5, ReadsInit DEF Inv, Kinds
  <1> QED
    BY <1>1, <1>2, <1>3, <1>4, <1>5 DEF Init

\* A step of a request is a step of its kind, which stays what it is.
LEMMA Steps ==
  ASSUME Inv, Next
  PROVE  Inv'
  <1>1. CASE kind = "messages" /\ kind' = kind /\ Messages!Next
    BY <1>1, MessagesStep DEF Inv
  <1>2. CASE kind = "catalogue" /\ kind' = kind /\ Catalogue!Next
    BY <1>2, CatalogueStep DEF Inv
  <1>3. CASE kind = "drafts" /\ kind' = kind /\ Drafts!Next
    BY <1>3, DraftsStep DEF Inv
  <1>4. CASE kind = "page" /\ kind' = kind /\ Pages!Next
    BY <1>4, PagesStep DEF Inv
  <1>5. CASE kind = "reads" /\ kind' = kind /\ Reads!RequestStep
    BY <1>5, ReadsStep DEF Inv
  <1>6. CASE RequestStep
    <2>1. \/ kind = "messages" /\ kind' = kind /\ Messages!RequestStep
          \/ kind = "catalogue" /\ kind' = kind /\ Catalogue!RequestStep
          \/ kind = "drafts" /\ kind' = kind /\ Drafts!RequestStep
          \/ kind = "page" /\ kind' = kind /\ Pages!RequestStep
          \/ kind = "reads" /\ kind' = kind /\ Reads!RequestStep
      BY <1>6 DEF RequestStep, besideMessages, besideCatalogue, besideDrafts, besidePage, besideReads
    <2> QED
      BY <1>1, <1>2, <1>3, <1>4, <1>5, <2>1
      DEF Messages!Next, Catalogue!Next, Drafts!Next, Pages!Next
  <1>7. CASE Elsewhere
    <2>1. \/ kind = "messages" /\ kind' = kind /\ Messages!Elsewhere
          \/ kind = "catalogue" /\ kind' = kind /\ Catalogue!Elsewhere
          \/ kind = "drafts" /\ kind' = kind /\ Drafts!Elsewhere
          \/ kind = "page" /\ kind' = kind /\ Pages!Elsewhere
      BY <1>7 DEF Elsewhere, besideMessages, besideCatalogue, besideDrafts, besidePage
    <2> QED
      BY <1>1, <1>2, <1>3, <1>4, <2>1 DEF Messages!Next, Catalogue!Next, Drafts!Next, Pages!Next
  <1> QED
    BY <1>6, <1>7 DEF Next

\* A step that changes nothing.
LEMMA Stutters ==
  ASSUME Inv, UNCHANGED vars
  PROVE  Inv'
  <1>1. kind' = kind
    BY DEF vars
  <1>2. ASSUME MessagesInv PROVE MessagesInv'
    BY <1>2 DEF vars, messageVars, MessagesInv, MessagesSent, MessagesRead, Messages!TypeOK,
       Messages!SucceededWasSeen, Messages!FailedIsUntouched, Messages!Targets, Messages!Rank,
       Messages!Requests
  <1>3. ASSUME CatalogueInv PROVE CatalogueInv'
    BY <1>3 DEF vars, catalogueVars, CatalogueInv, LabelFits, Catalogue!TypeOK
  <1>4. ASSUME DraftsInv PROVE DraftsInv'
    BY <1>4 DEF vars, DraftsInv, DraftFits, Drafts!TypeOK, Drafts!Items
  <1>5. ASSUME PagesInv PROVE PagesInv'
    BY <1>5 DEF vars, pageVars, PagesInv, Pages!TypeOK, Pages!PageComplete
  <1>6. ASSUME ReadsInv PROVE ReadsInv'
    BY <1>6 DEF vars, readVars, ReadsInv, Reads!TypeOK, Reads!WithinBudget, Reads!Total, Reads!Units,
       Reads!Size, Threads, Filled, FilledTo, Refusals, Reads!WindowOf
  <1> QED
    BY <1>1, <1>2, <1>3, <1>4, <1>5, <1>6 DEF Inv

\* The invariant, for every number of messages and labels and every change by others.
THEOREM Invariant == Spec => []Inv
  <1>1. Init => Inv
    BY Initially
  <1>2. Inv /\ [Next]_vars => Inv'
    BY Steps, Stutters
  <1> QED
    BY <1>1, <1>2, PTL DEF Spec

\* Type correctness of a request of any kind (broker/handlers, gmail).
THEOREM TypeCorrect == Spec => []TypeOK
  <1>1. Inv => TypeOK
    BY DEF Inv, TypeOK, MessagesInv, CatalogueInv, DraftsInv, PagesInv, ReadsInv
  <1> QED
    BY <1>1, Invariant, PTL

\* What a structured result says of each of its items is so: a success was seen after
\* the write, and what failed was not changed and will not be (bulk_items.rs, bulk.rs).
THEOREM OutcomesTrue == Spec => []OutcomesTruthful
  <1>1. Inv => OutcomesTruthful
    <2>1. Inv => TypeOK
      BY DEF Inv, TypeOK, MessagesInv, CatalogueInv, DraftsInv, PagesInv, ReadsInv
    <2> QED
      BY <2>1, CatalogueTrue, DraftsTrue DEF Inv, OutcomesTruthful, MessagesInv
  <1> QED
    BY <1>1, Invariant, PTL

\* A write Gmail may have acted on is not sent again, whatever answer was lost or
\* repeated after a 401 (broker/handlers/tokens.rs).
THEOREM OnceWritten == Spec => []WrittenOnce
  <1>1. Inv => WrittenOnce
    BY MessagesTrue, CatalogueTrue, DraftsTrue DEF Inv, WrittenOnce
  <1> QED
    BY <1>1, Invariant, PTL

\* A page is one whole listing, and a set of messages read fits its budget with every
\* message accounted for in its own place (bulk_emails.rs, gmail/client.rs).
THEOREM ReadsTrueToMailbox == Spec => []ReadsTruthful
  <1>1. Inv => ReadsTruthful
    BY ReadsTrue DEF Inv, ReadsTruthful, PagesInv, ReadsInv
  <1> QED
    BY <1>1, Invariant, PTL
------------------------------------------------------------------------------
(* Every request keeps its promise (module RequestPromise).                 *)

\* What is said of the items of each kind.
LEMMA StatusByKind ==
  ASSUME kind \in Kinds, NEW i \in Names
  PROVE  /\ kind = "messages" =>
              Status(i) = IF i \in Messages!Targets
                          THEN IF outcome[i] = "none" THEN OfAll(answer) ELSE outcome[i]
                          ELSE "none"
         /\ kind = "catalogue" =>
              Status(i) = IF i \in targets
                          THEN IF aborted \/ outcome[i] = "system" THEN "failed" ELSE outcome[i]
                          ELSE "none"
         /\ kind = "drafts" => Status(i) = IF i \in Drafts!Items THEN outcome[i] ELSE "none"
         /\ kind \in {"page", "reads"} => Status(i) = "none"
  BY DEF Status, Kinds

\* Nothing else is ever said of an item.
LEMMA StatusTyped ==
  ASSUME Inv, NEW i \in Names
  PROVE  Status(i) \in Promise!Statuses
  <1>1. /\ kind \in Kinds
        /\ {"none", "succeeded", "unknown", "unavailable", "failed", "not_attempted"}
               \subseteq Promise!Statuses
    BY DEF Inv, Promise!Statuses, Promise!Untouched
  <1>2. OfAll(answer) \in {"none", "succeeded", "unknown", "unavailable", "failed"}
    BY DEF OfAll
  <1>3. CASE kind = "messages"
    <2>1. Messages!Targets \subseteq 1..N
      BY ProviderRequestsAssumption DEF Messages!Targets, Messages!Positions
    <2>2. i \in Messages!Targets => outcome[i] \in Messages!Outcomes
      BY <1>3, <2>1 DEF Inv, MessagesInv, Messages!TypeOK, Messages!Positions
    <2> QED
      BY <1>1, <1>2, <1>3, <2>2, StatusByKind DEF Messages!Outcomes
  <1>4. CASE kind = "catalogue"
    <2>1. i \in targets => outcome[i] \in Catalogue!Outcomes
      BY <1>4 DEF Inv, CatalogueInv, Catalogue!TypeOK
    <2> QED
      BY <1>1, <1>4, <2>1, StatusByKind DEF Catalogue!Outcomes
  <1>5. CASE kind = "drafts"
    <2>1. i \in Drafts!Items => outcome[i] \in Drafts!Outcomes
      BY <1>5 DEF Inv, DraftsInv, Drafts!TypeOK
    <2> QED
      BY <1>1, <1>5, <2>1, StatusByKind DEF Drafts!Outcomes
  <1>6. CASE kind \in {"page", "reads"}
    BY <1>1, <1>6, StatusByKind
  <1> QED
    BY <1>1, <1>3, <1>4, <1>5, <1>6 DEF Kinds

\* How often each kind took effect, and whether nobody else can have done it.
LEMMA EffectByKind ==
  ASSUME kind \in Kinds
  PROVE  /\ kind = "messages" => ~Creates /\ \A i : Effect(i) = IF i \in touched THEN 1 ELSE 0
         /\ kind = "catalogue" => /\ Creates <=> request.create
                                  /\ \A i \in Labels : Effect(i) = effects[i]
         /\ kind = "drafts" => Creates /\ \A i \in Drafts!Items : Effect(i) = drafts[i]
         /\ kind \in {"page", "reads"} => ~Creates /\ \A i : Effect(i) = 0
  <1>1. kind = "messages" => ~Creates /\ \A i : Effect(i) = IF i \in touched THEN 1 ELSE 0
    BY DEF Effect, Creates
  <1>2. kind = "catalogue" => (Creates <=> request.create) /\ \A i \in Labels : Effect(i) = effects[i]
    BY DEF Effect, Creates
  <1>3. kind = "drafts" => Creates /\ \A i \in Drafts!Items : Effect(i) = drafts[i]
    BY DEF Effect, Creates
  <1>4. kind \in {"page", "reads"} => ~Creates /\ \A i : Effect(i) = 0
    BY DEF Effect, Creates
  <1> QED
    BY <1>1, <1>2, <1>3, <1>4

\* A step that may settle items that nothing was said of.
LEMMA Tells ==
  ASSUME Creates' = Creates, \A i \in Names : Effect(i)' = Effect(i),
         \A i \in Names : Status(i)' \in Promise!Statuses,
         \A i \in Names : Status(i)' # Status(i) =>
            /\ Status(i) = "none"
            /\ Status(i)' \in Promise!Untouched => Effect(i) = 0
            /\ Creates /\ Status(i)' = "succeeded" => Effect(i) = 1
  PROVE  Promise!Tell
  <1> DEFINE s == [i \in Names |-> Status(i)]
             t == [i \in Names |-> Status(i)']
             e == [i \in Names |-> Effect(i)]
  <1>1. s' = t /\ e' = e
    OBVIOUS
  <1>2. t \in [Names -> Promise!Statuses]
    OBVIOUS
  <1>3. ASSUME NEW i \in Names, t[i] # s[i]
        PROVE  s[i] = "none" /\ Promise!Tellable(i, t[i])
    <2>1. t[i] = Status(i)' /\ s[i] = Status(i) /\ e[i] = Effect(i)
      OBVIOUS
    <2> QED
      BY <1>3, <2>1 DEF Promise!Tellable
  <1> QED
    BY <1>1, <1>2, <1>3 DEF Promise!Tell

\* A step on which the request takes effect on an item.
LEMMA Changes ==
  ASSUME Creates' = Creates, \A j \in Names : Status(j)' = Status(j),
         NEW i \in Names, Effect(i) = 0, Effect(i)' = 1, Status(i) \notin Promise!Untouched,
         \A j \in Names : j # i => Effect(j)' = Effect(j)
  PROVE  Promise!Change
  <1> DEFINE s == [j \in Names |-> Status(j)]
             e == [j \in Names |-> Effect(j)]
             f == [j \in Names |-> Effect(j)']
  <1>1. s' = s /\ e' = f
    OBVIOUS
  <1>2. s[i] \notin Promise!Untouched /\ e[i] = 0
    OBVIOUS
  <1>3. f = [e EXCEPT ![i] = 1]
    OBVIOUS
  <1> QED
    BY <1>1, <1>2, <1>3 DEF Promise!Change

\* Labels on messages: the steps of the request settle all of it at once.
LEMMA MessagesTell ==
  ASSUME Inv, Inv', kind = "messages", kind' = kind, Messages!RequestStep
  PROVE  Promise!Tell
  <1>1. kind \in Kinds /\ MessagesInv /\ MessagesInv' /\ kind' \in Kinds
    BY DEF Inv
  <1>2. request' = request /\ touched' = touched /\ phase # "answered"
    BY DEF Messages!RequestStep, Messages!Token, Messages!CheckLabel, Messages!PreflightDone,
           Messages!Receive, Messages!Finish, Messages!CheckMessage, Messages!Readback,
           Messages!gmail, Messages!reads, Messages!result
  <1>3. answer = "none" /\ \A i \in 1..N : outcome[i] = "none"
    BY <1>1, <1>2 DEF MessagesInv, MessagesRead, Messages!TypeOK
  <1>4. Creates' = Creates /\ \A i \in Names : Effect(i)' = Effect(i)
    BY <1>2 DEF Creates, Effect
  <1>5. Messages!Targets \subseteq 1..N /\ Messages!Targets' = Messages!Targets
    BY <1>2, ProviderRequestsAssumption DEF Messages!Targets, Messages!Positions
  <1>6. ASSUME NEW i \in Names
        PROVE  /\ Status(i) = "none"
               /\ Status(i)' \in Promise!Statuses
               /\ Status(i)' \in Promise!Untouched => i \notin touched
    <2>1. Status(i) = "none"
      BY <1>1, <1>3, <1>5, StatusByKind DEF OfAll
    <2>2. CASE i \notin Messages!Targets
      <3>1. Status(i)' = "none"
        BY <1>1, <1>5, <2>2 DEF Status
      <3> QED
        BY <2>1, <3>1 DEF Promise!Statuses, Promise!Untouched
    <2>3. CASE i \in Messages!Targets
      <3>1. Status(i)' = IF outcome'[i] = "none" THEN OfAll(answer') ELSE outcome'[i]
        BY <1>1, <1>5, <2>3 DEF Status, OfAll
      <3>2. outcome'[i] \in Messages!Outcomes /\ i \in 1..N
        BY <1>1, <1>5, <2>3 DEF MessagesInv, Messages!TypeOK, Messages!Positions
      <3>3. /\ outcome'[i] = "failed" => i \notin touched'
            /\ answer' \in {"rejected", "reauthenticate", "credential"} => touched' = {}
        BY <1>1, <3>2 DEF MessagesInv, Messages!FailedIsUntouched, Messages!Positions
      <3>4. CASE outcome'[i] = "none"
        <4>1. \/ OfAll(answer') \in {"none", "succeeded", "unknown", "unavailable"}
              \/ OfAll(answer') = "failed" /\ answer' \in {"rejected", "reauthenticate", "credential"}
          BY DEF OfAll
        <4> QED
          BY <1>2, <2>1, <3>1, <3>3, <3>4, <4>1 DEF Promise!Statuses, Promise!Untouched
      <3>5. CASE outcome'[i] # "none"
        BY <1>2, <2>1, <3>1, <3>2, <3>3, <3>5 DEF Promise!Statuses, Promise!Untouched, Messages!Outcomes
      <3> QED
        BY <3>4, <3>5
    <2> QED
      BY <2>2, <2>3
  <1>7. ~Creates /\ \A i : Effect(i) = IF i \in touched THEN 1 ELSE 0
    BY <1>1, EffectByKind
  <1> QED
    BY <1>4, <1>6, <1>7, Tells

\* Gmail changes a message, and other people what they like.
LEMMA MessagesChange ==
  ASSUME Inv, Inv', kind = "messages", kind' = kind, Messages!Elsewhere
  PROVE  Promise!Change \/ Promise!Tell
  <1>1. kind \in Kinds /\ MessagesInv /\ MessagesInv'
    BY DEF Inv
  <1>2. request' = request /\ outcome' = outcome /\ answer' = answer
    BY DEF Messages!Elsewhere, Messages!Apply, Messages!Others, Messages!result
  <1>3. Creates' = Creates
    BY <1>2 DEF Creates
  <1>4. \A i \in Names : Status(i)' = Status(i)
    BY <1>2 DEF Status, Messages!Targets, Messages!Positions
  <1>5. \A i : /\ Effect(i) = IF i \in touched THEN 1 ELSE 0
              /\ Effect(i)' = IF i \in touched' THEN 1 ELSE 0
    BY <1>1, EffectByKind DEF Effect
  <1>6. CASE touched' = touched
    <2>1. \A i \in Names : Status(i)' \in Promise!Statuses
      BY <1>4, StatusTyped
    <2> QED
      BY <1>3, <1>4, <1>5, <1>6, <2>1, Tells
  <1>7. CASE touched' # touched
    <2>1. PICK i \in 1..N : i \in pending /\ touched' = touched \cup {i}
      BY <1>7 DEF Messages!Elsewhere, Messages!Apply, Messages!Others, Messages!Positions
    <2>2. /\ i \in Names /\ Effect(i) = 0 /\ Effect(i)' = 1
          /\ \A j \in Names : j # i => Effect(j)' = Effect(j)
      BY <1>5, <1>7, <2>1 DEF Names
    <2>3. /\ outcome[i] \in Messages!Outcomes /\ outcome[i] # "failed"
          /\ answer \notin {"rejected", "reauthenticate", "credential"}
      BY <1>1, <2>1 DEF MessagesInv, Messages!TypeOK, Messages!FailedIsUntouched, Messages!Positions
    <2>4. OfAll(answer) \in {"none", "succeeded", "unknown", "unavailable"}
      BY <2>3 DEF OfAll
    <2>5. Status(i) \in {"none", "succeeded", "unknown", "unavailable"}
      BY <1>1, <2>2, <2>3, <2>4, StatusByKind DEF Messages!Outcomes
    <2>6. Status(i) \notin Promise!Untouched
      BY <2>5 DEF Promise!Untouched
    <2> QED
      BY <1>3, <1>4, <2>2, <2>6, Changes
  <1> QED
    BY <1>6, <1>7

\* Labels: a thread settles its own label, which was open, and the end of the preflight
\* all of them.
LEMMA CatalogueTells ==
  ASSUME Inv, Inv', kind = "catalogue", kind' = kind, Catalogue!RequestStep
  PROVE  Promise!Tell
  <1>1. kind \in Kinds /\ CatalogueInv /\ CatalogueInv' /\ kind' \in Kinds
    BY DEF Inv
  <1>2. request' = request /\ targets' = targets /\ effects' = effects
    BY DEF Catalogue!RequestStep, Catalogue!ItemStep, Catalogue!Start, Catalogue!Token,
           Catalogue!Check, Catalogue!Lookup, Catalogue!Receive, Catalogue!Verify,
           Catalogue!Reconcile, Catalogue!EndPreflight, Catalogue!EndRequest, Catalogue!gmail
  <1>3. Creates' = Creates /\ \A i \in Names : Effect(i)' = Effect(i)
    BY <1>2 DEF Creates, Effect
  <1>4. targets \subseteq Labels /\ \A l \in Labels : effects[l] \in Nat /\ outcome'[l] \in Catalogue!Outcomes
    BY <1>1 DEF CatalogueInv, Catalogue!TypeOK
  \* What was settled stays so.
  <1>5. ASSUME NEW m \in targets
        PROVE  \/ outcome'[m] = outcome[m] /\ aborted' = aborted
               \/ outcome[m] = "none" /\ ~aborted
    <2>1. CASE \E l \in targets : Catalogue!ItemStep(l)
      <3>1. PICK l \in targets : Catalogue!ItemStep(l)
        BY <2>1
      <3>2. /\ aborted' = aborted /\ phase[l] # "done"
        BY <3>1 DEF Catalogue!ItemStep, Catalogue!Start, Catalogue!Token, Catalogue!Check,
           Catalogue!Lookup, Catalogue!Receive, Catalogue!Verify, Catalogue!Reconcile
      <3>3. outcome[l] = "none" /\ ~aborted
        BY <1>1, <1>4, <3>2 DEF CatalogueInv, LabelFits
      <3>4. l # m => outcome'[m] = outcome[m]
        <4> DEFINE OthersKept == outcome' = outcome \/ \E o : outcome' = [outcome EXCEPT ![l] = o]
        <4>1. \A o : Catalogue!Settle(l, o) => OthersKept
          BY DEF Catalogue!Settle
        <4>2. \A p : Catalogue!Go(l, p) => OthersKept
          BY DEF Catalogue!Go
        <4>3. Catalogue!Unauthorized(l) => OthersKept
          BY <4>1 DEF Catalogue!Unauthorized
        <4>4. Catalogue!Unsettled(l) => OthersKept
          BY <4>1, <4>2 DEF Catalogue!Unsettled
        <4>5. \A o : Catalogue!Failure(l, o) => OthersKept
          BY <4>1 DEF Catalogue!Failure
        <4> HIDE DEF OthersKept
        <4>6. Catalogue!Start(l) \/ Catalogue!Token(l) => OthersKept
          BY <4>1, <4>2 DEF Catalogue!Start, Catalogue!Token
        <4>7. Catalogue!Check(l) \/ Catalogue!Lookup(l) => OthersKept
          BY <4>1, <4>2, <4>3, <4>5 DEF Catalogue!Check, Catalogue!Lookup
        <4>8. Catalogue!Receive(l) => OthersKept
          BY <4>1, <4>2, <4>3, <4>4 DEF Catalogue!Receive
        <4>9. Catalogue!Verify(l) \/ Catalogue!Reconcile(l) => OthersKept
          BY <4>1 DEF Catalogue!Verify, Catalogue!Reconcile
        <4>10. OthersKept
          BY <3>1, <4>6, <4>7, <4>8, <4>9 DEF Catalogue!ItemStep
        <4> QED
          BY <1>1, <4>10 DEF OthersKept, CatalogueInv, Catalogue!TypeOK
      <3> QED
        BY <3>2, <3>3, <3>4
    <2>2. CASE Catalogue!EndPreflight
      <3>1. stage = "preflight"
        BY <2>2 DEF Catalogue!EndPreflight
      <3> QED
        BY <1>1, <1>4, <3>1 DEF CatalogueInv, LabelFits
    <2>3. CASE Catalogue!EndRequest
      BY <2>3 DEF Catalogue!EndRequest
    <2> QED
      BY <2>1, <2>2, <2>3 DEF Catalogue!RequestStep
  <1>6. ASSUME NEW i \in Names
        PROVE  /\ Status(i)' # Status(i) =>
                    /\ Status(i) = "none"
                    /\ Status(i)' \in Promise!Untouched => Effect(i) = 0
                    /\ Creates /\ Status(i)' = "succeeded" => Effect(i) = 1
               /\ Status(i)' \in Promise!Statuses
    <2>1. CASE i \notin targets
      <3>1. Status(i)' = Status(i)
        BY <1>1, <1>2, <2>1, StatusByKind DEF Status
      <3> QED
        BY <3>1, StatusTyped
    <2>2. CASE i \in targets
      <3>1. /\ Status(i) = IF aborted \/ outcome[i] = "system" THEN "failed" ELSE outcome[i]
            /\ Status(i)' = IF aborted' \/ outcome'[i] = "system" THEN "failed" ELSE outcome'[i]
        BY <1>1, <1>2, <2>2 DEF Status
      <3>2. LabelFits(i, phase[i], wire[i], effects[i], outcome[i])'
        BY <1>1, <1>4, <2>2 DEF CatalogueInv
      <3>3. Effect(i) = effects[i]
        BY <1>1, <1>4, <2>2, EffectByKind
      <3>4. Status(i)' \in Promise!Untouched => Effect(i) = 0
        BY <1>2, <3>1, <3>2, <3>3 DEF LabelFits, Promise!Untouched
      <3>5. Creates /\ Status(i)' = "succeeded" => Effect(i) = 1
        BY <1>1, <1>2, <3>1, <3>2, <3>3, EffectByKind DEF LabelFits
      <3>6. Status(i)' \in Promise!Statuses
        BY <1>4, <2>2, <3>1 DEF Catalogue!Outcomes, Promise!Statuses, Promise!Untouched
      <3> QED
        BY <1>5, <2>2, <3>1, <3>4, <3>5, <3>6
    <2> QED
      BY <2>1, <2>2
  <1> QED
    BY <1>3, <1>6, Tells

\* Gmail carries out a write for a label, or other people act.
LEMMA CatalogueChange ==
  ASSUME Inv, Inv', kind = "catalogue", kind' = kind, Catalogue!Elsewhere
  PROVE  Promise!Change \/ Promise!Tell
  <1>1. kind \in Kinds /\ CatalogueInv /\ CatalogueInv'
    BY DEF Inv
  <1>2. request' = request /\ outcome' = outcome /\ aborted' = aborted /\ targets' = targets
    BY DEF Catalogue!Elsewhere, Catalogue!Apply, Catalogue!Others
  <1>3. Creates' = Creates
    BY <1>2 DEF Creates
  <1>4. \A i \in Names : Status(i)' = Status(i)
    BY <1>2 DEF Status
  <1>5. CASE effects' = effects
    <2>1. \A i \in Names : Effect(i)' = Effect(i)
      BY <1>5 DEF Effect
    <2>2. \A i \in Names : Status(i)' \in Promise!Statuses
      BY <1>4, StatusTyped
    <2> QED
      BY <1>3, <1>4, <2>1, <2>2, Tells
  <1>6. CASE effects' # effects
    <2>1. PICK l \in targets : wire[l] = "sent" /\ effects' = [effects EXCEPT ![l] = @ + 1]
      BY <1>6 DEF Catalogue!Elsewhere, Catalogue!Apply, Catalogue!Others
    <2>2. l \in Labels /\ l \in Names /\ effects \in [Labels -> Nat] /\ outcome[l] \in Catalogue!Outcomes
      BY <1>1, <2>1 DEF CatalogueInv, Catalogue!TypeOK, Names
    <2>3. effects[l] = 0 /\ ~aborted /\ outcome[l] \notin {"failed", "system", "not_attempted"}
      BY <1>1, <2>1, <2>2 DEF CatalogueInv, LabelFits
    <2>4. effects'[l] = 1 /\ \A m \in Labels : m # l => effects'[m] = effects[m]
      BY <2>1, <2>2, <2>3
    <2>5. Effect(l) = 0 /\ Effect(l)' = 1
      BY <2>2, <2>3, <2>4 DEF Effect
    <2>6. \A m \in Names : m # l => Effect(m)' = Effect(m)
      BY <2>4 DEF Effect
    <2>7. Status(l) \notin Promise!Untouched
      BY <1>1, <2>1, <2>2, <2>3, StatusByKind DEF Promise!Untouched
    <2> QED
      BY <1>3, <1>4, <2>2, <2>5, <2>6, <2>7, Changes
  <1> QED
    BY <1>5, <1>6

\* Drafts: a thread settles its own.
LEMMA DraftsTell ==
  ASSUME Inv, Inv', kind = "drafts", kind' = kind, Drafts!RequestStep
  PROVE  Promise!Tell
  <1>1. kind \in Kinds /\ DraftsInv /\ DraftsInv' /\ kind' \in Kinds
    BY DEF Inv
  <1>2. PICK i \in Drafts!Items :
            Drafts!Start(i) \/ Drafts!Token(i) \/ Drafts!Source(i) \/ Drafts!Receive(i)
    BY DEF Drafts!RequestStep
  <1>3. request' = request /\ drafts' = drafts /\ phase[i] # "done"
    BY <1>2 DEF Drafts!Start, Drafts!Token, Drafts!Source, Drafts!Receive
  <1>4. /\ Drafts!Items' = Drafts!Items /\ Creates' = Creates
        /\ \A j \in Names : Effect(j)' = Effect(j)
    BY <1>3 DEF Drafts!Items, Creates, Effect
  <1>5. \A j \in Drafts!Items : j # i => outcome'[j] = outcome[j]
    <2> DEFINE OthersKept == outcome' = outcome \/ \E o : outcome' = [outcome EXCEPT ![i] = o]
    <2>1. \A o : Drafts!Settle(i, o) => OthersKept
      BY DEF Drafts!Settle
    <2>2. \A p : Drafts!Go(i, p) => OthersKept
      BY DEF Drafts!Go
    <2>3. /\ Drafts!Post(i) => OthersKept
          /\ Drafts!Unauthorized(i) => OthersKept
          /\ Drafts!NoDraft(i) => OthersKept
          /\ Drafts!Unanswered(i) => OthersKept
      BY <2>1, <2>2 DEF Drafts!Post, Drafts!Unauthorized, Drafts!NoDraft, Drafts!Unanswered
    <2> HIDE DEF OthersKept
    <2>4. OthersKept
      BY <1>2, <2>1, <2>2, <2>3 DEF Drafts!Start, Drafts!Token, Drafts!Source, Drafts!Receive
    <2> QED
      BY <1>1, <2>4 DEF OthersKept, DraftsInv, Drafts!TypeOK
  <1>6. outcome[i] = "none"
    BY <1>1, <1>3 DEF DraftsInv, DraftFits
  <1>7. ASSUME NEW j \in Names
        PROVE  /\ Status(j)' # Status(j) =>
                    /\ Status(j) = "none"
                    /\ Status(j)' \in Promise!Untouched => Effect(j) = 0
                    /\ Creates /\ Status(j)' = "succeeded" => Effect(j) = 1
               /\ Status(j)' \in Promise!Statuses
    <2>1. CASE j \notin Drafts!Items
      <3>1. Status(j)' = Status(j)
        BY <1>1, <1>4, <2>1, StatusByKind DEF Status
      <3> QED
        BY <3>1, StatusTyped
    <2>2. CASE j \in Drafts!Items
      <3>1. Status(j) = outcome[j] /\ Status(j)' = outcome'[j]
        BY <1>1, <1>4, <2>2 DEF Status
      <3>2. outcome'[j] \in Drafts!Outcomes /\ DraftFits(phase[j], wire[j], drafts[j], outcome[j])'
        BY <1>1, <1>4, <2>2 DEF DraftsInv, Drafts!TypeOK
      <3>3. Effect(j) = drafts[j]
        BY <1>1, <2>2, EffectByKind
      <3>4. Status(j)' \in Promise!Untouched => Effect(j) = 0
        BY <1>3, <3>1, <3>2, <3>3 DEF DraftFits, Promise!Untouched
      <3>5. Status(j)' = "succeeded" => Effect(j) = 1
        BY <1>3, <3>1, <3>2, <3>3 DEF DraftFits
      <3>6. Status(j)' \in Promise!Statuses
        BY <3>1, <3>2 DEF Drafts!Outcomes, Promise!Statuses, Promise!Untouched
      <3> QED
        BY <1>5, <1>6, <2>2, <3>1, <3>4, <3>5, <3>6
    <2> QED
      BY <2>1, <2>2
  <1> QED
    BY <1>4, <1>7, Tells

\* Gmail makes a draft.
LEMMA DraftsChange ==
  ASSUME Inv, Inv', kind = "drafts", kind' = kind, Drafts!Elsewhere
  PROVE  Promise!Change
  <1>1. kind \in Kinds /\ DraftsInv
    BY DEF Inv
  <1>2. PICK i \in Drafts!Items : Drafts!Apply(i)
    BY DEF Drafts!Elsewhere
  <1>3. /\ request' = request /\ outcome' = outcome /\ wire[i] = "sent"
        /\ drafts' = [drafts EXCEPT ![i] = @ + 1]
    BY <1>2 DEF Drafts!Apply, Drafts!item
  <1>4. Drafts!Items' = Drafts!Items
    BY <1>3 DEF Drafts!Items
  <1>5. Creates' = Creates /\ \A j \in Names : Status(j)' = Status(j)
    BY <1>3, <1>4 DEF Creates, Status
  <1>6. i \in Names /\ drafts \in [Drafts!Items -> Nat] /\ outcome[i] \in Drafts!Outcomes
    BY <1>1 DEF DraftsInv, Drafts!TypeOK, Drafts!Items, Names
  <1>7. drafts[i] = 0 /\ outcome[i] \notin {"failed", "not_attempted"}
    BY <1>1, <1>3 DEF DraftsInv, DraftFits
  <1>8. drafts'[i] = 1 /\ \A j \in Drafts!Items : j # i => drafts'[j] = drafts[j]
    BY <1>3, <1>6, <1>7
  <1>9. Effect(i) = 0 /\ Effect(i)' = 1
    BY <1>1, <1>4, <1>7, <1>8 DEF Effect
  <1>10. \A j \in Names : j # i => Effect(j)' = Effect(j)
    BY <1>1, <1>4, <1>8 DEF Effect
  <1>11. Status(i) \notin Promise!Untouched
    BY <1>1, <1>6, <1>7, StatusByKind DEF Promise!Untouched
  <1> QED
    BY <1>5, <1>6, <1>9, <1>10, <1>11, Changes

\* Reading changes nothing and says nothing of a change.
LEMMA ReadersTell ==
  ASSUME Inv, kind \in {"page", "reads"}, kind' = kind
  PROVE  Promise!Tell
  <1>1. kind \in Kinds
    BY DEF Inv
  <1>2. Creates' = Creates /\ \A i \in Names : Effect(i)' = Effect(i)
    BY DEF Creates, Effect
  <1>3. \A i \in Names : Status(i) = "none" /\ Status(i)' = "none"
    BY DEF Status
  <1>4. "none" \in Promise!Statuses
    BY DEF Promise!Statuses
  <1> QED
    BY <1>2, <1>3, <1>4, Tells

\* Every step of a request is one of its promise's.
LEMMA PromiseStep ==
  ASSUME Inv, Inv', Next
  PROVE  Promise!Next
  <1>1. \/ kind = "messages" /\ kind' = kind /\ Messages!RequestStep
        \/ kind = "catalogue" /\ kind' = kind /\ Catalogue!RequestStep
        \/ kind = "drafts" /\ kind' = kind /\ Drafts!RequestStep
        \/ kind \in {"page", "reads"} /\ kind' = kind
        \/ kind = "messages" /\ kind' = kind /\ Messages!Elsewhere
        \/ kind = "catalogue" /\ kind' = kind /\ Catalogue!Elsewhere
        \/ kind = "drafts" /\ kind' = kind /\ Drafts!Elsewhere
    BY DEF Next, RequestStep, Elsewhere, besideMessages, besideCatalogue, besideDrafts, besidePage,
           besideReads
  <1> QED
    BY <1>1, MessagesTell, MessagesChange, CatalogueTells, CatalogueChange, DraftsTell, DraftsChange,
       ReadersTell DEF Promise!Next

\* Nothing is said and nothing done at first.
LEMMA PromiseInit ==
  ASSUME Init
  PROVE  Promise!Init
  <1>1. Inv /\ kind \in Kinds
    BY Initially DEF Inv
  <1>2. Creates \in BOOLEAN
    BY DEF Creates
  <1>3. \A i \in Names : Status(i) = "none" /\ Effect(i) = 0
    <2>1. CASE kind = "messages" /\ Messages!Init
      <3>1. Messages!Targets \subseteq 1..N
        BY ProviderRequestsAssumption DEF Messages!Targets, Messages!Positions
      <3> QED
        BY <1>1, <2>1, <3>1, StatusByKind, EffectByKind DEF Messages!Init, Messages!Positions, OfAll
    <2>2. CASE kind = "catalogue" /\ Catalogue!Init
      <3>1. /\ targets \subseteq Labels /\ aborted = FALSE
            /\ \A l \in Labels : outcome[l] = "none" /\ effects[l] = 0
        BY <2>2 DEF Catalogue!Init
      <3> QED
        BY <1>1, <2>2, <3>1, StatusByKind DEF Effect
    <2>3. CASE kind = "drafts" /\ Drafts!Init
      <3>1. \A i \in Drafts!Items : outcome[i] = "none" /\ drafts[i] = 0
        BY <2>3 DEF Drafts!Init
      <3> QED
        BY <1>1, <2>3, <3>1, StatusByKind DEF Effect
    <2>4. CASE kind \in {"page", "reads"}
      BY <1>1, <2>4, StatusByKind, EffectByKind
    <2> QED
      BY <2>1, <2>2, <2>3, <2>4 DEF Init
  <1> QED
    BY <1>2, <1>3 DEF Promise!Init

\* Label changes, label creation and deletion and new drafts, alone or in bulk, all
\* implement the promise of docs/api/mcp.md: what is said of an item is final, an item
\* takes effect once at most, and never after it was said to have failed.
THEOREM PromiseKept == Spec => KeepsPromise
  <1>1. Init => Promise!Init
    BY PromiseInit
  <1>2. Inv /\ Inv' /\ [Next]_vars => [Promise!Next]_(Promise!vars)
    <2>1. ASSUME Inv, Inv', Next PROVE [Promise!Next]_(Promise!vars)
      BY <2>1, PromiseStep
    <2>2. ASSUME UNCHANGED vars PROVE UNCHANGED Promise!vars
      BY <2>2 DEF vars, messageVars, catalogueVars, Promise!vars, Creates, Effect, Status,
         Messages!Targets, Messages!Positions, Drafts!Items
    <2> QED
      BY <2>1, <2>2
  <1> QED
    BY <1>1, <1>2, Invariant, PTL DEF Spec, KeepsPromise, Promise!Spec
================================================================================
