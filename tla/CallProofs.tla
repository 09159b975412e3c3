------------------------------- MODULE CallProofs -------------------------------
(****************************************************************************)
(* Proofs about tool calls, the socket they go through and the target they   *)
(* are made for: whatever brokers come and go, whatever callers give up and  *)
(* whatever interfaces commit, for any number of each.                       *)
(****************************************************************************)
EXTENDS ToolCalls, TLAPS

------------------------------------------------------------------------------
(* The broker's socket, for any number of broker processes.                 *)

socketVars == <<path, stage, identity, near>>

\* A file at the path was bound by a process that has come that far.
BoundBy == \A b \in Brokers : path = b => stage[b] \notin {"off", "found", "stale", "clear"}

\* While a broker that was alone at first is starting nobody else runs, and the path is
\* as it left it; while it serves, the path is its own and others have only found it.
WhileStarting(b) ==
    /\ stage[b] \in Socket!Starting => \A c \in Brokers : c # b => ~Socket!Alive(c)
    /\ stage[b] \in {"found", "stale"} => path # NoFile /\ path # b
    /\ stage[b] = "clear" => path = NoFile
    /\ stage[b] \in {"bound", "listening"} => path = b

WhileServing(b) ==
    stage[b] \in Socket!Serving =>
        /\ path = b /\ identity[b] = b
        /\ \A c \in Brokers : c # b /\ Socket!Alive(c) => stage[c] = "found"

WhenAlone ==
    \A b \in Brokers : near[b] = {} =>
        /\ WhileStarting(b)
        /\ WhileServing(b)
        /\ stage[b] # "refused"
        /\ stage[b] = "ended" => path # b

\* The inductive invariant.
IInv == Socket!SocketTypeOK /\ BoundBy /\ WhenAlone

\* Before any broker has started, the inductive invariant holds.
THEOREM InitInv == Init => IInv
PROOF
  <1> SUFFICES ASSUME Init PROVE IInv
    OBVIOUS
  <1>1. Socket!Init
    BY DEF Init
  <1>2. Socket!SocketTypeOK
    BY <1>1 DEF Socket!Init, Socket!SocketTypeOK
  <1>3. BoundBy /\ WhenAlone
    BY <1>1, NoFileAssumption
    DEF Socket!Init, BoundBy, WhenAlone, WhileStarting, WhileServing, Socket!Starting, Socket!Serving
  <1>. QED
    BY <1>2, <1>3 DEF IInv

\* Every system call of a broker on the path keeps it.
LEMMA SocketStep ==
    ASSUME IInv, Socket!SocketNext
    PROVE  IInv'
PROOF
  <1>0. Socket!SocketTypeOK /\ BoundBy /\ WhenAlone
    BY DEF IInv
  <1>1. ASSUME NEW b \in Brokers, Socket!Look(b) PROVE IInv'
    <2>1. Socket!SocketTypeOK'
      BY <1>0, <1>1
      DEF Socket!Look, Socket!To, Socket!SocketTypeOK, Socket!Starting, Socket!Serving, Socket!Over
    <2>2. BoundBy'
      BY <1>0, <1>1, NoFileAssumption DEF Socket!Look, Socket!To, Socket!SocketTypeOK, BoundBy
    <2>3. WhenAlone'
      BY <1>0, <1>1, NoFileAssumption
      DEF Socket!Look, Socket!To, Socket!SocketTypeOK, BoundBy, WhenAlone, WhileStarting,
          WhileServing, Socket!Alive, Socket!Listens, Socket!Starting, Socket!Serving
    <2>. QED
      BY <2>1, <2>2, <2>3 DEF IInv
  <1>2. ASSUME NEW b \in Brokers, Socket!Probe(b) PROVE IInv'
    <2>1. Socket!SocketTypeOK'
      BY <1>0, <1>2
      DEF Socket!Probe, Socket!To, Socket!Answered, Socket!SocketTypeOK, Socket!Starting, Socket!Serving, Socket!Over
    <2>2. BoundBy'
      BY <1>0, <1>2, NoFileAssumption DEF Socket!Probe, Socket!To, Socket!Answered, Socket!SocketTypeOK, BoundBy
    <2>3. WhenAlone'
      BY <1>0, <1>2, NoFileAssumption
      DEF Socket!Probe, Socket!To, Socket!Answered, Socket!SocketTypeOK, BoundBy, WhenAlone, WhileStarting,
          WhileServing, Socket!Alive, Socket!Listens, Socket!Starting, Socket!Serving
    <2>. QED
      BY <2>1, <2>2, <2>3 DEF IInv
  <1>3. ASSUME NEW b \in Brokers, Socket!Unlink(b) PROVE IInv'
    <2>1. Socket!SocketTypeOK'
      BY <1>0, <1>3
      DEF Socket!Unlink, Socket!To, Socket!SocketTypeOK, Socket!Starting, Socket!Serving, Socket!Over
    <2>2. BoundBy'
      BY <1>0, <1>3, NoFileAssumption DEF Socket!Unlink, Socket!To, Socket!SocketTypeOK, BoundBy
    <2>3. WhenAlone'
      BY <1>0, <1>3, NoFileAssumption
      DEF Socket!Unlink, Socket!To, Socket!SocketTypeOK, BoundBy, WhenAlone, WhileStarting,
          WhileServing, Socket!Alive, Socket!Listens, Socket!Starting, Socket!Serving
    <2>. QED
      BY <2>1, <2>2, <2>3 DEF IInv
  <1>4. ASSUME NEW b \in Brokers, Socket!Bind(b) PROVE IInv'
    <2>1. Socket!SocketTypeOK'
      BY <1>0, <1>4
      DEF Socket!Bind, Socket!To, Socket!SocketTypeOK, Socket!Starting, Socket!Serving, Socket!Over
    <2>2. BoundBy'
      BY <1>0, <1>4, NoFileAssumption DEF Socket!Bind, Socket!To, Socket!SocketTypeOK, BoundBy
    <2>3. WhenAlone'
      BY <1>0, <1>4, NoFileAssumption
      DEF Socket!Bind, Socket!To, Socket!SocketTypeOK, BoundBy, WhenAlone, WhileStarting,
          WhileServing, Socket!Alive, Socket!Listens, Socket!Starting, Socket!Serving
    <2>. QED
      BY <2>1, <2>2, <2>3 DEF IInv
  <1>5. ASSUME NEW b \in Brokers, Socket!Listen(b) PROVE IInv'
    <2>1. Socket!SocketTypeOK'
      BY <1>0, <1>5
      DEF Socket!Listen, Socket!To, Socket!SocketTypeOK, Socket!Starting, Socket!Serving, Socket!Over
    <2>2. BoundBy'
      BY <1>0, <1>5, NoFileAssumption DEF Socket!Listen, Socket!To, Socket!SocketTypeOK, BoundBy
    <2>3. WhenAlone'
      BY <1>0, <1>5, NoFileAssumption
      DEF Socket!Listen, Socket!To, Socket!SocketTypeOK, BoundBy, WhenAlone, WhileStarting,
          WhileServing, Socket!Alive, Socket!Listens, Socket!Starting, Socket!Serving
    <2>. QED
      BY <2>1, <2>2, <2>3 DEF IInv
  <1>6. ASSUME NEW b \in Brokers, Socket!Claim(b) PROVE IInv'
    <2>1. Socket!SocketTypeOK'
      BY <1>0, <1>6
      DEF Socket!Claim, Socket!To, Socket!SocketTypeOK, Socket!Starting, Socket!Serving, Socket!Over
    <2>2. BoundBy'
      BY <1>0, <1>6, NoFileAssumption DEF Socket!Claim, Socket!To, Socket!SocketTypeOK, BoundBy
    <2>3. WhenAlone'
      BY <1>0, <1>6, NoFileAssumption
      DEF Socket!Claim, Socket!To, Socket!SocketTypeOK, BoundBy, WhenAlone, WhileStarting,
          WhileServing, Socket!Alive, Socket!Listens, Socket!Starting, Socket!Serving
    <2>. QED
      BY <2>1, <2>2, <2>3 DEF IInv
  <1>7. ASSUME NEW b \in Brokers, Socket!Stop(b) PROVE IInv'
    <2>1. Socket!SocketTypeOK'
      BY <1>0, <1>7
      DEF Socket!Stop, Socket!To, Socket!SocketTypeOK, Socket!Starting, Socket!Serving, Socket!Over
    <2>2. BoundBy'
      BY <1>0, <1>7, NoFileAssumption DEF Socket!Stop, Socket!To, Socket!SocketTypeOK, BoundBy
    <2>3. WhenAlone'
      BY <1>0, <1>7, NoFileAssumption
      DEF Socket!Stop, Socket!To, Socket!SocketTypeOK, BoundBy, WhenAlone, WhileStarting,
          WhileServing, Socket!Alive, Socket!Listens, Socket!Starting, Socket!Serving
    <2>. QED
      BY <2>1, <2>2, <2>3 DEF IInv
  <1>8. ASSUME NEW b \in Brokers, Socket!Compare(b) PROVE IInv'
    <2>1. Socket!SocketTypeOK'
      BY <1>0, <1>8
      DEF Socket!Compare, Socket!To, Socket!StillOwn, Socket!SocketTypeOK, Socket!Starting, Socket!Serving, Socket!Over
    <2>2. BoundBy'
      BY <1>0, <1>8, NoFileAssumption DEF Socket!Compare, Socket!To, Socket!StillOwn, Socket!SocketTypeOK, BoundBy
    <2>3. WhenAlone'
      BY <1>0, <1>8, NoFileAssumption
      DEF Socket!Compare, Socket!To, Socket!StillOwn, Socket!SocketTypeOK, BoundBy, WhenAlone, WhileStarting,
          WhileServing, Socket!Alive, Socket!Listens, Socket!Starting, Socket!Serving
    <2>. QED
      BY <2>1, <2>2, <2>3 DEF IInv
  <1>9. ASSUME NEW b \in Brokers, Socket!Remove(b) PROVE IInv'
    <2>1. Socket!SocketTypeOK'
      BY <1>0, <1>9
      DEF Socket!Remove, Socket!To, Socket!SocketTypeOK, Socket!Starting, Socket!Serving, Socket!Over
    <2>2. BoundBy'
      BY <1>0, <1>9, NoFileAssumption DEF Socket!Remove, Socket!To, Socket!SocketTypeOK, BoundBy
    <2>3. WhenAlone'
      BY <1>0, <1>9, NoFileAssumption
      DEF Socket!Remove, Socket!To, Socket!SocketTypeOK, BoundBy, WhenAlone, WhileStarting,
          WhileServing, Socket!Alive, Socket!Listens, Socket!Starting, Socket!Serving
    <2>. QED
      BY <2>1, <2>2, <2>3 DEF IInv
  <1>10. ASSUME NEW b \in Brokers, Socket!Crash(b) PROVE IInv'
    <2>1. Socket!SocketTypeOK'
      BY <1>0, <1>10
      DEF Socket!Crash, Socket!To, Socket!SocketTypeOK, Socket!Starting, Socket!Serving, Socket!Over
    <2>2. BoundBy'
      BY <1>0, <1>10, NoFileAssumption DEF Socket!Crash, Socket!To, Socket!SocketTypeOK, BoundBy, Socket!Alive, Socket!Starting, Socket!Serving
    <2>3. WhenAlone'
      BY <1>0, <1>10, NoFileAssumption
      DEF Socket!Crash, Socket!To, Socket!SocketTypeOK, BoundBy, WhenAlone, WhileStarting,
          WhileServing, Socket!Alive, Socket!Listens, Socket!Starting, Socket!Serving
    <2>. QED
      BY <2>1, <2>2, <2>3 DEF IInv
  <1>. QED
    BY <1>1, <1>2, <1>3, <1>4, <1>5, <1>6, <1>7, <1>8, <1>9, <1>10
    DEF Socket!SocketNext, Socket!StartStep, Socket!EndStep

\* Whatever else moves leaves the socket alone.
LEMMA CallsLeaveSocket ==
    Next => Socket!SocketNext \/ UNCHANGED socketVars
PROOF
  <1> SUFFICES ASSUME Next PROVE Socket!SocketNext \/ UNCHANGED socketVars
    OBVIOUS
  <1>1. ASSUME NEW b \in Brokers,
               BrokerLooks(b) \/ BrokerStarts(b) \/ BrokerEnds(b) \/ BrokerStops(b) \/ BrokerCrashes(b)
        PROVE  Socket!SocketNext
    BY <1>1
    DEF BrokerLooks, BrokerStarts, BrokerEnds, BrokerStops, BrokerCrashes, BrokerStep,
        Socket!SocketNext
  <1>2. ASSUME NEW t \in Tuis, InterfaceReloads(t) \/ InterfaceToggles(t)
        PROVE  UNCHANGED socketVars
    BY <1>2 DEF InterfaceReloads, InterfaceToggles, DatabaseStep, targetRest, socketVars
  <1>3. ASSUME InterfaceLogsIn \/ InterfaceSetsState
        PROVE  UNCHANGED socketVars
    BY <1>3 DEF InterfaceLogsIn, InterfaceSetsState, DatabaseStep, targetRest, socketVars
  <1>4. ASSUME NEW r \in Requests,
               ClientCalls(r) \/ ClientStep(r) \/ Abandon(r) \/ Accept(r) \/ ThreadStep(r)
               \/ DatabaseFails(r)
        PROVE  UNCHANGED socketVars
    <2>1. ClientCalls(r) => UNCHANGED clientRest
      BY DEF ClientCalls, Call
    <2>2. ClientStep(r) \/ Abandon(r) \/ Accept(r) \/ DatabaseFails(r) => UNCHANGED clientRest
      BY DEF ClientStep, Connect, Receive, NoAnswer, Abandon, Accept, DatabaseFails
    <2>3. ReadRequest(r) \/ Decide(r) \/ Work(r) \/ WriteFrame(r) => UNCHANGED clientRest
      BY DEF ReadRequest, Decide, Work, WriteFrame
    <2>4. ReadTarget(r) => UNCHANGED targetRest
      BY DEF ReadTarget
    <2>5. UNCHANGED clientRest \/ UNCHANGED targetRest => UNCHANGED socketVars
      BY DEF clientRest, targetRest, socketVars
    <2>. QED
      BY <1>4, <2>1, <2>2, <2>3, <2>4, <2>5 DEF ThreadStep
  <1>. QED
    BY <1>1, <1>2, <1>3, <1>4 DEF Next

\* Every step keeps the inductive invariant.
THEOREM StepInv == IInv /\ [Next]_vars => IInv'
PROOF
  <1> SUFFICES ASSUME IInv, [Next]_vars PROVE IInv'
    OBVIOUS
  <1>1. CASE Socket!SocketNext
    BY <1>1, SocketStep
  <1>2. CASE UNCHANGED socketVars
    BY <1>2
    DEF socketVars, IInv, Socket!SocketTypeOK, BoundBy, WhenAlone, WhileStarting, WhileServing,
        Socket!Alive
  <1>3. UNCHANGED vars => UNCHANGED socketVars
    BY DEF vars, socketVars
  <1>. QED
    BY <1>1, <1>2, <1>3, CallsLeaveSocket

\* A broker that nobody else was starting or serving beside at its start is not refused,
\* keeps its socket while it serves and takes it away when it ends.
THEOREM AloneKeeps == Spec => []AloneKeepsSocket
PROOF
  <1>1. IInv => AloneKeepsSocket
    BY DEF IInv, WhenAlone, WhileServing, AloneKeepsSocket, Socket!AloneKeepsSocket
  <1>. QED
    BY InitInv, StepInv, <1>1, PTL DEF Spec

------------------------------------------------------------------------------
(* The calls and the target.                                                *)

\* The variants of BrokerResponse that carry a result.
Names == {
    "Ok", "Labels", "LabelCreated", "LabelDeleted", "LabelApplied", "ReadEmail",
    "MessageReadState", "DeletionMarked", "EmailTrashed", "Drafts", "DraftCreated",
    "DraftDeletionMarked", "DraftDeleted", "DraftSendingMarked", "DraftSent", "Ready",
    "EmailsRead", "LabelsApplied", "MessagesReadState", "EmailsDeletionMarked",
    "EmailsTrashed", "LabelsCreated", "LabelsDeleted", "DraftsCreated",
    "DraftsDeletionMarked", "DraftsSendingMarked", "DraftsDeleted", "DraftsSent"}

\* The codes of an invalid input.
InputCodes == {"invalid_request", "invalid_label_name", "invalid_label_id",
               "invalid_message_id", "invalid_deletion_mark", "invalid_action_marker"}

\* What a handler of one resource answers with is a variant of BrokerResponse.
LEMMA SingleNames == \A op \in SingleOperations \cup {"readiness"} : SingleAnswer[op] \in Names
  BY DEF SingleOperations, SingleAnswer, Names

\* So is what a bulk handler answers with.
LEMMA BulkNames == \A op \in BulkOperations : BulkAnswer[op] \in Names
  BY DEF BulkOperations, BulkAnswer, Names

\* Every operation has an answer, and it is such a variant.
LEMMA AnswerNames == \A op \in Operations : Answer[op] \in Names
  <1>1. DOMAIN SingleAnswer = SingleOperations \cup {"readiness"}
    BY DEF SingleOperations, SingleAnswer
  <1>2. DOMAIN BulkAnswer = BulkOperations
    BY DEF BulkOperations, BulkAnswer
  <1>3. \A op \in Operations : op \in DOMAIN SingleAnswer \cup DOMAIN BulkAnswer
    BY <1>1, <1>2 DEF Operations
  <1>. QED
    BY <1>1, <1>2, <1>3, SingleNames, BulkNames DEF Answer, Joined

\* The codes of invalid input.
LEMMA Refusals == \A op \in Tools : ToolRefusal[op] \subseteq InputCodes
  BY DEF Tools, Operations, SingleOperations, BulkOperations, ToolRefusal, BulkToolRefusal,
         EmailToolRefusal, MarkToolRefusal, InputCodes, Joined

\* The client takes for every operation the variant the broker answers with.
LEMMA Same == \A op \in Operations : Answer[op] = Accepts[op]
  <1>1. \A op \in BulkOperations : op \in DOMAIN AcceptsBulk /\ BulkAnswer[op] = AcceptsBulk[op]
    BY DEF BulkOperations, BulkAnswer, AcceptsBulk, AcceptsBulkEmails, AcceptsBulkLabels,
           AcceptsBulkDrafts, Joined
  <1>2. \A op \in SingleOperations \cup {"readiness"} :
            op \in DOMAIN AcceptsSingle /\ SingleAnswer[op] = AcceptsSingle[op]
    BY DEF SingleOperations, SingleAnswer, AcceptsEmails, AcceptsSingle, AcceptsListings,
           AcceptsLabels, AcceptsDeletions, AcceptsDrafts, AcceptsRead, AcceptsStates,
           AcceptsReadiness, Joined
  <1>3. /\ DOMAIN SingleAnswer = SingleOperations \cup {"readiness"}
        /\ DOMAIN BulkAnswer = BulkOperations
    BY DEF SingleOperations, BulkOperations, SingleAnswer, BulkAnswer
  <1>4. \A op \in BulkOperations : op \notin DOMAIN AcceptsSingle
    BY DEF BulkOperations, AcceptsEmails, AcceptsSingle, AcceptsListings,
           AcceptsLabels, AcceptsDeletions, AcceptsDrafts, AcceptsRead, AcceptsStates,
           AcceptsReadiness, Joined
  <1>5. \A op \in BulkOperations : op \notin SingleOperations \cup {"readiness"}
    BY DEF BulkOperations, SingleOperations
  <1>6. ASSUME NEW op \in BulkOperations PROVE Answer[op] = Accepts[op]
    BY <1>1, <1>3, <1>4, <1>5 DEF Answer, Accepts, Joined
  <1>7. ASSUME NEW op \in SingleOperations \cup {"readiness"} PROVE Answer[op] = Accepts[op]
    BY <1>2, <1>3 DEF Answer, Accepts, Joined
  <1>. QED
    BY <1>6, <1>7 DEF Operations
\* Both sides refuse an invalid input of a tool with the same codes.
LEMMA Both == \A op \in Tools : BrokerRefusal[op] = ToolRefusal[op]
  <1>1. ASSUME NEW op \in BulkOperations PROVE BrokerRefusal[op] = ToolRefusal[op]
    <2>1. ToolRefusal[op] = {"invalid_request"}
      BY DEF ToolRefusal, BulkToolRefusal, Joined
    <2>2. BrokerRefusal[op] = {"invalid_request"}
      BY DEF BulkOperations, Operations, BrokerRefusal
    <2>. QED
      BY <2>1, <2>2
  <1>2. ASSUME NEW op \in SingleOperations PROVE BrokerRefusal[op] = ToolRefusal[op]
    <2>1. op \notin BulkOperations
      BY DEF SingleOperations, BulkOperations
    <2>2. op \in DOMAIN EmailToolRefusal \/ op \in DOMAIN MarkToolRefusal
      BY DEF EmailToolRefusal, MarkToolRefusal, SingleOperations
    <2>5. ToolRefusal[op] = IF op \in DOMAIN EmailToolRefusal
                            THEN EmailToolRefusal[op] ELSE MarkToolRefusal[op]
      BY <2>1, <2>2 DEF ToolRefusal, BulkToolRefusal, Joined
    <2>3. op \in DOMAIN EmailToolRefusal => BrokerRefusal[op] = ToolRefusal[op]
      BY <2>5 DEF EmailToolRefusal, BrokerRefusal, Operations
    <2>4. op \notin DOMAIN EmailToolRefusal => BrokerRefusal[op] = ToolRefusal[op]
      BY <2>2, <2>5 DEF EmailToolRefusal, MarkToolRefusal, BrokerRefusal, Operations
    <2>. QED
      BY <2>3, <2>4
  <1>. QED
    BY <1>1, <1>2 DEF Tools, Operations

------------------------------------------------------------------------------
\* The codes a broker's thread refuses with, none of them after an effect.
Codes == {"invalid_request", "internal", "target_not_configured", "target_unavailable",
          "insufficient_scope", "credential_unavailable", "gmail_refused"}

Words == Names \cup InputCodes \cup Codes
         \cup {"none", "gmail_unavailable", "abandoned", "ok", "response_budget_exceeded",
               "message_too_large"}

Frames == [answer : Words, size : Nat]
CallRecords == [
    op : Operations \cup {"none"}, length : Nat,
    client : {"idle", "connecting", "waiting", "over"},
    thread : {"none", "queued", "accepted", "checking", "working", "answering", "over"},
    broker : Brokers \cup {NoFile}, answer : Frames, frame : Frames]
ResultRecords == [outcome : Words, runs : {0, 1}, effects : {0, 1}, misread : BOOLEAN]

\* How far the client and the thread of a call are, and what that leaves undone.
Ordered(c, x) ==
    /\ c.client \in {"idle", "connecting"} => c.thread = "none"
    /\ c.client # "over" => x.outcome = "none"
    /\ c.client # "idle" => c.op \in Operations
    /\ c.thread \in {"none", "queued", "accepted", "checking", "working"} =>
          x.runs = 0 /\ x.effects = 0 /\ c.answer = NoFrame
    /\ c.thread # "over" => c.frame = NoFrame
    /\ c.client # "idle" /\ ~(c.client = "over" /\ c.thread = "none") =>
          (c.op \in BulkOperations => c.length <= MaxRequest)

\* The thread's answer tells what was done; the frame carries it or no more than that
\* it was too large.
Explained(c, x) ==
    c.thread \in {"answering", "over"} =>
        /\ \/ /\ c.answer.answer = Answer[c.op]
              /\ x.runs = 1 /\ (c.op \in Writes \ BulkOperations => x.effects = 1)
           \/ c.answer.answer \in Codes /\ x.effects = 0
           \/ c.answer.answer = "gmail_unavailable"
        /\ c.answer.answer = "invalid_request" => c.op \notin BulkOperations
        /\ c.frame \in {NoFrame, c.answer, Refusal("internal")}
        /\ c.frame.size <= MaxResponse

\* What the caller was told; it was told for good only when the thread can do no more.
Told(c, x) ==
    /\ ~x.misread
    /\ x.effects <= x.runs
    /\ x.outcome \in Definite \cup {"ok"} => c.thread \in {"none", "over"}
    /\ x.outcome = "ok" => x.runs = 1 /\ (c.op \in Writes \ BulkOperations => x.effects = 1)
    /\ x.outcome \in Definite => x.effects = 0

Fine(c, x) ==
    /\ c \in CallRecords
    /\ x \in ResultRecords
    /\ Ordered(c, x)
    /\ Explained(c, x)
    /\ Told(c, x)

CallInv ==
    /\ call = [r \in Requests |-> call[r]]
    /\ result = [r \in Requests |-> result[r]]
    /\ \A r \in Requests : Fine(call[r], result[r])
    /\ scenario \in [brokers : SUBSET Brokers, stops : BOOLEAN, changes : Nat,
                     operations : SUBSET Operations]

\* No code that means "not done" is one of those that do not say.
LEMMA DefiniteCodes ==
    /\ Definite \subseteq InputCodes \cup (Codes \ {"internal"})
    /\ (InputCodes \cup Codes \cup {"gmail_unavailable"}) \cap Names = {}
  <1>1. UNION {ToolRefusal[op] : op \in Tools} \subseteq InputCodes
    BY Refusals
  <1>2. Definite \subseteq InputCodes \cup (Codes \ {"internal"})
    BY <1>1 DEF Definite, Codes
  <1>3. (InputCodes \cup Codes \cup {"gmail_unavailable"}) \cap Names = {}
    BY DEF InputCodes, Codes, Names
  <1>. QED
    BY <1>2, <1>3

\* A step of one call leaves the others as they were.
LEMMA OneCall ==
    ASSUME CallInv, NEW r \in Requests,
           call' = [call EXCEPT ![r] = call'[r]],
           result' = [result EXCEPT ![r] = result'[r]],
           UNCHANGED scenario,
           Fine(call[r], result[r])'
    PROVE  CallInv'
PROOF
  <1>1. call' = [q \in Requests |-> call'[q]] /\ result' = [q \in Requests |-> result'[q]]
    BY DEF CallInv
  <1>2. ASSUME NEW q \in Requests PROVE Fine(call[q], result[q])'
    <2>1. CASE q = r
      BY <2>1
    <2>2. CASE q # r
      <3>1. call'[q] = call[q] /\ result'[q] = result[q]
        BY <2>2 DEF CallInv
      <3>. QED
        BY <3>1 DEF CallInv, Fine, Ordered, Explained, Told
    <2>. QED
      BY <2>1, <2>2
  <1>. QED
    BY <1>1, <1>2 DEF CallInv

\* Before the first call nothing has been asked or answered.
LEMMA CallsBegin == Init => CallInv
PROOF
  <1> SUFFICES ASSUME Init PROVE CallInv
    OBVIOUS
  <1>0. NoFrame \in Frames /\ "none" \in Words
    BY DEF NoFrame, Frames, Words
  <1>1. NoCall \in CallRecords /\ NoResult \in ResultRecords
    BY <1>0 DEF NoCall, NoResult, CallRecords, ResultRecords
  <1>2. Fine(NoCall, NoResult)
    <2>1. "none" \notin Definite \cup {"ok"}
      BY DefiniteCodes DEF InputCodes, Codes
    <2>2. Told(NoCall, NoResult)
      BY <2>1 DEF Told, NoCall, NoResult
    <2>3. Ordered(NoCall, NoResult) /\ Explained(NoCall, NoResult)
      BY DEF Ordered, Explained, NoCall, NoResult
    <2>. QED
      BY <1>1, <2>2, <2>3 DEF Fine
  <1>. QED
    BY <1>2, ScenariosAssumption DEF Init, CallInv

\* The client's steps.
LEMMA ClientKeeps ==
    ASSUME CallInv, Socket!SocketTypeOK, NEW r \in Requests,
           ClientCalls(r) \/ Connect(r) \/ NoAnswer(r) \/ Abandon(r)
    PROVE  CallInv'
PROOF
  <1>0. Fine(call[r], result[r]) /\ UNCHANGED scenario
    BY DEF CallInv, ClientCalls, Call, Connect, NoAnswer, Abandon, clientRest
  <1>t. InputCodes \cup {"internal", "abandoned"} \subseteq Words
    BY DEF Words, Codes
  <1>f. NoFrame \in Frames /\ {"none", "internal", "abandoned"} \cap (Definite \cup {"ok"}) = {}
    BY DefiniteCodes DEF NoFrame, Frames, Words, InputCodes, Codes
  <1>1. ASSUME NEW op \in scenario.operations, NEW length \in Lengths(op), NEW valid \in BOOLEAN,
               valid \/ (op \in Tools /\ length = 1),
               Call(r, op, length, valid)
        PROVE  CallInv'
    <2>1. op \in Operations /\ length \in Nat
      BY <1>1, SizesAssumption DEF CallInv, Lengths
    <2>2. ASSUME NEW code, code \in InputCodes,
                 call' = [call EXCEPT ![r].op = op, ![r].client = "over"],
                 result' = [result EXCEPT ![r].outcome = code]
          PROVE  CallInv'
      <3>1. Fine(call[r], result[r])'
        BY <1>0, <1>1, <1>f, <1>t, <2>1, <2>2
        DEF CallInv, Call, Fine, Ordered, Explained, Told, CallRecords, ResultRecords, InputCodes
      <3>. QED
        BY <1>0, <2>2, <3>1, OneCall DEF CallInv
    <2>3. CASE ~valid
      BY <1>1, <2>2, <2>3, Refusals DEF Call
    <2>4. CASE valid /\ op \in BulkOperations /\ length > MaxRequest
      BY <1>1, <2>2, <2>4 DEF Call, InputCodes
    <2>5. CASE valid /\ ~(op \in BulkOperations /\ length > MaxRequest)
      <3>1. /\ call' = [call EXCEPT ![r].op = op, ![r].length = length,
                                    ![r].client = "connecting"]
            /\ UNCHANGED result
            /\ call[r].client = "idle"
        BY <1>1, <2>5 DEF Call
      <3>2. Fine(call[r], result[r])'
        BY <1>0, <2>1, <2>5, <3>1, SizesAssumption
        DEF CallInv, Fine, Ordered, Explained, Told, CallRecords, ResultRecords
      <3>. QED
        BY <1>0, <3>1, <3>2, OneCall DEF CallInv
    <2>. QED
      BY <2>3, <2>4, <2>5
  <1>2. ASSUME NEW code, code \in {"internal", "abandoned"}, Tell(r, code),
               call[r].client \in {"connecting", "waiting"}
        PROVE  CallInv'
    <2>0. /\ call' = [call EXCEPT ![r].client = "over"]
          /\ result' = [result EXCEPT ![r].outcome = code]
          /\ code \in Words /\ code \notin Definite \cup {"ok"}
      BY <1>2, <1>f, <1>t DEF Tell
    <2>a. /\ call[r] \in CallRecords /\ result[r] \in ResultRecords
          /\ call'[r] = [call[r] EXCEPT !.client = "over"]
          /\ result'[r] = [result[r] EXCEPT !.outcome = code]
      BY <1>0, <2>0 DEF CallInv, Fine
    <2>b. call'[r] \in CallRecords /\ result'[r] \in ResultRecords
      BY <2>0, <2>a DEF CallRecords, ResultRecords
    <2>c. Ordered(call[r], result[r])'
      BY <1>0, <1>2, <2>a DEF Fine, Ordered, CallRecords, ResultRecords
    <2>d. Explained(call[r], result[r])' /\ Told(call[r], result[r])'
      BY <1>0, <1>2, <2>0, <2>a DEF Fine, Explained, Told, CallRecords, ResultRecords
    <2>1. Fine(call[r], result[r])'
      BY <2>b, <2>c, <2>d DEF Fine
    <2>. QED
      BY <1>0, <1>2, <2>1, OneCall DEF CallInv, Tell
  <1>3. CASE Connect(r)
    <2>1. CASE path # NoFile /\ Socket!Listens(path)
      <3>1. /\ call' = [call EXCEPT ![r].client = "waiting", ![r].thread = "queued",
                                    ![r].broker = path]
            /\ UNCHANGED result
            /\ call[r].client = "connecting"
        BY <1>3, <2>1 DEF Connect
      <3>2. path \in Brokers
        BY <2>1 DEF Socket!SocketTypeOK
      <3>3. Fine(call[r], result[r])'
        BY <1>0, <1>f, <3>1, <3>2
        DEF CallInv, Fine, Ordered, Explained, Told, CallRecords, ResultRecords
      <3>. QED
        BY <1>0, <3>1, <3>3, OneCall DEF CallInv
    <2>2. CASE ~(path # NoFile /\ Socket!Listens(path))
      BY <1>2, <1>3, <2>2 DEF Connect, Lost
    <2>. QED
      BY <2>1, <2>2
  <1>4. CASE NoAnswer(r)
    BY <1>2, <1>4 DEF NoAnswer, Lost
  <1>5. CASE Abandon(r)
    BY <1>2, <1>5 DEF Abandon
  <1>. QED
    BY <1>1, <1>3, <1>4, <1>5 DEF ClientCalls

\* The client hears the broker's answer.
LEMMA ReceiveKeeps ==
    ASSUME CallInv, NEW r \in Requests, Receive(r)
    PROVE  CallInv'
PROOF
  <1> DEFINE c == call[r]
             x == result[r]
             variants == {Answer[op] : op \in Operations}
             outcome ==
                 IF c.frame.size > MaxResponse THEN "internal"
                 ELSE IF c.frame.answer \notin variants THEN c.frame.answer
                 ELSE IF c.frame.answer # Accepts[c.op] THEN "internal"
                 ELSE IF c.frame.size - 1 > MaxResult /\ ToolLimit(c.op) # "none"
                 THEN ToolLimit(c.op)
                 ELSE "ok"
             misread == c.frame.size > MaxResponse
                        \/ (c.frame.answer \in variants /\ c.frame.answer # Accepts[c.op])
  <1>0. Fine(c, x) /\ UNCHANGED scenario /\ c.client = "waiting" /\ c.frame # NoFrame
    BY DEF CallInv, Receive, clientRest
  <1>1. /\ call' = [call EXCEPT ![r].client = "over"]
        /\ result' = [result EXCEPT ![r].misread = misread, ![r].outcome = outcome]
    BY DEF Receive
  <1>2. /\ c \in CallRecords /\ x \in ResultRecords
        /\ call'[r] = [c EXCEPT !.client = "over"]
        /\ result'[r] = [x EXCEPT !.misread = misread, !.outcome = outcome]
    BY <1>0, <1>1 DEF CallInv, Fine
  <1>3. variants \subseteq Names
    BY AnswerNames
  <1>4. c.thread = "over" /\ c.op \in Operations
    BY <1>0 DEF Fine, Ordered
  <1>5. /\ c.frame \in {c.answer, Refusal("internal")}
        /\ c.frame.size <= MaxResponse
        /\ \/ /\ c.answer.answer = Answer[c.op]
              /\ x.runs = 1 /\ (c.op \in Writes \ BulkOperations => x.effects = 1)
           \/ c.answer.answer \in Codes /\ x.effects = 0
           \/ c.answer.answer = "gmail_unavailable"
    BY <1>0, <1>4 DEF Fine, Explained
  <1>6. Refusal("internal").answer = "internal" /\ "internal" \in Codes
    BY DEF Refusal, Codes
  <1>7. c.frame.answer \in variants =>
            /\ c.frame.answer = Answer[c.op]
            /\ x.runs = 1 /\ (c.op \in Writes \ BulkOperations => x.effects = 1)
    BY <1>3, <1>5, <1>6, DefiniteCodes
  <1>8. misread \in BOOLEAN /\ ~misread
    <2>1. c.frame.size \in Nat
      BY <1>2 DEF CallRecords, Frames
    <2>2. ~(c.frame.size > MaxResponse)
      BY <1>5, <2>1, SizesAssumption
    <2>3. ~(c.frame.answer \in variants /\ c.frame.answer # Accepts[c.op])
      BY <1>4, <1>7, Same
    <2>. QED
      BY <2>2, <2>3
  <1>9. ToolLimit(c.op) \in {"response_budget_exceeded", "message_too_large", "none"}
    BY DEF ToolLimit
  <1>10. c.frame.answer \in Words /\ c.frame.size \in Nat
    BY <1>2 DEF CallRecords, Frames
  <1>11. outcome \in Words
    BY <1>9, <1>10 DEF Words, Codes
  <1>12. outcome \in Definite => x.effects = 0
    <2>1. {"internal", "ok", "response_budget_exceeded", "message_too_large", "gmail_unavailable"}
              \cap Definite = {}
      BY DefiniteCodes DEF InputCodes, Codes
    <2>2. c.frame.answer \notin variants /\ c.frame.answer \in Definite => x.effects = 0
      BY <1>4, <1>5, <1>6, <2>1
    <2>. QED
      BY <1>9, <2>1, <2>2
  <1>13. outcome = "ok" => x.runs = 1 /\ (c.op \in Writes \ BulkOperations => x.effects = 1)
    <2>1. "ok" \notin Codes \cup {"gmail_unavailable", "internal"} /\ "ok" \notin Names
      BY DEF Codes, Names
    <2>2. c.frame.answer # "ok"
      BY <1>4, <1>5, <1>6, <2>1, AnswerNames
    <2>. QED
      BY <1>7, <1>9, <2>2
  <1>14. call'[r] \in CallRecords /\ result'[r] \in ResultRecords
    <2> HIDE DEF outcome, misread
    <2>. QED
      BY <1>2, <1>8, <1>11 DEF CallRecords, ResultRecords
  <1>15. Ordered(call[r], result[r])'
    <2> HIDE DEF outcome, misread
    <2>. QED
      BY <1>0, <1>2, <1>4 DEF Fine, Ordered, CallRecords, ResultRecords
  <1>16. Explained(call[r], result[r])' /\ Told(call[r], result[r])'
    <2> HIDE DEF outcome, misread
    <2>. QED
      BY <1>0, <1>2, <1>4, <1>8, <1>12, <1>13
      DEF Fine, Explained, Told, CallRecords, ResultRecords
  <1>17. call' = [call EXCEPT ![r] = call'[r]] /\ result' = [result EXCEPT ![r] = result'[r]]
    <2> HIDE DEF outcome, misread
    <2>. QED
      BY <1>1 DEF CallInv
  <1>18. Fine(call[r], result[r])'
    BY <1>14, <1>15, <1>16 DEF Fine
  <1>. QED
    BY <1>0, <1>17, <1>18, OneCall

\* The thread answers, whatever of its work has run.
LEMMA Answers ==
    ASSUME CallInv, NEW r \in Requests, NEW frame \in Frames, AnswerWith(r, frame),
           call[r].thread \in {"accepted", "checking", "working"}, UNCHANGED scenario,
           result' = [result EXCEPT ![r] = result'[r]],
           result'[r] \in ResultRecords,
           result'[r].outcome = result[r].outcome, result'[r].misread = result[r].misread,
           result'[r].effects <= result'[r].runs,
           \/ /\ frame.answer = Answer[call[r].op]
              /\ result'[r].runs = 1
              /\ call[r].op \in Writes \ BulkOperations => result'[r].effects = 1
           \/ frame.answer \in Codes /\ result'[r].effects = 0
           \/ frame.answer = "gmail_unavailable",
           frame.answer = "invalid_request" => call[r].op \notin BulkOperations
    PROVE  CallInv'
PROOF
  <1> DEFINE c == call[r]
  <1>1. Fine(c, result[r]) /\ call' = [call EXCEPT ![r].thread = "answering", ![r].answer = frame]
    BY DEF CallInv, AnswerWith
  <1>2. /\ c \in CallRecords
        /\ call'[r] = [c EXCEPT !.thread = "answering", !.answer = frame]
    BY <1>1 DEF CallInv, Fine
  <1>3. call'[r] \in CallRecords
    BY <1>2 DEF CallRecords
  <1>4. Ordered(call[r], result[r])'
    <2>1. /\ call'[r].op = c.op /\ call'[r].length = c.length /\ call'[r].client = c.client
          /\ call'[r].frame = c.frame /\ call'[r].thread = "answering"
      BY <1>2 DEF CallRecords
    <2>. QED
      BY <1>1, <2>1 DEF Fine, Ordered
  <1>5. Told(call[r], result[r])'
    BY <1>1, <1>2 DEF Fine, Told, CallRecords
  <1>6. c.frame = NoFrame /\ NoFrame.size <= MaxResponse
    BY <1>1, SizesAssumption DEF Fine, Ordered, NoFrame
  <1>7. Explained(call[r], result[r])'
    BY <1>2, <1>6 DEF Explained, CallRecords
  <1>8. call' = [call EXCEPT ![r] = call'[r]]
    BY <1>1 DEF CallInv
  <1>9. Fine(call[r], result[r])'
    BY <1>3, <1>4, <1>5, <1>7 DEF Fine
  <1>. QED
    BY <1>8, <1>9, OneCall


\* The steps of the broker's thread.
LEMMA ThreadKeeps ==
    ASSUME CallInv, NEW r \in Requests,
           Accept(r) \/ ReadRequest(r) \/ DatabaseFails(r) \/ Decide(r) \/ Work(r) \/ WriteFrame(r)
    PROVE  CallInv'
PROOF
  <1>0. Fine(call[r], result[r]) /\ UNCHANGED scenario
    BY DEF CallInv, Accept, ReadRequest, DatabaseFails, Decide, Work, WriteFrame, clientRest
  <1>1. ASSUME NEW at \in {"accepted", "checking", "working"},
               call[r].thread \in {"queued", "accepted", "checking"},
               call' = [call EXCEPT ![r].thread = at], UNCHANGED result
        PROVE  CallInv'
    <2>1. Fine(call[r], result[r])'
      BY <1>0, <1>1 DEF CallInv, Fine, Ordered, Explained, Told, CallRecords, ResultRecords
    <2>. QED
      BY <1>0, <1>1, <2>1, OneCall DEF CallInv
  <1>2. ASSUME NEW code \in Codes, AnswerWith(r, Refusal(code)), UNCHANGED result,
               call[r].thread \in {"accepted", "checking"},
               code = "invalid_request" => call[r].op \notin BulkOperations
        PROVE  CallInv'
    <2>1. Refusal(code) \in Frames /\ Refusal(code).answer = code
      BY DEF Refusal, Frames, Words
    <2>2. result[r].effects = 0
      BY <1>0, <1>2 DEF Fine, Ordered
    <2>3. result' = [result EXCEPT ![r] = result'[r]] /\ result'[r] = result[r]
      BY <1>2 DEF CallInv
    <2>. QED
      BY <1>0, <1>2, <2>1, <2>2, <2>3, Answers DEF Fine, Told
  <1>3. CASE Accept(r)
    BY <1>1, <1>3 DEF Accept, Runs
  <1>4. CASE ReadRequest(r)
    <2>1. TooLong(call[r].length) => call[r].op \notin BulkOperations
      BY <1>0, <1>4, SizesAssumption
      DEF Fine, Ordered, TooLong, ReadRequest, Runs, CallRecords
    <2>. QED
      BY <1>1, <1>2, <1>4, <2>1 DEF ReadRequest, Runs, Codes
  <1>5. CASE DatabaseFails(r)
    BY <1>2, <1>5 DEF DatabaseFails, Runs, Codes
  <1>6. CASE Decide(r)
    <2> DEFINE verdict == Targets!Verdict(r, NeedsModify(call[r].op))
    <2>1. verdict \in (Codes \ {"invalid_request"}) \cup {"accepted"}
      BY DEF Targets!Verdict, Codes
    <2>2. verdict = "accepted" => call' = [call EXCEPT ![r].thread = "working"]
      BY <1>6 DEF Decide
    <2>3. verdict # "accepted" => AnswerWith(r, Refusal(verdict))
      BY <1>6 DEF Decide
    <2>4. call[r].thread = "checking" /\ UNCHANGED result
      BY <1>6 DEF Decide, Runs
    <2> HIDE DEF verdict
    <2>. QED
      BY <1>1, <1>2, <2>1, <2>2, <2>3, <2>4
  <1>7. CASE Work(r)
    <2>1. call[r].thread = "working"
      BY <1>7 DEF Work, Runs
    <2>2. call[r] \in CallRecords /\ result[r] \in ResultRecords /\ call[r].op \in Operations
          /\ result[r].runs = 0 /\ result[r].effects = 0
      <3>1. call[r].client # "idle"
        BY <1>0, <2>1 DEF Fine, Ordered
      <3>. QED
        BY <1>0, <2>1, <3>1 DEF Fine, Ordered
    <2>3. ASSUME NEW n \in {0, 1}, NEW frame \in Frames, AnswerWith(r, frame),
                 result' = [result EXCEPT ![r].runs = @ + 1, ![r].effects = @ + n],
                 \/ /\ frame.answer = Answer[call[r].op]
                    /\ call[r].op \in Writes \ BulkOperations => n = 1
                 \/ frame.answer \in Codes \ {"invalid_request"} /\ n = 0
                 \/ frame.answer = "gmail_unavailable"
          PROVE  CallInv'
      <3>1. /\ result' = [result EXCEPT ![r] = result'[r]]
            /\ result'[r] = [result[r] EXCEPT !.runs = 1, !.effects = n]
        <4>1. result'[r] = [result[r] EXCEPT !.runs = @ + 1, !.effects = @ + n]
          BY <2>3 DEF CallInv
        <4>2. result' = [result EXCEPT ![r] = result'[r]]
          BY <2>3, <4>1 DEF CallInv
        <4>3. result[r].runs + 1 = 1 /\ result[r].effects + n = n
          BY <2>2
        <4>. QED
          BY <4>1, <4>2, <4>3
      <3>2. /\ result'[r] \in ResultRecords
            /\ result'[r].outcome = result[r].outcome /\ result'[r].misread = result[r].misread
            /\ result'[r].runs = 1 /\ result'[r].effects = n
        BY <2>2, <3>1 DEF ResultRecords
      <3>3. frame.answer # "invalid_request"
        BY <2>2, <2>3, AnswerNames, DefiniteCodes DEF InputCodes
      <3>4. result'[r].effects <= result'[r].runs
        BY <3>2
      <3>5. \/ /\ frame.answer = Answer[call[r].op]
               /\ result'[r].runs = 1
               /\ call[r].op \in Writes \ BulkOperations => result'[r].effects = 1
            \/ frame.answer \in Codes /\ result'[r].effects = 0
            \/ frame.answer = "gmail_unavailable"
        BY <2>3, <3>2
      <3>6. call[r].thread \in {"accepted", "checking", "working"} /\ AnswerWith(r, frame)
        BY <2>1, <2>3
      <3>. QED
        BY <1>0, <3>1, <3>2, <3>3, <3>4, <3>5, <3>6, Answers
    <2>4. ASSUME NEW size \in Sizes(call[r].op), NEW n \in Effects(call[r].op),
                 result' = [result EXCEPT ![r].runs = @ + 1, ![r].effects = @ + n],
                 AnswerWith(r, [answer |-> Answer[call[r].op], size |-> size])
          PROVE  CallInv'
      <3> DEFINE frame == [answer |-> Answer[call[r].op], size |-> size]
      <3>1. frame \in Frames
        BY <2>2, SizesAssumption, AnswerNames DEF Sizes, Frames, Words
      <3>2. /\ n \in {0, 1} /\ frame.answer = Answer[call[r].op]
            /\ call[r].op \in Writes \ BulkOperations => n = 1
        BY DEF Effects
      <3>3. result' = [result EXCEPT ![r].runs = @ + 1, ![r].effects = @ + n] /\ AnswerWith(r, frame)
        BY <2>4
      <3> HIDE DEF frame
      <3>. QED
        BY <2>3, <3>1, <3>2, <3>3
    <2>5. ASSUME NEW code \in {"credential_unavailable", "gmail_refused", "gmail_unavailable"},
                 NEW n \in {0, 1}, code # "gmail_unavailable" => n = 0,
                 result' = [result EXCEPT ![r].runs = @ + 1, ![r].effects = @ + n],
                 AnswerWith(r, Refusal(code))
          PROVE  CallInv'
      <3>1. Refusal(code) \in Frames /\ Refusal(code).answer = code
        BY DEF Refusal, Frames, Words, Codes
      <3>2. code = "gmail_unavailable" \/ code \in Codes \ {"invalid_request"}
        BY DEF Codes
      <3>. QED
        BY <2>3, <2>5, <3>1, <3>2
    <2>. QED
      BY <1>7, <2>4, <2>5 DEF Work
  <1>8. CASE WriteFrame(r)
    <2> DEFINE c == call[r]
               answer == IF c.answer.answer = "EmailsRead" /\ c.answer.size > MaxResult
                         THEN Refusal("internal") ELSE c.answer
               frames == (IF FitsResponse(answer.size) THEN {answer} ELSE {NoFrame})
                         \cup (IF TooLong(c.length) THEN {NoFrame} ELSE {})
    <2>1. PICK frame \in frames :
             call' = [call EXCEPT ![r].thread = "over", ![r].frame = frame]
      BY <1>8 DEF WriteFrame
    <2>2. c \in CallRecords /\ c.thread = "answering" /\ UNCHANGED result
      BY <1>0, <1>8 DEF Fine, WriteFrame, Runs
    <2>3. NoFrame \in Frames /\ Refusal("internal") \in Frames /\ NoFrame.size <= MaxResponse
      BY SizesAssumption DEF NoFrame, Refusal, Frames, Words, Codes
    <2>4. /\ frame \in {NoFrame, c.answer, Refusal("internal")}
          /\ frame.size <= MaxResponse
      BY <2>3 DEF FitsResponse
    <2>5. frame \in Frames
      BY <2>2, <2>3, <2>4 DEF CallRecords
    <2> HIDE DEF frames
    <2>6. /\ call' = [call EXCEPT ![r] = call'[r]]
          /\ call'[r] = [c EXCEPT !.thread = "over", !.frame = frame]
      BY <2>1 DEF CallInv
    <2>7. call'[r] \in CallRecords
      BY <2>2, <2>5, <2>6 DEF CallRecords
    <2>8. /\ call'[r].op = c.op /\ call'[r].length = c.length /\ call'[r].client = c.client
          /\ call'[r].answer = c.answer /\ call'[r].frame = frame /\ call'[r].thread = "over"
      BY <2>2, <2>6 DEF CallRecords
    <2>9. Fine(call[r], result[r])'
      BY <1>0, <2>2, <2>4, <2>7, <2>8 DEF Fine, Ordered, Explained, Told
    <2>. QED
      BY <1>0, <2>2, <2>6, <2>9, OneCall DEF CallInv
  <1>. QED
    BY <1>3, <1>4, <1>5, <1>6, <1>7, <1>8


\* Brokers, interfaces and the reading of the target leave the calls as they are.
LEMMA OthersKeep ==
    ASSUME CallInv, UNCHANGED callVars,
           \/ UNCHANGED scenario
           \/ scenario.changes > 0 /\ scenario' = [scenario EXCEPT !.changes = @ - 1]
    PROVE  CallInv'
PROOF
  <1>1. scenario' \in [brokers : SUBSET Brokers, stops : BOOLEAN, changes : Nat,
                       operations : SUBSET Operations]
    BY DEF CallInv
  <1>. QED
    BY <1>1 DEF callVars, CallInv, Fine, Ordered, Explained, Told

------------------------------------------------------------------------------
\* What a request has read of the database.
States == {"absent", "connected", "indeterminate", "disconnected"}
Scopes == SUBSET {"readonly", "modify"}
Readings == [stage : {"none", "none set", "rows", "scopes", "read"},
             subject : Accounts \cup {NoTarget}, state : States, scopes : Scopes]

\* What the request is about to read is connected only as it was seen; what it has read
\* in the rows is still what the scopes were then, or a login has put newer ones there.
ReadingSeen(r) ==
    /\ reader[r].stage \in {"rows", "scopes"} =>
          /\ reader[r].subject \in Accounts
          /\ \A s \in Accounts : state[s] = "connected" => <<s, scopes[s]>> \in seen[r]
    /\ reader[r].stage = "scopes" /\ reader[r].state = "connected"
       => <<reader[r].subject, scopes[reader[r].subject]>> \in seen[r]
    /\ reader[r].stage = "read" /\ reader[r].state = "connected"
       => <<reader[r].subject, reader[r].scopes>> \in seen[r]

TargetInv ==
    /\ target \in Accounts \cup {NoTarget}
    /\ state \in [Accounts -> States]
    /\ scopes \in [Accounts -> Scopes]
    /\ view \in [Tuis -> [target : Accounts \cup {NoTarget}, eligible : SUBSET Accounts]]
    /\ reader \in [Requests -> Readings]
    /\ seen = [r \in Requests |-> seen[r]]
    /\ \A r \in Requests : ReadingSeen(r)

\* Before the first request nothing has been read.
LEMMA TargetBegins == Init => TargetInv
PROOF
  <1> SUFFICES ASSUME Init PROVE TargetInv
    OBVIOUS
  <1>1. Targets!Init
    BY DEF Init
  <1>2. state \in [Accounts -> States] /\ scopes \in [Accounts -> Scopes]
    BY <1>1 DEF Targets!Init, Targets!Grants, States, Scopes
  <1>3. target \in Accounts \cup {NoTarget}
    BY <1>1 DEF Targets!Init
  <1>4. view \in [Tuis -> [target : Accounts \cup {NoTarget}, eligible : SUBSET Accounts]]
    BY <1>1, <1>3 DEF Targets!Init
  <1>5. Targets!NoReading \in Readings /\ Targets!NoReading.stage = "none"
    BY DEF Targets!NoReading, Readings, States, Scopes
  <1>6. reader \in [Requests -> Readings] /\ \A r \in Requests : reader[r].stage = "none"
    BY <1>1, <1>5 DEF Targets!Init
  <1>7. seen = [r \in Requests |-> seen[r]]
    BY <1>1 DEF Targets!Init
  <1>. QED
    BY <1>2, <1>3, <1>4, <1>6, <1>7 DEF TargetInv, ReadingSeen

\* A change of the database is witnessed by the requests that are reading.
LEMMA ChangeKeeps ==
    ASSUME TargetInv, NEW s \in Accounts, NEW st \in States, NEW g \in Scopes,
           state' = [state EXCEPT ![s] = st], scopes' = [scopes EXCEPT ![s] = g],
           st = "connected" \/ g = scopes[s],
           Targets!Witness, UNCHANGED <<target, view, reader>>
    PROVE  TargetInv'
PROOF
  <1>1. state' \in [Accounts -> States] /\ scopes' \in [Accounts -> Scopes]
    BY DEF TargetInv
  <1>2. seen' = [r \in Requests |->
            IF reader[r].stage \in {"rows", "scopes"}
            THEN seen[r] \cup Targets!Connected' ELSE seen[r]]
    BY DEF Targets!Witness
  <1>3. \A a \in Accounts : state'[a] = "connected" => <<a, scopes'[a]>> \in Targets!Connected'
    BY DEF Targets!Connected
  <1>4. ASSUME NEW r \in Requests PROVE ReadingSeen(r)'
    <2>1. seen[r] \subseteq seen'[r] /\ reader' = reader /\ ReadingSeen(r)
      BY <1>2 DEF TargetInv
    <2>2. reader[r].stage \in {"rows", "scopes"} =>
              \A a \in Accounts : state'[a] = "connected" => <<a, scopes'[a]>> \in seen'[r]
      BY <1>2, <1>3
    <2>3. ASSUME reader[r].stage = "scopes", reader[r].state = "connected"
          PROVE  <<reader[r].subject, scopes'[reader[r].subject]>> \in seen'[r]
      <3>1. reader[r].subject \in Accounts
        BY <2>1, <2>3 DEF ReadingSeen
      <3>2. CASE reader[r].subject = s /\ st = "connected"
        BY <2>2, <2>3, <3>1, <3>2 DEF TargetInv
      <3>3. CASE reader[r].subject # s \/ g = scopes[s]
        <4>1. scopes'[reader[r].subject] = scopes[reader[r].subject]
          BY <3>1, <3>3 DEF TargetInv
        <4>. QED
          BY <2>1, <2>3, <4>1 DEF ReadingSeen
      <3>. QED
        BY <3>2, <3>3
    <2>. QED
      BY <2>1, <2>2, <2>3 DEF ReadingSeen
  <1>. QED
    BY <1>1, <1>2, <1>4 DEF TargetInv

\* An interface's view and its choice of the target are not what a request reads.
LEMMA ViewKeeps ==
    ASSUME TargetInv, NEW t \in Tuis, InterfaceReloads(t) \/ InterfaceToggles(t)
    PROVE  TargetInv'
PROOF
  <1>1. UNCHANGED <<state, scopes, reader, seen>>
    BY DEF InterfaceReloads, InterfaceToggles, DatabaseStep, Targets!Reload, Targets!Toggle
  <1>2. target' \in Accounts \cup {NoTarget}
    BY DEF InterfaceReloads, InterfaceToggles, DatabaseStep, Targets!Reload, Targets!Toggle, TargetInv
  <1>3. view' \in [Tuis -> [target : Accounts \cup {NoTarget}, eligible : SUBSET Accounts]]
    <2>1. CASE InterfaceReloads(t)
      BY <2>1 DEF InterfaceReloads, Targets!Reload, TargetInv
    <2>2. CASE InterfaceToggles(t)
      <3>1. view' = [view EXCEPT ![t].target = target']
        BY <2>2 DEF InterfaceToggles, DatabaseStep, Targets!Toggle
      <3>. QED
        BY <1>2, <3>1 DEF TargetInv
    <2>. QED
      BY <2>1, <2>2
  <1>. QED
    BY <1>1, <1>2, <1>3 DEF TargetInv, ReadingSeen

\* Logins and disconnects are such changes of the database.
LEMMA DatabaseKeeps ==
    ASSUME TargetInv, InterfaceLogsIn \/ InterfaceSetsState
    PROVE  TargetInv'
PROOF
  <1>1. CASE InterfaceLogsIn
    <2>1. PICK s \in Accounts, g \in Targets!Grants : Targets!Login(s, g)
      BY <1>1 DEF InterfaceLogsIn, DatabaseStep
    <2>2. "connected" \in States /\ g \in Scopes
      BY DEF States, Scopes, Targets!Grants
    <2>. QED
      BY <2>1, <2>2, ChangeKeeps DEF Targets!Login
  <1>2. CASE InterfaceSetsState
    <2>1. PICK s \in Accounts, st \in {"connected", "indeterminate", "disconnected"} :
             Targets!SetState(s, st)
      BY <1>2 DEF InterfaceSetsState, DatabaseStep
    <2>2. st \in States /\ scopes[s] \in Scopes /\ scopes' = [scopes EXCEPT ![s] = scopes[s]]
      BY <2>1 DEF States, TargetInv, Targets!SetState
    <2>. QED
      BY <2>1, <2>2, ChangeKeeps DEF Targets!SetState
  <1>. QED
    BY <1>1, <1>2

\* The three statements of one reading.
LEMMA ReadingKeeps ==
    ASSUME TargetInv, NEW r \in Requests, Targets!ReadStep(r)
    PROVE  TargetInv'
PROOF
  <1>0. UNCHANGED <<target, state, scopes, view>>
    BY DEF Targets!ReadStep, Targets!ReadTarget, Targets!ReadRows, Targets!ReadScopes
  <1>1. ASSUME reader' \in [Requests -> Readings], seen' = [q \in Requests |-> seen'[q]],
               \A q \in Requests \ {r} : reader'[q] = reader[q] /\ seen'[q] = seen[q],
               ReadingSeen(r)'
        PROVE  TargetInv'
    <2>1. ASSUME NEW q \in Requests PROVE ReadingSeen(q)'
      <3>1. CASE q = r
        BY <1>1, <3>1
      <3>2. CASE q # r
        BY <1>0, <1>1, <3>2 DEF TargetInv, ReadingSeen
      <3>. QED
        BY <3>1, <3>2
    <2>. QED
      BY <1>0, <1>1, <2>1 DEF TargetInv
  <1>2. CASE Targets!ReadTarget(r)
    <2> DEFINE new == [Targets!NoReading EXCEPT
                          !.stage = IF target = NoTarget THEN "none set" ELSE "rows",
                          !.subject = target]
    <2>1. reader' = [reader EXCEPT ![r] = new] /\ seen' = [seen EXCEPT ![r] = Targets!Connected]
      BY <1>2 DEF Targets!ReadTarget
    <2>2. /\ new \in Readings
          /\ new.stage = (IF target = NoTarget THEN "none set" ELSE "rows")
          /\ new.subject = target
      BY DEF TargetInv, Targets!NoReading, Readings, States, Scopes
    <2> HIDE DEF new
    <2>3. \A s \in Accounts : state[s] = "connected" => <<s, scopes[s]>> \in Targets!Connected
      BY DEF Targets!Connected
    <2>4. reader'[r] = new /\ seen'[r] = Targets!Connected
      BY <2>1 DEF TargetInv
    <2>5. ReadingSeen(r)'
      BY <1>0, <2>2, <2>3, <2>4 DEF ReadingSeen, TargetInv
    <2>. QED
      BY <1>1, <2>1, <2>2, <2>5 DEF TargetInv
  <1>3. CASE Targets!ReadRows(r)
    <2> DEFINE new == [reader[r] EXCEPT !.stage = "scopes", !.state = state[reader[r].subject]]
    <2>1. reader' = [reader EXCEPT ![r] = new] /\ UNCHANGED seen /\ reader[r].stage = "rows"
      BY <1>3 DEF Targets!ReadRows
    <2>2. reader[r].subject \in Accounts /\ reader[r] \in Readings
      BY <2>1 DEF TargetInv, ReadingSeen
    <2>3. /\ new \in Readings /\ new.stage = "scopes" /\ new.subject = reader[r].subject
          /\ new.state = state[reader[r].subject]
      BY <2>2 DEF TargetInv, Readings
    <2> HIDE DEF new
    <2>4. reader'[r] = new
      BY <2>1 DEF TargetInv
    <2>5. ReadingSeen(r)'
      BY <1>0, <2>1, <2>2, <2>3, <2>4 DEF ReadingSeen, TargetInv
    <2>. QED
      BY <1>1, <2>1, <2>3, <2>5 DEF TargetInv
  <1>4. CASE Targets!ReadScopes(r)
    <2> DEFINE new == [reader[r] EXCEPT !.stage = "read", !.scopes = scopes[reader[r].subject]]
    <2>1. reader' = [reader EXCEPT ![r] = new] /\ UNCHANGED seen /\ reader[r].stage = "scopes"
      BY <1>4 DEF Targets!ReadScopes
    <2>2. reader[r].subject \in Accounts /\ reader[r] \in Readings
      BY <2>1 DEF TargetInv, ReadingSeen
    <2>3. /\ new \in Readings /\ new.stage = "read" /\ new.subject = reader[r].subject
          /\ new.state = reader[r].state /\ new.scopes = scopes[reader[r].subject]
      BY <2>2 DEF TargetInv, Readings
    <2> HIDE DEF new
    <2>4. reader'[r] = new
      BY <2>1 DEF TargetInv
    <2>5. ReadingSeen(r)'
      BY <1>0, <2>1, <2>2, <2>3, <2>4 DEF ReadingSeen, TargetInv
    <2>. QED
      BY <1>1, <2>1, <2>3, <2>5 DEF TargetInv
  <1>. QED
    BY <1>2, <1>3, <1>4 DEF Targets!ReadStep

------------------------------------------------------------------------------
\* The inductive invariant, with that of the socket.
WholeInv == IInv /\ CallInv /\ TargetInv

\* Before the first call it holds.
THEOREM WholeInit == Init => WholeInv
PROOF
  BY InitInv, CallsBegin, TargetBegins DEF WholeInv

\* Every step keeps it.
THEOREM WholeStep == WholeInv /\ [Next]_vars => WholeInv'
PROOF
  <1> SUFFICES ASSUME WholeInv, [Next]_vars PROVE WholeInv'
    OBVIOUS
  <1>0. IInv /\ IInv' /\ CallInv /\ TargetInv /\ Socket!SocketTypeOK
    BY StepInv DEF WholeInv, IInv
  <1>1. UNCHANGED <<target, state, scopes, view, reader, seen>> => TargetInv'
    BY <1>0 DEF TargetInv, ReadingSeen
  <1>2. UNCHANGED clientRest => TargetInv'
    BY <1>1 DEF clientRest
  <1>3. ASSUME NEW b \in Brokers,
               BrokerLooks(b) \/ BrokerStarts(b) \/ BrokerEnds(b) \/ BrokerStops(b)
               \/ BrokerCrashes(b)
        PROVE  CallInv' /\ TargetInv'
    <2>1. UNCHANGED socketRest
      BY <1>3 DEF BrokerLooks, BrokerStarts, BrokerEnds, BrokerStops, BrokerCrashes, BrokerStep
    <2>. QED
      BY <1>0, <1>1, <2>1, OthersKeep DEF socketRest, callVars
  <1>4. ASSUME NEW t \in Tuis, InterfaceReloads(t) \/ InterfaceToggles(t)
        PROVE  CallInv' /\ TargetInv'
    <2>1. UNCHANGED callVars
          /\ (UNCHANGED scenario
              \/ (scenario.changes > 0 /\ scenario' = [scenario EXCEPT !.changes = @ - 1]))
      BY <1>4 DEF InterfaceReloads, InterfaceToggles, DatabaseStep, targetRest, callVars
    <2>. QED
      BY <1>0, <1>4, <2>1, OthersKeep, ViewKeeps
  <1>5. ASSUME InterfaceLogsIn \/ InterfaceSetsState
        PROVE  CallInv' /\ TargetInv'
    <2>1. UNCHANGED callVars
          /\ scenario.changes > 0 /\ scenario' = [scenario EXCEPT !.changes = @ - 1]
      BY <1>5 DEF InterfaceLogsIn, InterfaceSetsState, DatabaseStep, targetRest, callVars
    <2>. QED
      BY <1>0, <1>5, <2>1, OthersKeep, DatabaseKeeps
  <1>6. ASSUME NEW r \in Requests, ClientCalls(r) \/ ClientStep(r) \/ Abandon(r)
        PROVE  CallInv' /\ TargetInv'
    <2>1. UNCHANGED clientRest
      BY <1>6 DEF ClientCalls, Call, ClientStep, Connect, Receive, NoAnswer, Abandon
    <2>. QED
      BY <1>0, <1>2, <1>6, <2>1, ClientKeeps, ReceiveKeeps DEF ClientStep
  <1>7. ASSUME NEW r \in Requests, ReadTarget(r)
        PROVE  CallInv' /\ TargetInv'
    <2>1. UNCHANGED callVars /\ UNCHANGED scenario /\ Targets!ReadStep(r)
      BY <1>7 DEF ReadTarget, targetRest, callVars
    <2>. QED
      BY <1>0, <2>1, OthersKeep, ReadingKeeps
  <1>8. ASSUME NEW r \in Requests,
               Accept(r) \/ ReadRequest(r) \/ DatabaseFails(r) \/ Decide(r) \/ Work(r)
               \/ WriteFrame(r)
        PROVE  CallInv' /\ TargetInv'
    <2>1. UNCHANGED clientRest
      BY <1>8 DEF Accept, ReadRequest, DatabaseFails, Decide, Work, WriteFrame
    <2>. QED
      BY <1>0, <1>2, <1>8, <2>1, ThreadKeeps
  <1>9. UNCHANGED vars => CallInv' /\ TargetInv'
    <2>1. UNCHANGED vars => /\ UNCHANGED callVars /\ UNCHANGED scenario
                            /\ UNCHANGED <<target, state, scopes, view, reader, seen>>
      BY DEF vars, callVars
    <2>. QED
      BY <1>0, <1>1, <2>1, OthersKeep
  <1>10. ASSUME NEW r \in Requests,
                ClientCalls(r) \/ ClientStep(r) \/ Abandon(r) \/ Accept(r) \/ ThreadStep(r)
                \/ DatabaseFails(r)
         PROVE  CallInv' /\ TargetInv'
    BY <1>6, <1>7, <1>8, <1>10 DEF ThreadStep
  <1>11. Next => CallInv' /\ TargetInv'
    <2> SUFFICES ASSUME Next PROVE CallInv' /\ TargetInv'
      OBVIOUS
    <2>. QED
      BY Zenon, <1>3, <1>4, <1>5, <1>10 DEF Next
  <1>. QED
    BY <1>0, <1>9, <1>11 DEF WholeInv

\* The inductive invariant holds in every reachable state.
THEOREM WholeAlways == Spec => []WholeInv
PROOF
  BY WholeInit, WholeStep, PTL DEF Spec

\* The types of a call, of the target and of the socket.
THEOREM CallsType == Spec => []TypeOK
PROOF
  <1>1. WholeInv => TypeOK
    <2> SUFFICES ASSUME WholeInv PROVE TypeOK
      OBVIOUS
    <2>1. Socket!SocketTypeOK
      BY DEF WholeInv, IInv
    <2>2. Targets!TargetTypeOK
      BY DEF WholeInv, TargetInv, Targets!TargetTypeOK, States, Scopes, Readings
    <2>3. ASSUME NEW r \in Requests
          PROVE  /\ call[r].broker \in Brokers \cup {NoFile}
                 /\ call[r].client \in {"idle", "connecting", "waiting", "over"}
                 /\ call[r].thread \in {"none", "queued", "accepted", "checking", "working",
                                        "answering", "over"}
                 /\ result[r].runs \in 0..1
      BY DEF WholeInv, CallInv, Fine, CallRecords, ResultRecords
    <2>. QED
      BY <2>1, <2>2, <2>3 DEF TypeOK
  <1>. QED
    BY WholeAlways, <1>1, PTL

\* Three statements read one after the other accept only what was true at one moment.
THEOREM AcceptedTrue == Spec => []AcceptedWasConnected
PROOF
  <1>1. WholeInv => AcceptedWasConnected
    BY DEF WholeInv, TargetInv, ReadingSeen, AcceptedWasConnected,
           Targets!AcceptedWasConnected, Targets!Eligible
  <1>. QED
    BY WholeAlways, <1>1, PTL

\* Both sides of the protocol agree on every answer and on every limit.
THEOREM Understood == Spec => []AnswersUnderstood
PROOF
  <1>1. WholeInv => AnswersUnderstood
    <2> SUFFICES ASSUME WholeInv PROVE AnswersUnderstood
      OBVIOUS
    <2>1. ASSUME NEW r \in Requests
          PROVE  /\ ~result[r].misread
                 /\ call[r].op \in BulkOperations /\ call[r].thread # "none"
                    => call[r].answer.answer # "invalid_request"
      <3>1. Fine(call[r], result[r])
        BY DEF WholeInv, CallInv
      <3>2. NoFrame.answer # "invalid_request"
        BY DEF NoFrame
      <3>. QED
        BY <3>1, <3>2 DEF Fine, Ordered, Explained, Told, CallRecords
    <2>. QED
      BY <2>1, Both DEF AnswersUnderstood
  <1>. QED
    BY WholeAlways, <1>1, PTL

\* No caller is told that a write was done, or was not, when the opposite holds, and no
\* call runs twice.
THEOREM Truthful == Spec => []OutcomeTruthful
PROOF
  <1>1. WholeInv /\ TypeOK => OutcomeTruthful
    <2> SUFFICES ASSUME WholeInv, TypeOK PROVE OutcomeTruthful
      OBVIOUS
    <2>1. \A r \in Requests : Fine(call[r], result[r])
      BY DEF WholeInv, CallInv
    <2>. QED
      BY <2>1 DEF OutcomeTruthful, Fine, Told, ResultRecords
  <1>. QED
    BY WholeAlways, CallsType, <1>1, PTL
================================================================================
