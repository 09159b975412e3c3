------------------------------- MODULE ToolCalls -------------------------------
(****************************************************************************)
(* Tool calls and readiness checks from the MCP server to the broker:        *)
(* server/routes.rs, broker/client.rs, broker/client/bulk.rs and            *)
(* broker/protocol.rs, over the broker processes of BrokerSocket and the    *)
(* target of TargetSelection.  A call is one connection; the broker serves it *)
(* on a thread of its own, which goes on when the caller has gone and dies  *)
(* with the broker's process.                                               *)
(****************************************************************************)
EXTENDS ToolProtocol

CONSTANTS
    Brokers, NoFile, Accounts, Tuis, NoTarget, Requests,
    MaxRequest,     \* MAX_REQUEST_BYTES, in the units of a request's length
    MaxResult,      \* MAX_BULK_RESULT_BYTES, MAX_READ_EMAIL_MCP_RESULT_BYTES
    MaxResponse,    \* MAX_RESPONSE_BYTES
    Scenarios       \* bound: which brokers, operations and database changes one
                    \* behaviour takes from

ASSUME SizesAssumption ==
    /\ MaxRequest \in Nat /\ MaxResult \in Nat /\ MaxResponse \in Nat
    /\ 1 <= MaxResult /\ MaxResult < MaxResponse
ASSUME NoFileAssumption == NoFile \notin Brokers
ASSUME ScenariosAssumption ==
    Scenarios \subseteq [brokers : SUBSET Brokers, stops : BOOLEAN, changes : Nat,
                         operations : SUBSET Operations]

VARIABLES
    path, stage, identity, near,                    \* BrokerSocket
    target, state, scopes, view, reader, seen,      \* TargetSelection
    scenario,   \* the chosen member of Scenarios, what is left of its changes
    call,       \* each request: its client and its broker thread
    result      \* each request: what the caller was told, what the broker had done

Socket == INSTANCE BrokerSocket
Targets == INSTANCE TargetSelection

callVars == <<call, result>>
vars == <<path, stage, identity, near, target, state, scopes, view, reader, seen,
          scenario, call, result>>

\* The frame for a reader is in units: the answer's envelope takes one.
NoFrame == [answer |-> "none", size |-> 0]
Refusal(code) == [answer |-> code, size |-> 1]

NoCall == [op |-> "none", length |-> 0, client |-> "idle", thread |-> "none",
           broker |-> NoFile, answer |-> NoFrame, frame |-> NoFrame]
NoResult == [outcome |-> "none", runs |-> 0, effects |-> 0, misread |-> FALSE]

\* A draft's text may outgrow a frame once escaped; the other requests cannot.
MayBeLong == {"create_draft", "create_reply_draft", "create_drafts", "create_reply_drafts"}
\* Results whose size depends on the mailbox.
MayBeLarge == {"list_emails", "list_drafts", "read_email", "read_emails"}

Lengths(op) == IF op \in MayBeLong THEN 1..(MaxRequest + 1) ELSE {1}
Sizes(op) == IF op \in MayBeLarge THEN 1..(MaxResponse + 1) ELSE {1}

Init ==
    /\ Socket!Init
    /\ Targets!Init
    /\ scenario \in Scenarios
    /\ call = [r \in Requests |-> NoCall]
    /\ result = [r \in Requests |-> NoResult]

socketRest == <<target, state, scopes, view, reader, seen, scenario, call, result>>
targetRest == <<path, stage, identity, near, call, result>>
clientRest == <<path, stage, identity, near, target, state, scopes, view, reader, seen, scenario>>

------------------------------------------------------------------------------
(* The client.                                                              *)

\* The tool's validation, and in exchange_bulk the length of the encoded request.
Call(r, op, length, valid) ==
    /\ call[r].client = "idle"
    /\ LET told(code) ==
               /\ call' = [call EXCEPT ![r].op = op, ![r].client = "over"]
               /\ result' = [result EXCEPT ![r].outcome = code]
       IN  IF ~valid THEN \E code \in ToolRefusal[op] : told(code)
           ELSE IF op \in BulkOperations /\ length > MaxRequest THEN told("invalid_request")
           ELSE /\ call' = [call EXCEPT ![r].op = op, ![r].length = length,
                                        ![r].client = "connecting"]
                /\ UNCHANGED result
    /\ UNCHANGED clientRest

\* Mutant: no connection and no answer are told apart from nothing the broker says.
LostAsRefused(op) == "target_unavailable"

\* Every failure of the connection itself.
Lost(op) == "internal"

Tell(r, code) ==
    /\ call' = [call EXCEPT ![r].client = "over"]
    /\ result' = [result EXCEPT ![r].outcome = code]

Connect(r) ==
    /\ call[r].client = "connecting"
    /\ IF path # NoFile /\ Socket!Listens(path)
       THEN /\ call' = [call EXCEPT ![r].client = "waiting", ![r].thread = "queued",
                                    ![r].broker = path]
            /\ UNCHANGED result
       ELSE Tell(r, Lost(call[r].op))
    /\ UNCHANGED clientRest

\* The limit read_email and read_emails keep to in the tool.
ToolLimit(op) ==
    CASE op = "read_emails" -> "response_budget_exceeded"
      [] op = "read_email" -> "message_too_large"
      [] OTHER -> "none"

\* read_bounded_line_async and the match on the answer; the tool's own limit.
Receive(r) ==
    LET c == call[r]
        variants == {Answer[op] : op \in Operations}
    IN  /\ c.client = "waiting"
        /\ c.frame # NoFrame
        /\ call' = [call EXCEPT ![r].client = "over"]
        /\ result' = [result EXCEPT
              ![r].misread = c.frame.size > MaxResponse
                             \/ (c.frame.answer \in variants /\ c.frame.answer # Accepts[c.op]),
              ![r].outcome =
                  IF c.frame.size > MaxResponse THEN "internal"
                  ELSE IF c.frame.answer \notin variants THEN c.frame.answer
                  ELSE IF c.frame.answer # Accepts[c.op] THEN "internal"
                  ELSE IF c.frame.size - 1 > MaxResult /\ ToolLimit(c.op) # "none"
                  THEN ToolLimit(c.op)
                  ELSE "ok"]
        /\ UNCHANGED clientRest

\* Mutant: only a closed stream ends the wait, not a lost process.
ClosedByThread(r) == call[r].thread = "over"

\* The stream has ended: the thread closed it, or its process is gone.
Closed(r) == call[r].thread = "over" \/ ~Socket!Alive(call[r].broker)

NoAnswer(r) ==
    /\ call[r].client = "waiting"
    /\ call[r].frame = NoFrame
    /\ Closed(r)
    /\ Tell(r, Lost(call[r].op))
    /\ UNCHANGED clientRest

\* The MCP caller goes away, or readiness has waited for two seconds.
Abandon(r) ==
    /\ call[r].client = "waiting"
    /\ Tell(r, IF call[r].op = "readiness" THEN "internal" ELSE "abandoned")
    /\ UNCHANGED clientRest

------------------------------------------------------------------------------
(* The broker's thread: handle_connection.                                  *)

Runs(r, at) == call[r].thread = at /\ Socket!Alive(call[r].broker)

Accept(r) ==
    /\ Runs(r, "queued")
    /\ stage[call[r].broker] = "running"
    /\ call' = [call EXCEPT ![r].thread = "accepted"]
    /\ UNCHANGED <<clientRest, result>>

\* Mutant: a request of exactly the limit is turned away, unlike in the client.
TooLongFromLimit(length) == length >= MaxRequest

TooLong(length) == length > MaxRequest

AnswerWith(r, frame) == call' = [call EXCEPT ![r].thread = "answering", ![r].answer = frame]

\* read_request.  A single request too long for a frame is refused unread.
ReadRequest(r) ==
    /\ Runs(r, "accepted")
    /\ IF TooLong(call[r].length) THEN AnswerWith(r, Refusal("invalid_request"))
       ELSE call' = [call EXCEPT ![r].thread = "checking"]
    /\ UNCHANGED <<clientRest, result>>

\* selected_target_account, statement by statement.
ReadTarget(r) ==
    /\ Runs(r, "checking")
    /\ Targets!ReadStep(r)
    /\ UNCHANGED <<targetRest, scenario>>

\* The account database cannot be opened or read.
DatabaseFails(r) ==
    /\ Runs(r, "checking")
    /\ AnswerWith(r, Refusal("internal"))
    /\ UNCHANGED <<clientRest, result>>

Decide(r) ==
    /\ Runs(r, "checking")
    /\ reader[r].stage \in {"none set", "read"}
    /\ LET verdict == Targets!Verdict(r, NeedsModify(call[r].op))
       IN  IF verdict = "accepted" THEN call' = [call EXCEPT ![r].thread = "working"]
           ELSE AnswerWith(r, Refusal(verdict))
    /\ UNCHANGED <<clientRest, result>>

\* Mutant: a single write is answered like a bulk one, as done whatever became of it.
EffectsUnchecked(op) == IF op \in Writes THEN {0, 1} ELSE {0}

\* What a handler that answers with its own variant may have changed.  A bulk write
\* answers so whatever became of its items: none may have been carried out.
Effects(op) ==
    IF op \notin Writes THEN {0} ELSE IF op \in BulkOperations THEN {0, 1} ELSE {1}

\* The handler's work, which the other modules model: it is done; refused without an
\* effect, for the credential or with a code that names Gmail's reason; or
\* gmail_unavailable, which a single write also answers after it was dispatched.
Work(r) ==
    LET op == call[r].op
        ran(n) == result' = [result EXCEPT ![r].runs = @ + 1, ![r].effects = @ + n]
    IN  /\ Runs(r, "working")
        /\ \/ /\ \E n \in Effects(op) : ran(n)
              /\ \E size \in Sizes(op) : AnswerWith(r, [answer |-> Answer[op], size |-> size])
           \/ \E code \in {"credential_unavailable", "gmail_refused"} :
                 ran(0) /\ AnswerWith(r, Refusal(code))
           \/ /\ op \in Writes
              /\ \E n \in (IF op \in BulkOperations THEN {0} ELSE {0, 1}) : ran(n)
              /\ AnswerWith(r, Refusal("gmail_unavailable"))
        /\ UNCHANGED clientRest

\* Mutant: the terminating newline forgotten.
FitsResponseBare(size) == size - 1 <= MaxResponse

\* encoded.len() < MAX_RESPONSE_BYTES; sizes count the newline.
FitsResponse(size) == size <= MaxResponse

\* The budget of a bulk read, then the frame.  What is too large is not sent at all,
\* and closing with the request unread may discard the answer.
WriteFrame(r) ==
    LET c == call[r]
        answer == IF c.answer.answer = "EmailsRead" /\ c.answer.size > MaxResult
                  THEN Refusal("internal") ELSE c.answer
        frames == (IF FitsResponse(answer.size) THEN {answer} ELSE {NoFrame})
                  \cup (IF TooLong(c.length) THEN {NoFrame} ELSE {})
    IN  /\ Runs(r, "answering")
        /\ \E frame \in frames :
              call' = [call EXCEPT ![r].thread = "over", ![r].frame = frame]
        /\ UNCHANGED <<clientRest, result>>

ThreadStep(r) ==
    ReadRequest(r) \/ ReadTarget(r) \/ Decide(r) \/ Work(r) \/ WriteFrame(r)
ClientStep(r) == Connect(r) \/ Receive(r) \/ NoAnswer(r)

------------------------------------------------------------------------------
(* Around the calls.                                                        *)

BrokerStep(step) == step /\ UNCHANGED socketRest
BrokerLooks(b) == b \in scenario.brokers /\ BrokerStep(Socket!Look(b))
BrokerStarts(b) == BrokerStep(Socket!StartStep(b))
BrokerEnds(b) == BrokerStep(Socket!EndStep(b))
BrokerStops(b) == scenario.stops /\ BrokerStep(Socket!Stop(b))
BrokerCrashes(b) == scenario.stops /\ BrokerStep(Socket!Crash(b))

DatabaseStep(step) ==
    /\ scenario.changes > 0
    /\ step
    /\ scenario' = [scenario EXCEPT !.changes = @ - 1]
    /\ UNCHANGED targetRest

InterfaceReloads(t) == Targets!Reload(t) /\ UNCHANGED <<targetRest, scenario>>
InterfaceToggles(t) == \E s \in Accounts : DatabaseStep(Targets!Toggle(t, s))
InterfaceLogsIn == \E s \in Accounts, g \in Targets!Grants : DatabaseStep(Targets!Login(s, g))
InterfaceSetsState ==
    \E s \in Accounts, st \in {"connected", "indeterminate", "disconnected"} :
        DatabaseStep(Targets!SetState(s, st))

ClientCalls(r) ==
    \E op \in scenario.operations : \E length \in Lengths(op), valid \in BOOLEAN :
        /\ valid \/ (op \in Tools /\ length = 1)
        /\ Call(r, op, length, valid)

Next ==
    \/ \E b \in Brokers :
          BrokerLooks(b) \/ BrokerStarts(b) \/ BrokerEnds(b) \/ BrokerStops(b) \/ BrokerCrashes(b)
    \/ \E t \in Tuis : InterfaceReloads(t) \/ InterfaceToggles(t)
    \/ InterfaceLogsIn \/ InterfaceSetsState
    \/ \E r \in Requests :
          ClientCalls(r) \/ ClientStep(r) \/ Abandon(r) \/ Accept(r) \/ ThreadStep(r)
          \/ DatabaseFails(r)

\* A started broker reaches its accept loop, which takes every connection; threads and
\* clients run, and every exchange with Google has a timeout.
Spec ==
    /\ Init
    /\ [][Next]_vars
    /\ \A b \in Brokers : WF_vars(BrokerStarts(b)) /\ WF_vars(BrokerEnds(b))
    /\ \A r \in Requests :
          WF_vars(ClientStep(r)) /\ WF_vars(Accept(r)) /\ WF_vars(ThreadStep(r))

------------------------------------------------------------------------------
TypeOK ==
    /\ Socket!SocketTypeOK
    /\ Targets!TargetTypeOK
    /\ \A r \in Requests :
          /\ call[r].broker \in Brokers \cup {NoFile}
          /\ call[r].client \in {"idle", "connecting", "waiting", "over"}
          /\ call[r].thread \in {"none", "queued", "accepted", "checking", "working",
                                 "answering", "over"}
          /\ result[r].runs \in 0..1

AloneKeepsSocket == Socket!AloneKeepsSocket
AcceptedWasConnected == Targets!AcceptedWasConnected

\* What the broker sends the client understands: every frame fits the client's bound,
\* every operation's answer is the one variant its client method takes, and a request the
\* client's length check lets through is not refused as too long by the broker's.  And
\* both sides give an invalid input the same codes.
AnswersUnderstood ==
    /\ \A r \in Requests :
          /\ ~result[r].misread
          /\ call[r].op \in BulkOperations /\ call[r].thread # "none"
             => call[r].answer.answer # "invalid_request"
    /\ \A op \in Tools : BrokerRefusal[op] = ToolRefusal[op]

Definite == {"invalid_request", "target_not_configured", "target_unavailable",
             "insufficient_scope", "credential_unavailable", "gmail_refused"}
             \cup UNION {ToolRefusal[op] : op \in Tools}

\* A caller is told the truth, whatever brokers come and go: success means that the
\* operation ran, once, and with its effect if it is the write of one resource (the
\* result of a bulk write has an outcome for each item); a definite refusal, that it had
\* no effect; and a call that reached a broker never runs twice.
OutcomeTruthful ==
    /\ TypeOK
    /\ \A r \in Requests :
        /\ result[r].runs <= 1 /\ result[r].effects <= result[r].runs
        /\ result[r].outcome = "ok" =>
              /\ result[r].runs = 1
              /\ call[r].op \in Writes \ BulkOperations => result[r].effects = 1
        /\ result[r].outcome \in Definite => result[r].effects = 0

\* Every call ends, with the broker alive, stopped, replaced or killed.
EveryCallEnds ==
    \A r \in Requests : call[r].client # "idle" ~> call[r].client = "over"
================================================================================
