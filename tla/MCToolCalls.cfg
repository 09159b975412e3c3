SPECIFICATION Spec
CONSTANTS
    Brokers = {b1, b2, b3}
    NoFile = NoFile
    Accounts = {s1}
    Tuis = {t1}
    NoTarget = NoTarget
    Requests = {q1}
    MaxRequest = 2
    MaxResult = 2
    MaxResponse = 4
    Scenarios <- MCScenarios
INVARIANTS AloneKeepsSocket AcceptedWasConnected AnswersUnderstood OutcomeTruthful
PROPERTIES EveryCallEnds
