SPECIFICATION Spec
CONSTANTS
    Tuis = {t1, t2}
    Nobody = Nobody
    MaxAuthorizations = 2
    Logins = {q1, q2}
    Window = 2
    MaxFailed = 2
    Ttl = 2
    MaxTime = 4
    Budgets <- MCBudgets
INVARIANTS RunsWhileConnected SavedFromOwnLogin EndsWithLogin FailuresBounded
PROPERTIES CallbackHandled
CHECK_DEADLOCK FALSE
