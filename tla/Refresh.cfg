SPECIFICATION Spec
CONSTANTS
    Tab = {t1, t2}
    Request = {r1, r2}
    None = None
    WebLocks = TRUE
    MaxTokens = 3
    MaxPosts = 2
INVARIANTS
    TypeOK
    HealthySessionSurvives
    RequestsSucceed
SYMMETRY Alike
CHECK_DEADLOCK FALSE
