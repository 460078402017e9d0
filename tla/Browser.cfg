SPECIFICATION Spec
CONSTANTS
    Tab = {t1, t2}
    Person = {ann, bob}
    None = None
    Unsaved = Unsaved
    MaxRevision = 2
    MaxInbox = 1
    MaxBusy = 2
INVARIANTS
    TypeOK
    KeyIsOfTheSession
    TakesTheVaultsKey
SYMMETRY Alike
CHECK_DEADLOCK FALSE
