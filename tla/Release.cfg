SPECIFICATION Spec
CONSTANTS
    Production = TRUE
    Beneficiary = {ann}
    Tab = {t1}
    Policy <- MCPolicies
    DefaultPolicy <- MCPolicy
    SecondWarningAfter = 1
    MaxDay = 4
    MaxEpisode = 2
    MaxRevision = 2
    MaxReleases = 1
INVARIANTS
    TypeOK
    ReleasedForCause
    GraceIsDatedAndWarned
    WarningsOnlyInGrace
    OwnerIsWarned
    OneReleaseEvent
    WarningsAreTimely
PROPERTIES
    ReleaseIsTerminal
    SilentReleaseIsReady
    ImplementsSwitch
