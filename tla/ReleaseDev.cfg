SPECIFICATION FairSpec
CONSTANTS
    Production = FALSE
    Beneficiary = {ann}
    Tab = {t1}
    Policy <- MCOnePolicy
    DefaultPolicy <- MCShortPolicy
    SecondWarningAfter = 1
    MaxDay = 3
    MaxEpisode = 2
    MaxRevision = 1
    MaxReleases = 2
INVARIANTS
    ReleaseInvariant
PROPERTY
    SilentOwnerIsReleased
