SPECIFICATION Spec
CONSTANTS
    Production = TRUE
    Beneficiary = {ann}
    Tab = {t1}
    Policy <- MCOnePolicy
    DefaultPolicy <- MCShortPolicy
    SecondWarningAfter = 1
    MaxDay = 2
    MaxEpisode = 1
    MaxRevision = 2
    MaxReleases = 1
PROPERTIES
    EveryReleaseIsReady
