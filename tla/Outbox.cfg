SPECIFICATION Spec
CONSTANTS
    Invitation = Invitation
    Text = Text
    Warning = Warning
    Api = Api
    Daemon = Daemon
    Job <- MCJobs
    Worker <- MCWorker
    Sms <- MCSms
    Credential <- None
    Withheld <- None
    Held <- None
    Batch = 2
    Concurrency = 1
    AttemptBudget = 2
    MaxOverruns = 1
    MaxCrashes = 1
INVARIANTS
    TypeOK
    OneSender
    SupersededIsFinal
    EmailReceivedOnce
    OutboxInvariant
    SmsRepeatedByReclaim
PROPERTIES
    FinalStaysFinal
    SettledIsSilent
SYMMETRY Alike
