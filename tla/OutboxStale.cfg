SPECIFICATION Spec
CONSTANTS
    Invitation = Invitation
    Text = Text
    Warning = Warning
    Api = Api
    Daemon = Daemon
    Job <- MCMail
    Worker <- MCWorker
    Sms <- None
    Credential <- None
    Withheld <- None
    Held <- None
    Batch = 2
    Concurrency = 1
    AttemptBudget = 2
    MaxOverruns = 1
    MaxCrashes = 1
PROPERTY
    StaleWorkerWritesNothing
