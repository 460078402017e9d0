SPECIFICATION FairSpec
CONSTANTS
    Invitation = Invitation
    Text = Text
    Warning = Warning
    Api = Api
    Daemon = Daemon
    Job <- MCWarnings
    Worker <- MCWorker
    Sms <- None
    Credential <- MCCredential
    Withheld <- MCWithheld
    Held <- MCHeld
    Batch = 2
    Concurrency = 1
    AttemptBudget = 2
    MaxOverruns = 0
    MaxCrashes = 1
PROPERTY
    Settled
