SPECIFICATION Spec
CONSTANTS
    Logins = {1}
    Accounts = {1, 2}
    NoAccount = NoAccount
    MaxSaveFailures = 1
    Models = {1, 2, 3}
    Configured = 2
    MaxCrashes = 1
    Touched = {2}
    Bootstrap <- MCBootstrap
    Existing <- MCExisting
    RawAnswers <- MCAnswers
INVARIANTS
    StatusTellsOutcome
    NoModelHidden
    DefaultIsServable
PROPERTIES
    OutcomeIsFinal
    LoginsEnd
    NewAccountIsRouted
CHECK_DEADLOCK FALSE
