SPECIFICATION FairSpec
CONSTANTS
    ContactSkips = 200
    WaitAfterImage = 80
    UnlockedErrorRetries = 10
    MaxPowerCycles = 1
INVARIANTS TypeOK CountNeverPassesContact UnlockedOnlyWhenTold FailuresAreCounted
PROPERTIES RelockNeedsAReason KeepsCheckingIn HeldSwitchTakesPictures
