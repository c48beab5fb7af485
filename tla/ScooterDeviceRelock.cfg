SPECIFICATION Spec
CONSTANTS
    ContactSkips = 6
    WaitAfterImage = 2
    UnlockedErrorRetries = 3
    MaxPowerCycles = 1
PROPERTIES FirstFailureDoesNotRelock
