SPECIFICATION Spec
CONSTANTS
    QueueMax = 2
    ItemCount = 3
    Wipe = 2
    ConfirmCount = 3
    Yes = 1
    Events <- AllEvents
    Full = 2
    Portions = {1, 2}
    MaxPresses = 4
    MaxCalls = 2
INVARIANTS ScreenIsCurrent OldKeysDropped
PROPERTIES KeysAreHeard BarNeverGoesBack
