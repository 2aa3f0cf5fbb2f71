SPECIFICATION Spec
CONSTANTS
    QueueMax = 2
    ItemCount = 3
    Wipe = 2
    ConfirmCount = 3
    Yes = 1
    Events <- Buttons
    Full = 2
    Portions = {1}
    MaxPresses = 3
    MaxCalls = 0
INVARIANT WipeIsConfirmed
