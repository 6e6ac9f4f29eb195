SPECIFICATION Spec
CONSTANTS
    ann = ann
    amy = amy
    tom = tom
    Usernames = {ann, tom}
    Taken = {tom}
    NoName = NoName
    MaxRuns = 1
    MaxPrompts = 2
    MaxIoFaults = 1
    MaxFaults = 0
    MaxForgets = 0
INVARIANTS LostWriteThrows
