SPECIFICATION FairSpec
CONSTANTS
    ann = ann
    amy = amy
    tom = tom
    Usernames = {ann, amy, tom}
    Taken = {tom}
    NoName = NoName
    MaxRuns = 3
    MaxPrompts = 2
    MaxIoFaults = 1
    MaxFaults = 1
    MaxForgets = 1
INVARIANTS TypeOK KeyAgreement HalfIdentityOnlyByCrash KeySavedBeforeTold AnswerAwaited
PROPERTIES HonouredIdentityKept IdentityStored RunAdvances RunEnds
