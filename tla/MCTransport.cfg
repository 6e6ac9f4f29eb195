SPECIFICATION FairSpec
CONSTANTS
    UniqueIdLen = 2
    UsernameLen = 2
    RsaKeyLen = 1
    FileNameLen = 2
    LittleEndian = TRUE
    Requests <- MCRequests
    Answers <- MCAnswers
    WrongSizes <- MCWrongSizes
    MaxRequests = 3
    MaxFaults = 1
INVARIANTS TypeOK NoMutualWait
PROPERTIES RequestsInOrder ResponsesInOrder ReadThrowsWhenCut EveryReadEnds
