SPECIFICATION Spec
CONSTANTS
    UniqueIdLen = 2
    UsernameLen = 2
    RsaKeyLen = 1
    FileNameLen = 2
    LittleEndian = TRUE
    Requests <- MCRequests
    Answers <- MCAnswers
    WrongSizes <- MCWrongSizes
    MaxRequests = 1
    MaxFaults = 0
INVARIANTS DeclaredSizeIsSerialized
