SPECIFICATION FairSpec
CONSTANTS
    ann = ann
    path = path
    wide = wide
    huge = huge
    quit = quit
    done = done
    EOL = EOL
    Words = {ann, path, wide, huge, quit, done}
    LengthOf <- MCLength
    CharsOf <- MCChars
    Directories = {path}
    MinUsernameLen = 5
    UsernameLen = 64
    DirectoryNameLen = 1024
    FileNameLen = 255
    Ports <- MCPorts
    IntValues = 32
    MaxPortNumber = 7
    Texts <- MCTexts
INVARIANTS TypeOK SelectionAsTyped DirectoryAsTyped PortNotCut
PROPERTIES PromptsEnd
