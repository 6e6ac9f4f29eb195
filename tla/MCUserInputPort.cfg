SPECIFICATION Spec
CONSTANTS
    ann = ann
    path = path
    wide = wide
    huge = huge
    quit = quit
    done = done
    EOL = EOL
    Words = {ann, path, wide, huge, quit, done}
    LengthOf <- MCLength
    CharsOf <- MCChars
    Directories = {ann, path}
    MinUsernameLen = 5
    UsernameLen = 64
    DirectoryNameLen = 1024
    FileNameLen = 255
    Ports <- WidePorts
    IntValues = 32
    MaxPortNumber = 7
    Texts <- OneLine
INVARIANTS BadPortThrows
