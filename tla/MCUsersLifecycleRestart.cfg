SPECIFICATION Spec
CONSTANTS
    Chars <- Characters
    MaxLength = 2
    Capacity = 9
    InitialFiles <- PlainFiles
    NoFile = NoFile
    NewUsers <- NoArguments
    DefaultName <- Default
    DefaultPassword <- Default
    Usernames <- PrintableNames
    Passwords <- EscapedPasswords
    MaxRequests = 1
    MaxStarts = 2
INVARIANT RestartKeepsUsers
CHECK_DEADLOCK FALSE
