SPECIFICATION Spec
CONSTANTS
    Chars <- Characters
    MaxLength = 2
    Capacity = 9
    InitialFiles <- EditedFiles
    NoFile = NoFile
    NewUsers <- RegularArgument
    DefaultName <- Default
    DefaultPassword <- Default
    Usernames <- Names
    Passwords <- SimplePasswords
    MaxRequests = 2
    MaxStarts = 2
INVARIANT LoadInv
INVARIANT SomeoneCanLogIn
INVARIANT RestartKeepsSimpleUsers
INVARIANT PartialSaveInventsNothing
CHECK_DEADLOCK FALSE
