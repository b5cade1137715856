CONSTANTS
    a = a
    b = b
    c = c
    Addresses = {a, b, c}
    Scripts <- MCScripts
    Resolutions <- MCResolutions
    BufferSize = 2
    MaxDown = 2
    MaxChanges = 1
SPECIFICATION Spec
INVARIANTS
    DialogueInv
    TellsTheTruth
PROPERTIES
    ImplementsTunnel
    ServesAndEnds
