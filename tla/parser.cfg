SPECIFICATION MCSpec
CONSTANTS
    Bytes <- MCBytes
    MPS = "1f"
    MS = "1e"
    Headers <- ScannerHeaders
    NumArguments <- HeaderArguments
    Inputs <- MCInputs
    SIZE_MAX = 1000
    MaxArguments = 2
    Arguments <- MCArguments
    MaxPieces = 4
    MaxBuilt = 2
INVARIANTS TypeOK AssertionsHold EveryByteOnce MessagesAreGenuine NoMessageMissed BuiltIsReadBack
