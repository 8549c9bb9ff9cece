SPECIFICATION ClientSpec
CONSTANTS
    Bytes <- MCBytes
    MPS = "1f"
    MS = "1e"
    Headers <- ScannerHeaders
    NumArguments <- HeaderArguments
    Inputs <- MCInputs
    SIZE_MAX = 1000
    MaxArguments = 2
    Arguments <- MCArguments
    MaxPieces = 2
    MaxBuilt = 1
INVARIANTS HeadersAreValid
