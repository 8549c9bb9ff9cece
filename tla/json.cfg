SPECIFICATION MCSpec
CONSTANTS
    MaxUnsigned = 65535
    MaxNegative = 32768
    FloatDigits = 4
    digits10 = 3
    MaxExponent = 12
    MaxTokens = 5
    MaxNumber = 5
    MaxBytes = 3
INVARIANTS RoundTrip PayloadIsOneArgument StringsAreRead NumbersAreRead TextsAreParsed
INVARIANTS BinaryIsRead PatchMakesTarget
CHECK_DEADLOCK FALSE
