CONSTANTS
    Byte = {0, 129, 255}
    Char = {"e", "minus", "kappa", "oplus", "other"}
    MaxDigits = 3
    MaxBytes = 8
    MaxChars = 4
SPECIFICATION Spec
CHECK_DEADLOCK FALSE
INVARIANTS
    GlyphsRoundTrip
    TextKeepsValue
    CorrectionIsSafe
