SPECIFICATION FormatsSpec
CONSTANTS
    Texts = {0, 1, 2, 3, 300, 6095, 6096, 6097, 6098, 6099, 6100, 8192}
    Lengths = {0, 1, 4096, 8191, 8192, 8193}
    Chars = {"|", ":", "0", "1"}
    Digits = {"0", "1"}
    Numeral <- MCNumeral
    MaxLength = 2
INVARIANTS
    EncodedIsRead
    BudgetExact
    SignatureBindsClaim
CHECK_DEADLOCK FALSE
