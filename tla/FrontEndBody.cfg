SPECIFICATION Spec
CONSTANTS
    Error = Error
    Byte = 8
    KEY_LENGTH = 6
    MIN_INPUT_LENGTH = 32
    MAX_TARGET_LENGTH = 33
    MAGIC_NUMBER = 3
    Delta = 9
    Mix <- MCMix
    Clients <- MCBody
    Password <- MCPassword
    Keys <- MCKeys
    PIECE = 2
    BUFFER_SIZE = 3
INVARIANT RequestIsFlushed
CHECK_DEADLOCK FALSE
