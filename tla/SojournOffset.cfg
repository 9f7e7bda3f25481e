SPECIFICATION Spec
CONSTANTS
    W = 16
    RelLimit = 37
    Window = 5
    MaxPayload = 3
    MaxStream = 40
INVARIANT SojournConverts
CHECK_DEADLOCK FALSE
