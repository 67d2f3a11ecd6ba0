\* A read was given up, and its receive is still outstanding.
SPECIFICATION Spec
CONSTANTS
    BufferSize = 3
    DatagramSizes <- Two
    ReadSizes <- OneByte
    MaxOutstanding = 2
    MaxBytes = 8
PROPERTIES
    KeptUntilRead
CHECK_DEADLOCK FALSE
