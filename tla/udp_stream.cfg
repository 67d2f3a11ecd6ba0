\* One read at a time: the buffer implements a stream of bytes.
SPECIFICATION Spec
CONSTANTS
    BufferSize = 3
    DatagramSizes <- UpTo3
    ReadSizes <- OneToThree
    MaxOutstanding = 1
    MaxBytes = 8
INVARIANTS
    BufferTypeOK
    ReceivesIntoEmpty
PROPERTIES
    ImplementsByteStream
CHECK_DEADLOCK FALSE
