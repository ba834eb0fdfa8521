CONSTANTS
    Received <- MCReceived
    Room = 40
    Free = 2
    MaxOps = 4
    Bodies <- MCBodies
    ByteSize = 4
    Ports = {1, 2}
SPECIFICATION Spec
INVARIANTS
    TypeOK
    
    HeadersInPlace
    
    ChecksumsRight
    
CHECK_DEADLOCK FALSE
