SPECIFICATION FairSpec
CONSTANTS
    Ports = {p1, p2}
    Manager = m
    Others = {}
    NumRx = 1
    NumTx = 1
    HashSize = 4
    TxErrors = 1
    None = None
 
PROPERTY MutexReleased
