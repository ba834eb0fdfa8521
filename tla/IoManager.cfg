SPECIFICATION Spec
CONSTANTS
    Ports = {p1, p2}
    Manager = m
    Others = {o}
    NumRx = 1
    NumTx = 1
    HashSize = 4
    TxErrors = 0
    None = None
INVARIANT TypeOK NoIoOnClosedPort Synchronized 
