SPECIFICATION Spec
CONSTANTS
    Slots = 4
    Writers = {w}
    Readers = {r}
    Elem = {e1, e2}
    NoElem = NoElem
    MaxLag = 3
INVARIANT TypeOK
PROPERTY StrictFifo
