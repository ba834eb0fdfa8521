SPECIFICATION Spec
CONSTANTS
    Slots = 4
    Writers = {w1, w2}
    Readers = {r1, r2}
    Elem = {e1, e2}
    NoElem = NoElem
    MaxLag = 3
SYMMETRY Symmetry
PROPERTY LossyFifo
