SPECIFICATION Spec
CONSTANTS
    a1 = a1
    a2 = a2
    Asker = {a1, a2}
    Samples = 3
    Window = 2
    MaxTickets = 3
SYMMETRY AskerSymmetry
INVARIANTS TypeOK PhaseIsTrue ServedIsWritten NoRequestLost OutcomeIsRight
