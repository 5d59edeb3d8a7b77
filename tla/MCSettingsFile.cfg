CONSTANTS
    Bots = {b1, b2}
    Names <- MCNames
    Defaults <- MCDefaults
    Starts <- MCStarts
    Texts <- MCTexts
    Garbage <- MCGarbage
    MaxChanges = 1
    MaxSaves = 2
SYMMETRY MCSymmetry
SPECIFICATION Spec
INVARIANT Agreement
INVARIANT RoundTrip
INVARIANT OwnLine
INVARIANT InOrder
CHECK_DEADLOCK FALSE
