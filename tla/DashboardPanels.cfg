SPECIFICATION Spec
CONSTANTS
    Representatives = {r1, r2}
    NoOne = noOne
    MaxMoves = 2
    MaxEdits = 1
    MaxDisturbances = 1
SYMMETRY Symmetry
INVARIANTS
    MessageMeansDone
    
PROPERTY RowsStayWithTheirRepresentative
CHECK_DEADLOCK FALSE
