SPECIFICATION Spec
CONSTANTS
    Scenes <- MCScenes
    Distance <- MCDistance
    Singular <- MCSingular
    Colourless <- MCColourless
    Infinity = 1000000
    MinCct = 30
    MaxCct = 200
    ToleranceRate = 20
    MaxIterations = 80
INVARIANTS SearchStaysInRange LeastStaysInBracket
CHECK_DEADLOCK FALSE
