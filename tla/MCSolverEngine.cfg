SPECIFICATION Spec
CONSTANTS
    f1 = f1
    f2 = f2
    d1 = d1
    Formulas <- MCFormulas
    Definitions <- MCDefinitions
    MaxPush = 2
    MaxList = 4
SYMMETRY MCSymmetry
CHECK_DEADLOCK FALSE
INVARIANTS
    LevelsAgree
    HandedOver
    ShutdownUnwinds
PROPERTY
    AnswersRight
