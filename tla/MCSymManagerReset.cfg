SPECIFICATION Spec
CONSTANTS
    Symbols = {x, y}
    Names = {a, b}
    Builtin = logic
    OptionValues = {}
    MaxLevel = 2
    MaxResets = 2
SYMMETRY Symmetry
INVARIANTS NothingOutlives
CHECK_DEADLOCK FALSE
