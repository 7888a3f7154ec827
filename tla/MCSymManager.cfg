SPECIFICATION Spec
CONSTANTS
    Symbols = {x, y}
    Names = {a, b}
    Builtin = logic
    OptionValues = {TRUE, FALSE}
    MaxLevel = 4
    MaxResets = 4
SYMMETRY Symmetry
INVARIANTS ScopesMatch RefusedTogether
CHECK_DEADLOCK FALSE
