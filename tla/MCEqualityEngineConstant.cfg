SPECIFICATION Spec
CONSTANTS
    Leaves <- ConstantLeaves
    Operators <- ConstantOperators
    Const <- ConstantConst
    App <- ConstantApp
    True = "true"
    False = "false"
    Predicates = {}
    Tags = {}
    TriggerTerms = {}
    TriggerAtoms = {"fkb"}
    AddedTerms = {"fa"}
    MaxInForce = 3
    MaxLevel = 1
CHECK_DEADLOCK FALSE
INVARIANT TermsPresent
