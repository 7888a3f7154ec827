SPECIFICATION Spec
CONSTANTS
    Leaves <- MCLeaves
    Operators <- MCOperators
    Const <- MCConst
    App <- MCApp
    True = "true"
    False = "false"
    Predicates = {"pa", "pb"}
    Tags = {uf, arith}
    TriggerTerms = {"a", "b"}
    TriggerAtoms = {"ab", "pa"}
    AddedTerms = {"pb"}
    MaxInForce = 3
    MaxLevel = 1
INVARIANTS ClassesExact Explained TriggersTold SharedTold
PROPERTIES PopRestores
