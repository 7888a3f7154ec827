SPECIFICATION Spec
CONSTANTS
    Atoms = {"a", "b", "p"}
    Formula <- MCFormula
    Inputs <- MCInputs
    Definitions <- MCDefinitions
    Lemmas <- MCLemmas
    Needs <- MCNeeds
    MaxLevel = 2
    MaxUser = 1
INVARIANTS CacheExact StopsSatisfied SolutionJustified WalkInOrder
PROPERTIES CallsEnd
