SPECIFICATION Spec
CONSTANTS
    Variables = {x}
    c = c
    Operators = {f}
    Instances <- ChainsAndDags
    MaxRC = 4
    MaxZombies = 1
    MaxNodes = 3
    MaxHandles = 2
INVARIANTS NoDangling RefCountExact ZombiesAccounted
PROPERTIES DestroyEnds
CHECK_DEADLOCK FALSE
