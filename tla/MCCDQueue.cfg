SPECIFICATION Spec
CONSTANTS
    Elements = {a, b}
    MaxLevel = 3
    MaxSize = 4
INVARIANT VersionsNested
PROPERTIES RestoresQueue
