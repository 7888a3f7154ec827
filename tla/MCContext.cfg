CONSTANTS
  o1 = o1
  o2 = o2
  v0 = v0
  v1 = v1
  Obj <- MCObj
  Val <- MCVal
  Default = v0
  Absent = Absent
  MaxLevel = 3
SPECIFICATION Spec
INVARIANTS TypeOK ChainsExact VersionsOrdered CopiesLive
PROPERTY RestoresEverything
SYMMETRY Symmetry
