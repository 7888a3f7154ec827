SPECIFICATION Spec
CONSTANTS
    Keys = {k1, k2}
    Data = {d1, d2}
    MaxLevel = 3
SYMMETRY Symmetry
PROPERTIES RestoresMap
