SPECIFICATION Spec
CONSTANT
    Instances <- SingleLevel
INVARIANT FullModelChecked
