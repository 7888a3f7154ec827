SPECIFICATION Spec
CONSTANT
    Instances <- SingleLevel
PROPERTY RejectionExplained
