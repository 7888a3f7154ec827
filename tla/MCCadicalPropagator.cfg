SPECIFICATION Spec
CONSTANT
    Instances <- SearchAndLevels
INVARIANTS
    AtomsRegistered
    TrailMirrored
    NotTooWeak
    SatAnswerChecked
    SearchReset
    TheoryInSync
    FixedJustified
    NotTooStrong
