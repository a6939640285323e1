SPECIFICATION Spec
CONSTANTS
    Unset = Unset
    Closed = Closed
    UtcOffset = 1
    FormKinds <- AllFormKinds
    AllKinds <- MostKinds
    Samples <- MostSamples
    MaxForms = 1
    MaxEdits = 2
    MaxChanges = 1
INVARIANTS FormTypeOK PristineFormShowsConfig
PROPERTIES UntouchedFieldsAreKept TouchedFieldsAreSet
CHECK_DEADLOCK FALSE
