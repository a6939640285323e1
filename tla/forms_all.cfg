SPECIFICATION Spec
CONSTANTS
    Unset = Unset
    Closed = Closed
    UtcOffset = 1
    FormKinds <- AllFormKinds
    AllKinds <- AllFormKinds
    Samples <- MostSamples
    MaxForms = 1
    MaxEdits = 1
    MaxChanges = 1
PROPERTY UntouchedFieldsAreKept
CHECK_DEADLOCK FALSE
