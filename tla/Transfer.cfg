SPECIFICATION Spec
CONSTANTS
    Contents <- SomeContents
    Unknown <- NewFields
    Cuts <- AllCuts
INVARIANTS
    RoundTrip
    UnknownFieldsIgnored
    CutIsNoticed
    BufferHolds
CHECK_DEADLOCK FALSE
