SPECIFICATION Spec
CONSTANTS
    Sources <- TemperatureAndAir
    Values = {1, 3}
    None = None
    HistoryLength = 2
    MaxReadings = 4
    MaxFailures = 1
    MaxCrashes = 2
INVARIANTS
    ReadingsInv
    FilesInOrder
    LossesAccounted
    MaximumIsGreatest
    AverageIsBetween
    HistoryIsLatest
CHECK_DEADLOCK FALSE
