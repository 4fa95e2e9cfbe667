SPECIFICATION SettingsSpec
CONSTANTS
    Texts <- MCTexts
    MaxStored = 20
    Keys <- MCKeys
    SqlSpaces = {"space"}
    DefaultAttempts = 2
    MaxI32 = 2
    MaxI64 = 3
    MaxU32 = 3
    MaxU64 = 4
    Durations = {4, 5, 7, 9}
    MinExponent = 12
    MaxExponent = 10
    Limit = 5
    MaxAttempt = 16
    LargestI32 = 300
    LeaseDurations = {0, 1, 600, 601}
    Sizes = {0, 2, 300, 301}
    TaskNames = {"task", "other"}
    BadName = "bad"
    Handlers = {"h1", "h2"}
    Second = 16
    HalfLeases = {8, 13, 16, 24, 32}
    Latencies = {0, 1, 2, 3, 4}
CHECK_DEADLOCK FALSE
INVARIANTS NamesAreInjective LayersAgree DelaySaturates BuiltWorkersRun LeaseKept ObservedEverySecond
