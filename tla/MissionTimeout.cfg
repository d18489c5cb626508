SPECIFICATION Spec
CONSTANTS
    first = first
    second = second
    NoMission = NoMission
    Mission <- MCMission
    Steps = 1
    MaxRetries = 0
    MaxCommands = 3
    MaxAdrift = 1
SYMMETRY MissionSymmetry
INVARIANTS NoRetryBesideDrift
CHECK_DEADLOCK FALSE
