CONSTANTS
    first = first
    second = second
    NoMission = NoMission
    Mission <- MCMission
    Steps = 1
    MaxRetries = 1
    MaxCommands = 4
    MaxAdrift = 1
SYMMETRY MissionSymmetry
SPECIFICATION Spec
INVARIANTS TypeOK OneAwaitedRun DoneStaysDone RestartResumes
PROPERTIES CancelIsFinal
CHECK_DEADLOCK FALSE
