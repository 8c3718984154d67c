SPECIFICATION Spec
CONSTANTS
    Removable = {"clerk", "kanban", "notifications", "themes"}
    MaxNamed = 2
    MaxRuns = 2
    MaxDeaths = 1
INVARIANTS RunsAddUp OwnVariablesSurvive DryRunForetells
CHECK_DEADLOCK FALSE
