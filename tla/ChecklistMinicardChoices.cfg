SPECIFICATION Spec
CONSTANTS
    Checklists = {c1, c2}
    MaxRuns = 3
    MaxChoices = 3
PROPERTIES LaterChoicesSurvive
CHECK_DEADLOCK FALSE
