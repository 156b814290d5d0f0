SPECIFICATION Spec
CONSTANTS
    Byte = 4
    WordLen = 2
    Half = 4
    ZeroBytes = 1
    TargetLen = 2
    Pushes = {p1}
    Configs <- MCConfigs
    MinWait = 1
    SubmitRate <- MCSubmitRate
    HashesFor <- MCHashesFor
    LastTime = 4
    LastHeight = 3
    TemplateDiff <- MCTemplateDiff
    MaxSubmits = 1
INVARIANTS
    FirstUpdated
CHECK_DEADLOCK FALSE
