SPECIFICATION Spec
CHECK_DEADLOCK FALSE
CONSTANTS
    w1 = w1
    w2 = w2
    None = None
    Keys <- MCKeys
    MaxLsn = 3
    Logs <- MCLogs
    NoBase <- MCNoBase
    Workers = {w1, w2}
    Pooled = {w1}
    Budgets <- MCBudgets
    QuietMerge = TRUE
    QuietBranch = TRUE
    SoundStamps = TRUE
    SoundNames = TRUE
INVARIANTS
    
    ReadsComplete
    
    ChildComplete
