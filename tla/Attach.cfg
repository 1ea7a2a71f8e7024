SPECIFICATION FairSpec
CHECK_DEADLOCK FALSE
CONSTANTS
    t1 = t1
    t2 = t2
    c1 = c1
    c2 = c2
    None = None
    Tenants = {t1, t2}
    Callers = {c1, c2}
    Ceiling = 1
    Budgets <- MCBudgets
    PromptHold = TRUE
    PromptNote = TRUE
    PromptInsert = TRUE
    QuietDetach = TRUE

    
    
    
    
PROPERTIES
    DyingLeaves
    BackUnderCeiling
