SPECIFICATION GSpec
CONSTANTS
    Accounts <- MCAccounts
    Kind     <- MCKind
    Trust    = {}
    Txns     = {t1}
    Amounts  = {19999}
    Requests = {r1, r2}
    Alone    = TRUE
    None     = None
    Goals    = {g1, g2}
    GoalRules = {1}
    Shares   <- MCShares
    Targets  = {19999}
    RuleDrafts <- MCRuleDrafts
    Clerks   = {c1}
    Dialects = {"sqlite", "postgresql"}
INVARIANT BooksHold
PROPERTIES ManualFits AchievedIsReached
SYMMETRY MCSymmetry
CHECK_DEADLOCK FALSE
