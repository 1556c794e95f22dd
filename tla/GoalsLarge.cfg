\* One goal of a size at which a hundredth of a per cent is worth several units.
SPECIFICATION GSpec
CONSTANTS
    Accounts <- MCAccounts
    Kind     <- MCKind
    Trust    = {}
    Txns     = {t1}
    Amounts  = {29999}
    Requests = {r1}
    Alone    = TRUE
    None     = None
    Goals    = {g1}
    GoalRules = {}
    Shares   = {29999}
    Targets  = {30000}
    RuleDrafts = {}
    Clerks   = {c1}
    Dialects = {"sqlite"}
PROPERTY AchievedIsReached
CHECK_DEADLOCK FALSE
