SPECIFICATION HSpec
CONSTANTS
    Accounts <- MCAccounts
    Kind     <- MCKind
    Trust    <- MCTrust
    Txns        = {t1}
    Amounts     = {40}
    Requests    = {}
    Alone       = TRUE
    None        = None
    Actions     = {a1, a2}
    Payloads    <- MCPayloads
    Checkpoints = {c1}
    Rules       <- MCRules
    Drafts      <- MCDrafts
    Lots        = 3
    Cost        = 40
    OpeningCash = 60
    OpeningDebt = 80
PROPERTIES FloorKept WorthKept ProtectedStay
CHECK_DEADLOCK FALSE
