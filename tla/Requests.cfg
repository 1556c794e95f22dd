\* A receivable and a debt, three requests served one after another; or one use of each path of
\* the LLM, overlapping over midnight on either database, while writes fail and workers die.
SPECIFICATION RequestsSpec
CONSTANTS
    Debts = {d1, d2}
    Receivable = {d1}
    Accounts <- MCAccounts
    Amounts = {1, 2}
    Figures <- MCFigures
    Requests = {r1, r2, r3}
    Alone = TRUE
    ForeignKeys = TRUE
    None = None
    Chats = {c1}
    Premortems = {p1}
    Reflections = {s1}
    Workers = {w1, w2}
    Slots = 1
    Ceiling = 1
    MaxCalls = 2
    LastDay = 2
    Dialects = {"sqlite", "postgresql"}
    Faults = TRUE
    Crashes = TRUE
    Null = Null
SYMMETRY Symmetry
CHECK_DEADLOCK FALSE
INVARIANTS SettlementsAddUp QTypeOK ReservationsWithinCeiling CallsAreCounted RefusalsAreFair
