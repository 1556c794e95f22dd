\* Three debts of seven kinds; the strategies with and without extra money, a purchase, the trap.
SPECIFICATION PSpec
CONSTANTS
    Debts = {1, 2, 3}
    Accounts <- MCAccounts
    Extras = {0, 45}
    Amounts = {40, 90, 150, 230}
    Questions = {"compare", "opportunity", "trap"}
    Cent = 2
    Floor = 50
    CardRate = 425
    MaxMonths = 12
    None = None
INVARIANT AdvicePays
PROPERTIES MoneyAddsUp RolloverIsWhole
CHECK_DEADLOCK FALSE
