CONSTANTS
  None = None
  Incomes = {"salary"}
  Expenses = {"rent", "phone"}
  Cards = {"card"}
  Loans = {"car"}
  Debts = {"ayse", "can"}
  Funds = {"tly"}
  Categories = {"food", "home", "pay"}
  Purchases <- MCPurchases
  Lengths <- MCLengths
  K <- MCK
  Homes <- MCHomes
SPECIFICATION Spec
INVARIANTS ForecastComesTrue SpendingStaysAfloat UrgentFirst NothingFallsThrough
PROPERTIES OneSetOfBooks PreviewKeepsFaith CelebratedOnce
CHECK_DEADLOCK FALSE
