------------------------------ MODULE Forecast ------------------------------
(***************************************************************************)
(* The cash flow forecast (app/cashflow.py): the events of the coming days *)
(* and the cash at the end of each.                                        *)
(***************************************************************************)
EXTENDS Books

Chips == {"incomes", "expenses", "receivables", "payables"}   \* VALID_INCLUDE

\* An event is a date, a signed amount and the thing it comes from.
Event(d, x, who) == [date |-> d, amount |-> x, who |-> who]

IncomeEvents(start, end) ==
    UNION {{Event(d, home.income[i].amount, i) : d \in Occurrences(start, end, home.income[i].day)}
           : i \in Incomes}

\* The account an expense is charged to is not looked at.
ExpenseEvents(start, end) ==
    UNION {{Event(d, -home.expense[e].amount, e) : d \in Occurrences(start, end, home.expense[e].day)}
           : e \in Expenses}

DebtEvents(dir, start, end) ==
    {Event(home.debt[d].due,
           IF dir = "receivable" THEN home.debt[d].amount ELSE -home.debt[d].amount, d)
     : d \in DueBetween(dir, start, end)}

\* (mutant) A stale date is the next month's.
SkippedLoanDates(l, start, end) ==
    IF loan[l].left = 0 \/ loan[l].next = None THEN {}
    ELSE LET from == IF loan[l].next > start THEN loan[l].next ELSE Clamped(MonthOf[start] + 1, home.loan[l].day)
         IN  {Clamped(m, DayOf(from)) : m \in MonthOf[from] .. MonthOf[end]} \cap (start .. end)

\* A stale date is pulled to today so that no instalment is lost; the day of
\* the month is kept from there on.
LoanDates(l, start, end) ==
    IF loan[l].left = 0 \/ loan[l].next = None THEN {}
    ELSE LET from == Greater(loan[l].next, start)
             last == IF from > end THEN -1
                     ELSE IF loan[l].left = None THEN MonthOf[end] - MonthOf[from]
                     ELSE Lesser(loan[l].left - 1, MonthOf[end] - MonthOf[from])
         IN  {Clamped(MonthOf[from] + k, DayOf(from)) : k \in 0 .. last} \cap (start .. end)

LoanEvents(start, end) ==
    UNION {{Event(d, -home.loan[l].monthly, l) : d \in LoanDates(l, start, end)} : l \in Loans}

Events(include, start, end) ==
    (IF "incomes" \in include THEN IncomeEvents(start, end) ELSE {})
    \cup (IF "expenses" \in include THEN ExpenseEvents(start, end) \cup LoanEvents(start, end) ELSE {})
    \cup (IF "receivables" \in include THEN DebtEvents("receivable", start, end) ELSE {})
    \cup (IF "payables" \in include THEN DebtEvents("payable", start, end) ELSE {})

\* generate_forecast over the cash account, from today.
ForecastEnd == day + K.horizon - 1
Closings(include) ==
    LET events == Events(include, day, ForecastEnd)
    IN  [d \in day .. ForecastEnd |->
            Cash + Total({e \in events : e.date <= d}, LAMBDA e : e.amount)]

\* Unused limit of the cards that have one; told, never added to the cash.
LeftOnCards ==
    Total({c \in Cards : home.card[c].limit > 0},
          LAMBDA c : Greater(0, home.card[c].limit - held[c]))

ForecastSummary ==
    LET closing == Closings(Chips)
    IN  [closing |-> closing,
         lowest  |-> Min({Cash} \cup Range(closing)),
         crunch  |-> {d \in DOMAIN closing : closing[d] < 0},
         bridge  |-> LeftOnCards]

\* (mutant) The end of the horizon counts, the low point on the way does not.
SafeByTheEnd(forecast, buffer) ==
    Greater(0, forecast.closing[ForecastEnd] - CardDebt - buffer)

\* What can be spent today, or paid towards a debt, without going under.
SafeToSpend(forecast, buffer) == Greater(0, forecast.lowest - CardDebt - buffer)
SafeDebtPayment(forecast, buffer) == Greater(0, forecast.lowest - buffer)

\* build_safe_debt_payment_scenarios: the menu the coach may quote from.
PaymentMenu(forecast) ==
    LET debt == CardDebt + LoanDebt
    IN  IF debt <= 0 THEN {}
        ELSE {[buffer |-> b, payable |-> Lesser(SafeDebtPayment(forecast, b), debt)] : b \in K.buffers}
=============================================================================
