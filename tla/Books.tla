------------------------------- MODULE Books -------------------------------
(***************************************************************************)
(* What the rules engine, the forecast and the simulation read: the        *)
(* accounts, recurring items, personal debts, transactions and snapshots   *)
(* of one household (app/models.py) and the sums they all start from.      *)
(*                                                                         *)
(* held is the balance the application holds of an account, real the one   *)
(* the bank holds: a recurring item that is approved in the application    *)
(* only becomes a transaction, and the balance follows when the user types *)
(* it in.                                                                  *)
(***************************************************************************)
EXTENDS Calendar, FiniteSetsExt, Functions

CONSTANTS Incomes, Expenses, Cards, Loans, Debts, Funds, Categories,
          None,      \* an unset column
          K          \* the engine's thresholds and windows, scaled down

VARIABLES home,      \* what the user has entered and does not change: recurring
                     \* items, card terms, loan terms, personal debts, envelopes
          day,       \* today
          held,      \* [Accounts -> balance] in the application
          real,      \* [Accounts -> balance] at the bank
          statement, \* [Cards -> what is left of the last statement, or None]
          loan,      \* [Loans -> [balance, next, left]]
          booked,    \* [Incomes \cup Expenses -> last_triggered_year_month]
          paid,      \* the personal debts marked paid
          fund,      \* [Funds -> [lots, price, stamp]]
          log,       \* the transactions
          snaps      \* the net worth snapshots, at most one a day

books == <<home, day, held, real, statement, loan, booked, paid, fund, log, snaps>>

Purse == "purse"     \* the cash account
Accounts == {Purse} \cup Cards
Recurring == Incomes \cup Expenses

Month == MonthOf[day]
Within(d, first, last) == d # None /\ d \in first .. last
Total(S, amount(_)) == SumFunctionOnSet([x \in S |-> amount(x)], S)
Percent(x, y) == (100 * x) \div y
Abs(x) == IF x < 0 THEN -x ELSE x

Cash == held[Purse]
CardDebt == Total(Cards, LAMBDA c : held[c])
CardLimit == Total(Cards, LAMBDA c : home.card[c].limit)
LoanDebt == Total(Loans, LAMBDA l : loan[l].balance)
FundValue(f) == fund[f].lots * fund[f].price
Invested == Total({f \in Funds : ~home.fund[f].emanet}, FundValue)
InTrust == Total({f \in Funds : home.fund[f].emanet}, FundValue)

Unpaid(dir) == {d \in Debts \ paid : home.debt[d].dir = dir}
Owed(D) == Total(D, LAMBDA d : home.debt[d].amount)
Receivables == Owed(Unpaid("receivable"))
Payables == Owed(Unpaid("payable"))
DueBetween(dir, first, last) ==
    {d \in Unpaid(dir) : Within(home.debt[d].due, first, last)}

NetSeen == Cash + Invested - CardDebt - LoanDebt
NetFull == NetSeen + Receivables - Payables

\* hizli_bakiye_ozeti: the second copy of the sums, for the approval's difference.
QuickSummary ==
    LET kind(a) == IF a = Purse THEN 1 ELSE -1
    IN  [cash |-> Cash,
         net  |-> Total(Accounts, LAMBDA a : kind(a) * held[a]) - LoanDebt
                  + Total(Funds, LAMBDA f : IF home.fund[f].emanet THEN 0 ELSE FundValue(f))]

\* What a snapshot keeps of a day (NetWorthSnapshot).
Snapshot ==
    [seen |-> NetSeen, full |-> NetFull, cash |-> Cash, cards |-> CardDebt,
     loans |-> LoanDebt, invested |-> Invested, receivables |-> Receivables]
SnapDays == DOMAIN snaps
FirstSnap == Min(SnapDays)
LastSnap == Max(SnapDays)
=============================================================================
