------------------------------- MODULE WhatIf -------------------------------
(***************************************************************************)
(* The simulation (app/simulation_engine.py): a copy of the books on which *)
(* an action is tried and time is run forward, next to a copy on which it  *)
(* is not.  A world is a record; the books are never written.              *)
(***************************************************************************)
EXTENDS Cockpit

\* _load_world.  An investment counts with its balance, position or not.
Holding(f) == IF fund[f].lots > 0 THEN FundValue(f) ELSE home.fund[f].waiting
World ==
    [at |-> day, purse |-> Cash, cards |-> [c \in Cards |-> held[c]],
     loans |-> [l \in Loans |-> loan[l].balance],
     funds |-> [f \in Funds |-> [lots |-> fund[f].lots, price |-> fund[f].price, worth |-> Holding(f)]],
     paid |-> paid]

WorldCards(w) == Total(Cards, LAMBDA c : w.cards[c])
WorldLoans(w) == Total(Loans, LAMBDA l : w.loans[l])
WorldFunds(w) == Total({f \in Funds : ~home.fund[f].emanet}, LAMBDA f : w.funds[f].worth)
Sums(w) ==
    [cash |-> w.purse, cards |-> WorldCards(w), loans |-> WorldLoans(w), funds |-> WorldFunds(w),
     net |-> w.purse + WorldFunds(w) - WorldCards(w) - WorldLoans(w)]

\* --- _apply_action: the world after the action, or None when it is refused ---

Withheld(profit) == IF profit > 0 THEN (profit * K.withholding) \div 1000 ELSE 0
SellIn(w, f, n, price) ==
    IF home.fund[f].emanet \/ n <= 0 \/ n > w.funds[f].lots \/ price <= 0 THEN None
    ELSE [w EXCEPT !.funds[f] = [lots |-> @.lots - n, price |-> price, worth |-> (@.lots - n) * price],
                   !.purse = @ + n * price - Withheld(n * (price - home.fund[f].cost))]
\* Only a transaction with auto_update_balance moves a balance.
TransactIn(w, a, type, x, auto) ==
    IF ~auto \/ type = "transfer" THEN w
    ELSE IF a = Purse THEN [w EXCEPT !.purse = IF type = "income" THEN @ + x ELSE @ - x]
    ELSE [w EXCEPT !.cards[a] = IF type = "income" THEN @ - x ELSE @ + x]
SetIn(w, a, x) ==
    IF a = Purse THEN [w EXCEPT !.purse = x] ELSE [w EXCEPT !.cards[a] = x]
Sign(d) == IF home.debt[d].dir = "receivable" THEN 1 ELSE -1
SettleIn(w, d) ==
    IF d \in w.paid THEN None
    ELSE [w EXCEPT !.purse = @ + Sign(d) * home.debt[d].amount, !.paid = @ \cup {d}]
PriceIn(w, f, price) ==
    [w EXCEPT !.funds[f] = [@ EXCEPT !.price = price, !.worth = w.funds[f].lots * price]]

\* --- _project_forward: n days, both ends of the window as in (start, end] ---

\* (mutant) An income on the day two windows meet is in both.
IncomesInClosed(start, end) ==
    Total(Incomes, LAMBDA i : home.income[i].amount
                              * Cardinality(Occurrences(start, end, home.income[i].day)))
IncomesIn(start, end) ==
    Total(Incomes, LAMBDA i : home.income[i].amount
                              * Cardinality(Occurrences(start + 1, end, home.income[i].day)))

\* A loan's instalment first covers the month's interest.
AfterInstalments(balance, l, n) ==
    LET left[k \in 0 .. n] ==
            IF k = 0 THEN balance
            ELSE LET owed == left[k - 1]
                 IN  Greater(0, owed + (owed * home.loan[l].rate) \div 100 - home.loan[l].monthly)
    IN  left[n]
LoanDatesIn(l, start, end) ==
    IF loan[l].next = None THEN {} ELSE Cursor(loan[l].next, start, end)

\* A card with a debt pays its minimum on every payment day, after the interest.
CardInterest(c, debt) == debt + (debt * home.card[c].rate) \div 100
CardMinimum(debt) == Lesser(Greater((debt * 25) \div 100, K.minimumFloor), debt)
AfterMinimums(debt, c, n) ==
    LET run[k \in 0 .. n] ==
            IF k = 0 THEN [debt |-> debt, paid |-> 0]
            ELSE LET so == run[k - 1]
                     owed == CardInterest(c, so.debt)
                 IN  IF so.debt <= 0 THEN so
                     ELSE [debt |-> owed - CardMinimum(owed), paid |-> so.paid + CardMinimum(owed)]
    IN  run[n]
CardDatesIn(c, start, end) == Cursor(Clamped(MonthOf[start], home.card[c].payment), start, end)

DebtsIn(w, end) ==
    {d \in Debts \ w.paid : home.debt[d].due # None /\ home.debt[d].due \in w.at + 1 .. end}

Advance(w, n) ==
    LET end == w.at + n
        instalments(l) == Cardinality(LoanDatesIn(l, w.at, end))
        card(c) == AfterMinimums(w.cards[c], c, Cardinality(CardDatesIn(c, w.at, end)))
    IN  [w EXCEPT
            !.at    = end,
            !.purse = @ + IncomesIn(w.at, end)
                        - Total(Loans, LAMBDA l : home.loan[l].monthly * instalments(l))
                        - Total(Cards, LAMBDA c : card(c).paid)
                        + Total(DebtsIn(w, end), LAMBDA d : Sign(d) * home.debt[d].amount),
            !.loans = [l \in Loans |-> AfterInstalments(@[l], l, instalments(l))],
            !.cards = [c \in Cards |-> card(c).debt],
            !.paid  = @ \cup DebtsIn(w, end)]

\* simulate_action: the acted world goes from horizon to horizon, the baseline
\* is loaded afresh and run to each horizon in one go.
Chained(w, k) ==
    LET run[n \in 0 .. k] ==
            IF n = 0 THEN w
            ELSE Advance(run[n - 1], K.horizons[n] - (IF n = 1 THEN 0 ELSE K.horizons[n - 1]))
    IN  run[k]
DeltaAt(w, k) ==
    LET base == Sums(Advance(World, IF k = 0 THEN 0 ELSE K.horizons[k]))
        acted == Sums(Chained(w, k))
    IN  [f \in DOMAIN base |-> acted[f] - base[f]]
Simulated(w) == [k \in 0 .. Len(K.horizons) |-> DeltaAt(w, k)]
=============================================================================
