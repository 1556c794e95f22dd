---------------------------- MODULE MCHousehold ----------------------------
(* Small households for Household: months of four and three days.          *)
EXTENDS Household, TLC

MCLengths == <<4, 3, 4, 3, 4>>
MCK == [horizon |-> 5, horizons |-> <<1, 4>>, buffers |-> {0, 2, 5}, soon |-> 1, ahead |-> 5,
        window |-> 3, lookback |-> 10, monthlyGap |-> 3 .. 4, yearlyGap |-> {9}, patternMin |-> 1,
        anomaly |-> 150, recent |-> 3, shiftMin |-> 1, shiftsShown |-> 1, paceFrom |-> 2,
        overspendFrom |-> 2, tight |-> 2, idle |-> 3, lowCash |-> 4, aging |-> <<4, 2>>,
        priceStale |-> 1, priceAlarm |-> 3, week |-> 2, baseTolerance |-> 2, warningsShown |-> 2,
        minimumFloor |-> 2, cardRate |-> 5, months |-> 12, trap |-> 4,
        withholding |-> 175]

Recurs(n, x, from, cat) == [day |-> n, amount |-> x, from |-> from, cat |-> cat]
Owes(dir, x, due) == [dir |-> dir, amount |-> x, due |-> due]
Loan(balance, next, left) == ("car" :> [balance |-> balance, next |-> next, left |-> left])
Old(d, cat, x, name) == Entry(d, "expense", cat, x, name)

\* A salary, a rent and two instalments of a loan taken on a 31st.
Plain ==
    [dutiful |-> TRUE, until |-> 8, looks |-> 1, buys |-> 1, sales |-> 1, day |-> 5, booked |-> 1,
     income |-> ("salary" :> Recurs(2, 9, Purse, "pay")),
     expense |-> ("rent" :> Recurs(3, 4, Purse, "home") @@ "phone" :> Recurs(4, 1, "card", "home")),
     card |-> ("card" :> [limit |-> 10, statement |-> 2, payment |-> 3, rate |-> 0, ratio |-> 25]),
     loan |-> ("car" :> [monthly |-> 3, rate |-> 0, day |-> 4]),
     debt |-> ("ayse" :> Owes("receivable", 2, 8) @@ "can" :> Owes("payable", 2, 9)),
     envelope |-> ("food" :> 5 @@ "home" :> None @@ "pay" :> None), system |-> {"pay"},
     fund |-> ("tly" :> [cost |-> 2, emanet |-> FALSE, coded |-> TRUE, waiting |-> 0]),
     held |-> (Purse :> 8 @@ "card" :> 0), statement |-> ("card" :> None),
     loans |-> Loan(6, 7, 2), funds |-> ("tly" :> [lots |-> 0, price |-> 3, stamp |-> None]),
     log |-> <<Old(2, "food", 2, None), Old(3, "home", 4, "rent")>>, snaps |-> <<>>]

\* A full card, a statement, a fund, dearer rents and an old snapshot.
InDebt ==
    [Plain EXCEPT !.until = 7, !.looks = 1, !.buys = 0, !.sales = 0,
        !.expense = "rent" :> Recurs(2, 5, None, "home") @@ "phone" :> Recurs(3, 2, "card", "home"),
        !.card = "card" :> [limit |-> 20, statement |-> 1, payment |-> 3, rate |-> 10, ratio |-> 25],
        !.loan = "car" :> [monthly |-> 2, rate |-> 5, day |-> 3],
        !.held = Purse :> 22 @@ "card" :> 10, !.statement = "card" :> 8,
        !.fund = "tly" :> [cost |-> 1, emanet |-> FALSE, coded |-> TRUE, waiting |-> 0],
        !.loans = Loan(20, 7, None), !.funds = "tly" :> [lots |-> 2, price |-> 3, stamp |-> 2],
        !.debt = "ayse" :> Owes("receivable", 3, None) @@ "can" :> Owes("payable", 2, 7),
        !.log = <<Old(1, "home", 4, "rent"), Old(4, "home", 4, "rent"), Old(5, "home", 5, "rent")>>,
        !.snaps = 2 :> [seen |-> -30, full |-> -30, cash |-> 10, cards |-> 20, loans |-> 25,
                        invested |-> 6, receivables |-> 0]]

\* Little cash, a card whose minimum is less than its interest, a debt and a receivable that are
\* late, nothing done on time.
Late_ ==
    [Plain EXCEPT
        !.dutiful = FALSE, !.until = 6, !.looks = 1, !.buys = 0, !.sales = 0, !.held = Purse :> 1 @@ "card" :> 19, !.income = "salary" :> Recurs(4, 5, Purse, "pay"),
        !.card = "card" :> [limit |-> 20, statement |-> 2, payment |-> 1, rate |-> 20, ratio |-> 10],
        !.debt = "ayse" :> Owes("receivable", 3, 3) @@ "can" :> Owes("payable", 4, 4),
        !.fund = "tly" :> [cost |-> 1, emanet |-> FALSE, coded |-> FALSE, waiting |-> 7]]

\* In trust, a stale instalment date and a card cut on the last day.
Careful ==
    [Plain EXCEPT !.looks = 1, !.buys = 0,
        !.fund = "tly" :> [cost |-> 1, emanet |-> TRUE, coded |-> TRUE, waiting |-> 0],
        !.funds = "tly" :> [lots |-> 2, price |-> 2, stamp |-> 5],
        !.loans = Loan(4, 6, 3), !.held = Purse :> 30 @@ "card" :> 4,
        !.loan = "car" :> [monthly |-> 2, rate |-> 0, day |-> 2]]

\* The same without the trust: the fund is sold.
Seller == [Careful EXCEPT !.fund["tly"].emanet = FALSE, !.sales = 2, !.until = 6]

MCPurchases == {<<5, "food">>, <<15, "food">>}
MCHomes == {Plain, InDebt, Late_, Careful, Seller}
=============================================================================
