------------------------------ MODULE Journal ------------------------------
(***************************************************************************)
(* What the rules engine reads out of the transactions: monthly figures,   *)
(* pace, envelopes, spending patterns, subscriptions.  Percentages are     *)
(* whole numbers; a figure that would divide by zero is None.              *)
(***************************************************************************)
EXTENDS Forecast

Entry(d, type, cat, amount, name) ==
    [date |-> d, type |-> type, cat |-> cat, amount |-> amount, name |-> name]

Entries(type, first, last) ==
    {n \in DOMAIN log : log[n].type = type /\ log[n].date \in first .. last}
Worth(N) == Total(N, LAMBDA n : log[n].amount)
Spent(cat, first, last) ==
    Worth({n \in Entries("expense", first, last) : log[n].cat = cat})

\* _month_aggregates: transfers count for nothing.
Aggregates(first, last) ==
    LET income  == Worth(Entries("income", first, last))
        expense == Worth(Entries("expense", first, last))
    IN  [income  |-> income,
         expense |-> expense,
         net     |-> income - expense,
         count   |-> Cardinality(Entries("income", first, last) \cup Entries("expense", first, last)),
         saved   |-> IF income > 0 THEN Percent(income - expense, income) ELSE None,
         of      |-> [c \in Categories |-> Spent(c, first, last)]]

OfMonth(m) == Aggregates(FirstOf[m], LastOf[m])
SoFar == Aggregates(FirstOf[Month], day)
Before == OfMonth(Month - 1)

\* kategori_kaymalari: what moved between two months; small moves are noise.
Shift(c, cur, prev) ==
    [cat   |-> c,
     delta |-> cur.of[c] - prev.of[c],
     kind  |-> IF prev.of[c] = 0 THEN "new" ELSE IF cur.of[c] = 0 THEN "gone"
               ELSE IF cur.of[c] > prev.of[c] THEN "up" ELSE "down"]
Shifts(cur, prev) ==
    {s \in {Shift(c, cur, prev) : c \in Categories} : Abs(s.delta) >= K.shiftMin}
ShownShifts(cur, prev) ==
    {s \in Shifts(cur, prev) :
        Cardinality({t \in Shifts(cur, prev) : Abs(t.delta) > Abs(s.delta)}) < K.shiftsShown}

\* generate_monthly_summary and ay_anlatisi.
MonthlySummary(m) ==
    LET cur == OfMonth(m)  prev == OfMonth(m - 1)
    IN  [current |-> cur, previous |-> prev, netDelta |-> cur.net - prev.net,
         shifts |-> ShownShifts(cur, prev),
         partial |-> day \in FirstOf[m] .. LastOf[m],
         story |-> IF cur.expense = 0 /\ prev.expense = 0 THEN "silent"
                   ELSE IF prev.expense = 0 THEN "first"
                   ELSE IF cur.expense = 0 THEN "none"
                   ELSE IF cur.expense > prev.expense THEN "up"
                   ELSE IF cur.expense < prev.expense THEN "down" ELSE "same"]

\* generate_monthly_series: the n months up to m, oldest first.
MonthlySeries(m, n) ==
    [k \in 1 .. n |-> LET a == OfMonth(m - n + k)
                      IN  [month |-> m - n + k, income |-> a.income, expense |-> a.expense,
                           net |-> a.net, saved |-> a.saved]]

Projected(spent) == (spent * Lengths[Month]) \div DayOf(day)

\* ay_temposu: no verdict in the first days and none without a reference.
Pace ==
    LET projection == Projected(SoFar.expense)
    IN  [spent |-> SoFar.expense, projection |-> projection,
         verdict |-> IF DayOf(day) < K.paceFrom THEN "early"
                     ELSE IF Before.expense <= 0 THEN "unknown"
                     ELSE IF 100 * projection > 105 * Before.expense THEN "above" ELSE "on target"]

\* _category_overspend_alerts: the envelope is the reference, else last month.
Reference(c) == IF home.envelope[c] # None THEN home.envelope[c] ELSE Before.of[c]
OverspentCategories ==
    IF DayOf(day) < K.overspendFrom THEN {}
    ELSE {c \in Categories \ home.system :
            /\ SoFar.of[c] > 0 /\ Reference(c) > 0
            /\ 100 * Projected(SoFar.of[c]) > 115 * Reference(c)}

\* calculate_envelopes, and the cash no envelope has a claim to.
Envelopes == {c \in Categories : home.envelope[c] # None}
Left(c) == home.envelope[c] - SoFar.of[c]
Burst == {c \in Envelopes : Left(c) < 0}
Unassigned == Cash - Total(Envelopes, LAMBDA c : Greater(0, Left(c)))

\* _calculate_category_patterns: two windows of equal length, side by side.
CurrentWindow == <<day - K.window + 1, day>>
\* (mutant) The two windows share a day.
OverlappingWindow == <<day - 2 * K.window + 1, day - K.window + 1>>
PreviousWindow == <<day - 2 * K.window + 1, day - K.window>>
Pattern(c) ==
    LET cur == Spent(c, CurrentWindow[1], CurrentWindow[2])
        prev == Spent(c, PreviousWindow[1], PreviousWindow[2])
    IN  [cur |-> cur, prev |-> prev,
         change |-> IF prev > 0 THEN Percent(cur - prev, prev) ELSE None,
         odd |-> IF prev > 0 THEN 100 * cur > K.anomaly * prev ELSE cur > 0]
Patterns ==
    {c \in Categories \ home.system :
        Cardinality({n \in Entries("expense", CurrentWindow[1], CurrentWindow[2]) : log[n].cat = c})
            >= K.patternMin}

\* _collect_recent_transactions: by date, then by age in the table.
Recent ==
    {n \in DOMAIN log :
        Cardinality({k \in DOMAIN log : \/ log[k].date > log[n].date
                                        \/ log[k].date = log[n].date /\ k > n}) < K.recent}

\* _calculate_cash_runway: days the cash lasts without any income.
Runway ==
    LET spent == Worth(Entries("expense", day - K.window, day))
        loans == Total({l \in Loans : loan[l].left # None /\ loan[l].left > 0},
                       LAMBDA l : home.loan[l].monthly)
    IN  IF Cash <= 0 THEN 0
        ELSE IF spent + loans = 0 THEN None ELSE (Cash * K.window) \div (spent + loans)

\* detect_subscriptions: the same name, three times or more, at most two
\* different prices, a month or a year apart.
Named(name) ==
    {n \in DOMAIN log : /\ log[n].type = "expense" /\ log[n].name = name
                        /\ log[n].date >= day - K.lookback}
NamesSeen == {log[n].name : n \in DOMAIN log} \ {None}
Dates_(name) == {log[n].date : n \in Named(name)}
NextDate(name, d) == Min({x \in Dates_(name) : x > d})
Gaps(name) ==                           \* a bag: gap -> the dates it follows
    [g \in 1 .. K.lookback |-> {d \in Dates_(name) \ {Max(Dates_(name))} : NextDate(name, d) - d = g}]
GapCount(name) == Cardinality(Dates_(name)) - 1
MedianGap(name) ==
    CHOOSE g \in 1 .. K.lookback :
        /\ Gaps(name)[g] # {}
        /\ Total(1 .. g - 1, LAMBDA h : Cardinality(Gaps(name)[h])) <= GapCount(name) \div 2
        /\ Total(1 .. g, LAMBDA h : Cardinality(Gaps(name)[h])) > GapCount(name) \div 2
Prices(name) == {log[n].amount : n \in Named(name)}
Monthly(name) == MedianGap(name) \in K.monthlyGap
Yearly(name) == MedianGap(name) \in K.yearlyGap
Subscriptions ==
    {name \in NamesSeen :
        /\ Cardinality(Named(name)) >= 3 /\ GapCount(name) >= 1
        /\ Cardinality(Prices(name)) <= 2
        /\ Monthly(name) \/ Yearly(name)}
PriceAt(name, d) == log[Max({n \in Named(name) : log[n].date = d})].amount
OldPrice(name) == log[Min({n \in Named(name) : log[n].date = Min(Dates_(name))})].amount
NewPrice(name) == PriceAt(name, Max(Dates_(name)))
MonthlyCost(name) == IF Monthly(name) THEN NewPrice(name) ELSE NewPrice(name) \div 12
SubscriptionLoad == Total(Subscriptions, MonthlyCost)
DearerSubscriptions == {s \in Subscriptions : NewPrice(s) > OldPrice(s) /\ OldPrice(s) > 0}
=============================================================================
