------------------------------ MODULE Cockpit ------------------------------
(***************************************************************************)
(* The panel and the coach's context (generate_cockpit of                  *)
(* app/rules_engine.py and app/routers/cockpit.py): the budget, the        *)
(* calendar, the alerts and the one recommended step, as functions of the  *)
(* books.  Not here: the debt figures of app/debt_strategy.py (module      *)
(* Payoff), but for the two alerts on a card of which only the minimum is  *)
(* paid.                                                                   *)
(***************************************************************************)
EXTENDS Journal, SequencesExt, Lists

\* --- Budget ---------------------------------------------------------------

\* Income still to come this month and not booked yet.
ExpectedIncomes ==
    {i \in Incomes : booked[i] # Month /\ Clamped(Month, home.income[i].day) >= day}
ExpectedIncome == Total(ExpectedIncomes, LAMBDA i : home.income[i].amount)
ReceivablesThisMonth == Owed(DueBetween("receivable", day, EndOfMonth(day)))
InstalmentsThisMonth ==
    Total({l \in Loans : Within(loan[l].next, day, EndOfMonth(day))},
          LAMBDA l : home.loan[l].monthly)

\* apply_shadow_accounting, calculate_daily_limit and tomorrow's limit.
RealBudget == Cash + ExpectedIncome - CardDebt - InstalmentsThisMonth
DailyLimit == RealBudget \div RemainingDays(day)
LimitTomorrow ==
    IF RemainingDays(day) > 1 THEN RealBudget \div (RemainingDays(day) - 1) ELSE RealBudget
LeftToday == DailyLimit - Aggregates(day, day).expense

Status ==
    IF RealBudget < 0 THEN "survival"
    ELSE IF Cash > 0 /\ CardDebt > 2 * Cash THEN "pressed"
    ELSE IF DailyLimit < K.tight THEN "tight" ELSE "plain"

\* --- What is coming -------------------------------------------------------

\* kart_son_odeme: the next payment of a card is what is left of its statement,
\* or the whole debt when no statement was entered; none when that is nothing.
Due(c) == IF statement[c] = None THEN held[c] ELSE statement[c]
CardsDue == {c \in Cards : Due(c) > 0}
CardDate(c) == NextDue(day, home.card[c].payment)

Upcoming(what, who, d, amount) == [what |-> what, who |-> who, date |-> d, amount |-> amount]
UpcomingLoans ==
    {Upcoming("loan", l, loan[l].next, home.loan[l].monthly)
     : l \in {x \in Loans : Within(loan[x].next, day, day + K.ahead)}}
UpcomingCards ==
    {Upcoming("card", c, CardDate(c), Due(c))
     : c \in {x \in CardsDue : CardDate(x) <= day + K.ahead}}
UpcomingIncomes ==
    {Upcoming("income", i, Clamped(Month, home.income[i].day), home.income[i].amount)
     : i \in ExpectedIncomes}
UpcomingPayments == UpcomingLoans \cup UpcomingCards \cup UpcomingIncomes
UpcomingReceivables ==
    {Upcoming("receivable", d, home.debt[d].due, home.debt[d].amount)
     : d \in DueBetween("receivable", day, day + K.horizon)}

\* _collect_upcoming_reminders: the next few days; a card payment comes first,
\* and so does an expense its card has no room for.
Soon(d) == d - day \in 0 .. K.soon
Item(r) == IF r \in Incomes THEN home.income[r] ELSE home.expense[r]
Overdrawn(e) ==
    LET c == home.expense[e].from
    IN  c \in Cards /\ home.card[c].limit > 0 /\ held[c] + home.expense[e].amount > home.card[c].limit
Reminders ==
    {[Upcoming("recurring", r, NextDue(day, Item(r).day), Item(r).amount)
        EXCEPT !.what = IF r \in Expenses /\ Overdrawn(r) THEN "risk" ELSE @]
     : r \in {x \in Recurring : booked[x] # Month /\ Soon(NextDue(day, Item(x).day))}}
    \cup {Upcoming("debt", d, home.debt[d].due, home.debt[d].amount)
          : d \in {x \in Debts \ paid : home.debt[x].due # None /\ Soon(home.debt[x].due)}}
    \cup {Upcoming("risk", c, CardDate(c), Due(c)) : c \in {x \in CardsDue : Soon(CardDate(x))}}

\* (mutant) A day of grace that the reminders know nothing of.
OverdueAfterGrace(dir) ==
    {d \in Unpaid(dir) : home.debt[d].due # None /\ home.debt[d].due < day - 1}

\* _collect_overdue_debts: what reminders no longer show.
Overdue(dir) == {d \in Unpaid(dir) : home.debt[d].due # None /\ home.debt[d].due < day}
OldestOf(D) == CHOOSE d \in D : \A e \in D : home.debt[d].due <= home.debt[e].due

\* calculate_receivables_aging: every unpaid receivable is in one bucket.
Late(d) == IF home.debt[d].due = None THEN 0 ELSE day - home.debt[d].due
Bucket(d) ==
    IF home.debt[d].due = None THEN "undated"
    ELSE IF Late(d) >= K.aging[1] THEN "oldest" ELSE IF Late(d) >= K.aging[2] THEN "older"
    ELSE IF Late(d) >= 1 THEN "late" ELSE "not due"
Aging ==
    [bucket \in {"oldest", "older", "late", "not due", "undated"} |->
        Owed({d \in Unpaid("receivable") : Bucket(d) = bucket})]

\* calculate_nakit_takvimi: this month's signed list.  A recurring expense on a
\* card leaves no cash this month and one without an account is only shown.
MonthlyDates(R) == {r \in R : booked[r] # Month /\ Clamped(Month, Item(r).day) >= day}
FromPurse == {e \in Expenses : home.expense[e].from = Purse}
ToCard == {e \in Expenses : home.expense[e].from \in Cards /\ booked[e] # Month}
Undecided == {e \in Expenses : home.expense[e].from = None /\ booked[e] # Month}
CalendarItems ==
    {Event(Clamped(Month, Item(i).day), Item(i).amount, i) : i \in MonthlyDates(Incomes)}
    \cup {Event(Clamped(Month, Item(e).day), -Item(e).amount, e) : e \in MonthlyDates(FromPurse)}
    \cup DebtEvents("receivable", day, EndOfMonth(day))
    \cup DebtEvents("payable", day, EndOfMonth(day))
    \cup {Event(u.date, -u.amount, u.who)
          : u \in {x \in UpcomingLoans \cup UpcomingCards : x.date <= EndOfMonth(day)}}
CashAfter(d) == Cash + Total({k \in CalendarItems : k.date <= d}, LAMBDA k : k.amount)

\* The lowest point of a day is after all that leaves and before anything comes:
\* "cikis" sorts before "giris".
LowestOfMonth ==
    LET low(d) == CashAfter(d) - Total({k \in CalendarItems : k.date = d /\ k.amount > 0},
                                       LAMBDA k : k.amount)
    IN  Min({Cash} \cup {low(d) : d \in day .. EndOfMonth(day)})
IdleInFunds == Total({f \in Funds : ~home.fund[f].emanet /\ ~home.fund[f].coded /\ fund[f].lots = 0},
                     LAMBDA f : home.fund[f].waiting)
MonthCalendar ==
    [items |-> CalendarItems, end |-> CashAfter(EndOfMonth(day)), lowest |-> LowestOfMonth,
     gap |-> LowestOfMonth < 0, waiting |-> IdleInFunds,
     worst |-> CashAfter(EndOfMonth(day)) - Total(Undecided, LAMBDA e : Item(e).amount)]

\* --- Cards, loans, funds --------------------------------------------------

CardStrategy(c) ==
    LET cut == Clamped(Month, home.card[c].statement)
        pay == Clamped(Month, home.card[c].payment)
    IN  IF day > cut THEN "float"
        ELSE IF day <= pay /\ DayOf(day) > 1 THEN "payment" ELSE "cut"
Utilization == IF CardLimit > 0 THEN Percent(CardDebt, CardLimit) ELSE None
CardBand ==
    IF Utilization >= 90 THEN "critical" ELSE IF Utilization >= 70 THEN "high"
    ELSE IF Utilization >= 30 THEN "middle" ELSE "healthy"
CardTrend ==
    IF SnapDays = {} \/ CardLimit = 0 THEN None
    ELSE IF day - FirstSnap < K.week THEN None
    ELSE Utilization - Percent(snaps[FirstSnap].cards, CardLimit)

\* calculate_interest_leak and calculate_getiri_esigi: an unknown rate is no rate.
Lender(x) == IF x \in Cards THEN [owes |-> held[x], rate |-> home.card[x].rate]
             ELSE [owes |-> loan[x].balance, rate |-> home.loan[x].rate]
Costly == {x \in Cards \cup Loans : Lender(x).owes > 0 /\ Lender(x).rate > 0}
MonthlyInterest(x) == (Lender(x).owes * Lender(x).rate) \div 100
InterestLeak == Total(Costly, MonthlyInterest)
HurdleRate == IF Costly = {} THEN None ELSE Max({Lender(x).rate : x \in Costly})

Profit(f) == fund[f].lots * (fund[f].price - home.fund[f].cost)
StalePrices == {f \in Funds : ~home.fund[f].emanet
                              /\ (fund[f].stamp = None \/ day - fund[f].stamp > K.priceStale)}
SilentPrices == {f \in StalePrices : fund[f].stamp # None /\ day - fund[f].stamp > K.priceAlarm}

\* --- Net worth over time ---------------------------------------------------

BankDebt == CardDebt + LoanDebt
DebtAt(d) == snaps[d].cards + snaps[d].loans
Band(p) == IF p >= 75 THEN 75 ELSE IF p >= 50 THEN 50 ELSE IF p >= 25 THEN 25
           ELSE IF p >= 10 THEN 10 ELSE 0

\* calculate_debt_progress: against the oldest snapshot; a milestone is fresh
\* only when the last snapshot before today had not reached it.
ProgressOf(debt) == Percent(DebtAt(FirstSnap) - debt, DebtAt(FirstSnap))
HasProgress == SnapDays # {} /\ day - FirstSnap >= K.week /\ DebtAt(FirstSnap) > 0
\* (mutant) The first snapshot is the reference of what is new, too.
EverFreshMilestone ==
    LET band == Band(ProgressOf(BankDebt))
    IN  IF HasProgress /\ band > Band(ProgressOf(DebtAt(FirstSnap))) THEN band ELSE 0
FreshMilestone ==
    LET band == Band(ProgressOf(BankDebt))
        earlier == {d \in SnapDays : d < day}
    IN  IF HasProgress /\ earlier # {} /\ band > Band(ProgressOf(DebtAt(Max(earlier))))
        THEN band ELSE 0

\* calculate_networth_attribution: what drove the change since the month began.
Drivers(from, to) ==
    [cash |-> snaps[to].cash - snaps[from].cash, cards |-> snaps[from].cards - snaps[to].cards,
     loans |-> snaps[from].loans - snaps[to].loans,
     invested |-> snaps[to].invested - snaps[from].invested,
     receivables |-> snaps[to].receivables - snaps[from].receivables]
MonthReference == {d \in SnapDays : d <= FirstOf[Month]}
Attribution ==
    IF MonthReference = {} \/ Max(MonthReference \cup {0}) = LastSnap THEN None
    ELSE LET from == Max(MonthReference)
         IN  [change |-> snaps[LastSnap].full - snaps[from].full, drivers |-> Drivers(from, LastSnap)]

\* _baz_snapshot: the base of "since the month began" is never today's.
BaseSnapshot ==
    LET earlier == {d \in SnapDays : d < day}
        near == {d \in earlier : d \in FirstOf[Month] - K.baseTolerance .. FirstOf[Month]}
    IN  IF near # {} THEN Max(near) ELSE IF earlier # {} THEN Min(earlier) ELSE None

\* --- Health, alerts, the next step -----------------------------------------

Bounded(x) == Greater(0, Lesser(100, x))
MonthlyIncome == Total(Incomes, LAMBDA i : home.income[i].amount)
HealthParts(forecast) ==
    <<IF forecast.crunch # {} THEN 20 ELSE IF RealBudget >= 0 THEN 100 ELSE 40>>
    \o (IF MonthlyIncome > 1 THEN <<Bounded(100 - (InterestLeak * 333) \div MonthlyIncome)>> ELSE <<>>)
    \o (IF Runway # None THEN <<Bounded((Runway * 100) \div (3 * K.window))>> ELSE <<>>)
    \o (IF CardLimit > 0 THEN <<Bounded(100 - Percent(CardDebt, CardLimit))>> ELSE <<>>)
    \o (IF Envelopes # {} THEN <<Greater(0, 100 - 25 * Cardinality(Burst))>> ELSE <<>>)
HealthScore(forecast) ==
    LET parts == HealthParts(forecast)
    IN  FoldLeft(LAMBDA x, y : x + y, 0, parts) \div Len(parts)

Alert(level, code, amount) == [level |-> level, code |-> code, amount |-> amount]
If(condition, alert) == IF condition THEN <<alert>> ELSE <<>>

\* sorted: by a key; which of two equals comes first is open.
Sorted(S, key(_)) ==
    CHOOSE q \in SetToSeqs(S) : \A i, j \in DOMAIN q : i < j => key(q[i]) <= key(q[j])
Each(S, level, code, amount(_)) ==
    LET order == Sorted(S, LAMBDA x : -amount(x))
    IN  [k \in 1 .. Cardinality(S) |-> Alert(level, code, amount(order[k]))]

\* detect_alerts.
BigPayments ==
    {u \in UpcomingLoans \cup UpcomingCards : u.date <= day + K.soon /\ 2 * u.amount > Cash}
Detected ==
    If(CardLimit > 0 /\ 100 * CardDebt >= 95 * CardLimit, Alert("critical", "cardFull", CardDebt))
    \o If(CardLimit > 0 /\ 100 * CardDebt \in 80 * CardLimit .. 95 * CardLimit - 1,
          Alert("warning", "cardHigh", CardDebt))
    \o If(RealBudget < 0, Alert("critical", "budgetNegative", RealBudget))
    \o If(Cash < K.lowCash, Alert("warning", "cashLow", Cash))
    \o Each(BigPayments, "warning", "bigPayment", LAMBDA u : u.amount)

OldestFirst(D) == Sorted(D, LAMBDA d : home.debt[d].due)
OverdueAlerts(dir, level, code) ==
    LET order == OldestFirst(Overdue(dir))
    IN  [k \in 1 .. Cardinality(Overdue(dir)) |-> Alert(level, code, home.debt[order[k]].amount)]

\* calculate_min_payment_trap: month after month a card accrues its interest and only its minimum
\* is paid of it, until nothing is left or the engine gives up (_simulate with one card, no extra).
TrapRate(c) == IF home.card[c].rate > 0 THEN home.card[c].rate ELSE K.cardRate
LeastPayment(c, owes) == Lesser(Greater((owes * home.card[c].ratio) \div 100, K.minimumFloor), owes)
Crawled(c, s) ==
    LET interest == (s.owes * TrapRate(c)) \div 100
        owes == s.owes + interest
    IN  [owes |-> owes - LeastPayment(c, owes), interest |-> s.interest + interest, months |-> s.months + 1]
Crawl(c) ==
    LET after[m \in 0 .. K.months] ==
            IF m = 0 THEN [owes |-> held[c], interest |-> 0, months |-> 0]
            ELSE LET s == after[m - 1] IN IF s.owes > 0 THEN Crawled(c, s) ELSE s
    IN  after[K.months]

\* _min_payment_trap_alerts: the card that leaks most interest, when it never ends or crawls long.
Owing == {c \in Cards : held[c] > 0}
LeaksMost == CHOOSE c \in Owing : \A other \in Owing : Crawl(c).interest >= Crawl(other).interest
TrapAlerts ==
    IF Owing = {} THEN <<>>
    ELSE LET crawl == Crawl(LeaksMost)
         IN  IF crawl.months >= K.months THEN <<Alert("critical", "cardSpiral", held[LeaksMost])>>
             ELSE If(crawl.months >= K.trap, Alert("warning", "cardTrap", crawl.interest))

CrunchAlert(forecast) == If(forecast.crunch # {}, Alert("critical", "crunch", -forecast.lowest))

\* Everything found, before sorting and cutting.
Found(forecast) ==
    OverdueAlerts("payable", "critical", "debtOverdue")
    \o CrunchAlert(forecast)
    \o Detected
    \o OverdueAlerts("receivable", "warning", "receivableOverdue")
    \o Each(DearerSubscriptions, "warning", "dearer", NewPrice)
    \o SubSeq(Each(OverspentCategories, "warning", "overspent", LAMBDA c : Projected(SoFar.of[c])), 1,
              Lesser(2, Cardinality(OverspentCategories)))
    \o TrapAlerts
    \o If(SilentPrices # {}, Alert("warning", "priceSilent", 0))

Critical(found) == Picked(found, {k \in DOMAIN found : found[k].level = "critical"})
Warnings(found) == Picked(found, {k \in DOMAIN found : found[k].level # "critical"})

\* (mutant) The list is cut where the warnings are.
FirstFew(found) ==
    SubSeq(Critical(found) \o Warnings(found), 1, Lesser(K.warningsShown, Len(found)))

\* Critical first; every critical one is shown and only a few warnings are.
Alerts(found) ==
    Critical(found) \o SubSeq(Warnings(found), 1, Lesser(K.warningsShown, Len(Warnings(found))))

\* recommend_next_action: survival before opportunity.
Advice(kind, amount) == [kind |-> kind, amount |-> amount]
First(alerts, code) == SelectInSeq(alerts, LAMBDA a : a.code = code)
NextStep(alerts) ==
    LET late == Overdue("receivable")
    IN  IF First(alerts, "debtOverdue") # 0
        THEN Advice("default", alerts[First(alerts, "debtOverdue")].amount)
        ELSE IF First(alerts, "crunch") # 0
        THEN IF late # {} THEN Advice("crunch", home.debt[OldestOf(late)].amount)
             ELSE Advice("crunch", alerts[First(alerts, "crunch")].amount)
        ELSE IF late # {} THEN Advice("collect", home.debt[OldestOf(late)].amount)
        ELSE IF Unassigned >= K.idle /\ CardDebt > 0 /\ (Runway = None \/ Runway >= K.window)
        THEN Advice("payCard", Lesser(Unassigned, CardDebt))
        ELSE IF BankDebt > 0 THEN Advice("steady", None) ELSE Advice("none", None)

\* What a request of the panel answers.
Panel ==
    LET forecast == ForecastSummary
        found == Found(forecast)
    IN  [cash |-> Cash, net |-> NetSeen, full |-> NetFull, budget |-> RealBudget,
         limit |-> DailyLimit, safe |-> SafeToSpend(forecast, 0), menu |-> PaymentMenu(forecast),
         alerts |-> Alerts(found), hidden |-> Len(found) - Len(Alerts(found)),
         next |-> NextStep(Alerts(found)), health |-> HealthScore(forecast)]
=============================================================================
