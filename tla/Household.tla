----------------------------- MODULE Household -----------------------------
(***************************************************************************)
(* A household that lives with the panel: days pass, what is due is paid   *)
(* and approved, money is spent, cards and loans are served, balances are  *)
(* typed in, and now and then the panel is opened and believed.  What the  *)
(* panel said last is remembered in plan and compared with what came.      *)
(***************************************************************************)
EXTENDS WhatIf

CONSTANTS Homes,      \* households to start from; bounds of each: until (the last
                      \* day lived), looks (days on which the panel is opened, once
                      \* a day), buys (unplanned purchases), sales
          Purchases   \* what may be bought: <<amount, category>>

\* What the user brings along: amounts are numbers, the categories of what is entered are known,
\* and money waits in an investment account only when it has neither a fund's code nor lots.
\* Whoever lives to the last day still has a month ahead in the calendar.
ItemOf(h, r) == IF r \in Incomes THEN h.income[r] ELSE h.expense[r]
IsHome(h) ==
    /\ {h.day, h.until} \subseteq Dates /\ h.day <= h.until /\ MonthOf[h.until] < Len(Lengths)
    /\ h.held \in [Accounts -> Int] /\ h.statement \in [Cards -> Int \cup {None}] /\ DOMAIN h.snaps \subseteq Int
    /\ \A r \in Recurring : ItemOf(h, r).amount \in Int /\ ItemOf(h, r).cat \in Categories
    /\ \A c \in Cards : h.card[c].payment \in Int
    /\ \A l \in Loans : {h.loan[l].monthly, h.loan[l].rate} \subseteq Int
    /\ h.loans \in [Loans -> [balance : Int, next : Int \cup {None}, left : Int \cup {None}]]
    /\ h.debt \in [Debts -> [dir : {"receivable", "payable"}, amount : Int, due : Int \cup {None}]]
    /\ h.funds \in [Funds -> [lots : Nat, price : Int, stamp : Int \cup {None}]]
    /\ h.fund \in [Funds -> [cost : Int, emanet : BOOLEAN, coded : BOOLEAN, waiting : Nat]]
    /\ \A f \in Funds : h.fund[f].waiting > 0 => ~h.fund[f].coded /\ h.funds[f].lots = 0
    /\ h.log \in Seq(Range(h.log))
    /\ \A n \in DOMAIN h.log : {h.log[n].date, h.log[n].amount} \subseteq Int /\ h.log[n].cat \in Categories

ASSUME HouseholdConstants ==
    /\ \A S \in {Incomes, Expenses, Cards, Loans, Debts, Funds, Categories} : IsFiniteSet(S)
    /\ Purse \notin Cards /\ Cards \cap (Recurring \cup Debts) = {} /\ None \notin Int
    /\ {K.horizon, K.soon, K.ahead, K.withholding} \subseteq Int /\ K.soon <= K.ahead /\ {K.window, K.warningsShown} \subseteq Nat
    /\ Purchases \subseteq Int \X Categories
    /\ \A h \in Homes : IsHome(h)

VARIABLE plan         \* None or what the panel promised and what happened since

vars == <<books, plan>>

\* --- What a due thing is ----------------------------------------------------

DueOn(r) == Clamped(Month, Item(r).day)
ToBook == {r \in Recurring : booked[r] # Month /\ DueOn(r) <= day}
ToSettle == {d \in Debts \ paid : home.debt[d].due # None /\ home.debt[d].due <= day}
ToPay == {l \in Loans : loan[l].left # 0 /\ loan[l].next # None /\ loan[l].next <= day}
AllDone == ToBook = {} /\ ToPay = {} /\ \A d \in ToSettle : home.debt[d].due < day

\* --- The panel ---------------------------------------------------------------

Promise(forecast) ==
    [from |-> day, closing |-> forecast.closing, safe |-> SafeToSpend(forecast, 0),
     owed |-> CardDebt, spent |-> 0, toCards |-> 0,
     typed |-> held = real,
     dawn |-> \A r \in Recurring : booked[r] = Month => DueOn(r) # day]

\* A request of the panel: the figures are worked out and today's snapshot is
\* written or brought up to date.
OpenPanel ==
    /\ day \notin SnapDays /\ Cardinality(SnapDays \ DOMAIN home.snaps) < home.looks
    /\ snaps' = [d \in SnapDays \cup {day} |-> IF d = day THEN Snapshot ELSE snaps[d]]
    /\ plan' = Promise(ForecastSummary)
    /\ UNCHANGED <<home, day, held, real, statement, loan, booked, paid, fund, log>>

Since(spent, toCards) ==
    plan' = IF plan = None THEN None
            ELSE [plan EXCEPT !.spent = @ + spent, !.toCards = @ + toCards]

\* --- Money moves --------------------------------------------------------------

Move(balances, x) == [a \in DOMAIN balances |-> balances[a] + (IF a \in DOMAIN x THEN x[a] ELSE 0)]
Leg(a, x) == [b \in {a} |-> x]
Pays(a, x) == IF a \in Cards THEN Leg(a, x) ELSE Leg(Purse, -x)

\* A due item happens at the bank and its pending action is approved: a
\* transaction and the month's mark, no balance.
Book(r) ==
    LET item == Item(r)
        into == IF r \in Incomes THEN Leg(Purse, item.amount) ELSE Pays(item.from, item.amount)
    IN  /\ r \in ToBook
        /\ real' = Move(real, into)
        /\ booked' = [booked EXCEPT ![r] = Month]
        /\ log' = Append(log, Entry(day, IF r \in Incomes THEN "income" ELSE "expense",
                                    item.cat, item.amount, r))
        /\ Since(0, IF r \in Expenses /\ item.from \in Cards THEN -item.amount ELSE 0)
        /\ UNCHANGED <<home, day, held, statement, loan, paid, fund, snaps>>

\* The balance of an account is typed in (PUT of the account).
TypeIn(a) ==
    /\ held[a] # real[a]
    /\ held' = [held EXCEPT ![a] = real[a]]
    /\ UNCHANGED <<home, day, real, statement, loan, booked, paid, fund, log, snaps, plan>>

\* mark_debt_paid with its cash leg.
Settle(d) ==
    LET x == Leg(Purse, Sign(d) * home.debt[d].amount)
    IN  /\ d \in ToSettle
        /\ paid' = paid \cup {d}
        /\ held' = Move(held, x) /\ real' = Move(real, x)
        /\ Since(IF plan # None /\ home.debt[d].due < plan.from THEN -x[Purse] ELSE 0, 0)
        /\ UNCHANGED <<home, day, statement, loan, booked, fund, log, snaps>>

\* pay_credit_card: both balances and nothing else; the statement stays.
PayCard(c, x) ==
    LET legs == [a \in {Purse, c} |-> -x]
    IN  /\ x > 0 /\ x <= held[c]
        /\ held' = Move(held, legs) /\ real' = Move(real, legs)
        /\ Since(0, x)
        /\ UNCHANGED <<home, day, statement, loan, booked, paid, fund, log, snaps>>

\* The bank takes an instalment; the user types in the loan's new figures.
PayInstalment(l) ==
    /\ l \in ToPay
    /\ held' = Move(held, Leg(Purse, -home.loan[l].monthly))
    /\ real' = Move(real, Leg(Purse, -home.loan[l].monthly))
    /\ loan' = [loan EXCEPT ![l] =
                   [balance |-> AfterInstalments(@.balance, l, 1),
                    next |-> Clamped(MonthOf[@.next] + 1, home.loan[l].day),
                    left |-> IF @.left = None THEN None ELSE @.left - 1]]
    /\ Since(0, 0)
    /\ UNCHANGED <<home, day, statement, booked, paid, fund, log, snaps>>

\* A purchase entered in the form, which moves the balance.
Spend(x, cat) ==
    /\ Cardinality({n \in DOMAIN log \ DOMAIN home.log : log[n].name = None}) < home.buys
    /\ held' = Move(held, Leg(Purse, -x)) /\ real' = Move(real, Leg(Purse, -x))
    /\ log' = Append(log, Entry(day, "expense", cat, x, None))
    /\ Since(x, 0)
    /\ UNCHANGED <<home, day, statement, loan, booked, paid, fund, snaps>>

\* The user types in what the bank cut.
CutStatement(c) ==
    /\ day = Clamped(Month, home.card[c].statement) /\ statement[c] # held[c]
    /\ statement' = [statement EXCEPT ![c] = held[c]]
    /\ UNCHANGED <<home, day, held, real, loan, booked, paid, fund, log, snaps, plan>>

\* sell_investment into the purse, at the price of today.
Sell(f, n) ==
    LET got == n * fund[f].price - Withheld(n * (fund[f].price - home.fund[f].cost))
    IN  /\ ~home.fund[f].emanet /\ n <= fund[f].lots /\ home.funds[f].lots - fund[f].lots < home.sales
        /\ held' = Move(held, Leg(Purse, got)) /\ real' = Move(real, Leg(Purse, got))
        /\ fund' = [fund EXCEPT ![f].lots = @ - n, ![f].stamp = day]
        /\ UNCHANGED <<home, day, statement, loan, booked, paid, log, snaps, plan>>

\* The night: a dutiful household first does everything that is due.
NextDay ==
    /\ day < home.until
    /\ home.dutiful => AllDone
    /\ day' = day + 1
    /\ UNCHANGED <<home, held, real, statement, loan, booked, paid, fund, log, snaps, plan>>

Start(h) ==
    /\ home = h /\ day = h.day /\ held = h.held /\ real = h.held /\ statement = h.statement
    /\ loan = h.loans /\ fund = h.funds /\ booked = [r \in Recurring |-> h.booked]
    /\ paid = {} /\ log = h.log /\ snaps = h.snaps /\ plan = None
Init == \E h \in Homes : Start(h)

Next ==
    \/ OpenPanel \/ NextDay
    \/ \E r \in Recurring : Book(r)
    \/ \E a \in Accounts : TypeIn(a)
    \/ \E d \in Debts : Settle(d)
    \/ \E c \in Cards : PayCard(c, Due(c)) \/ CutStatement(c)
    \/ \E l \in Loans : PayInstalment(l)
    \/ \E p \in Purchases : Spend(p[1], p[2])
    \/ \E f \in Funds : Sell(f, 1)

Spec == Init /\ [][Next]_vars

----------------------------------------------------------------------------
(* What the panel says and what comes.                                     *)

\* A household that does everything on its day ends each day of the horizon
\* with at least the cash the forecast of app/cashflow.py named, less what it
\* did besides: short months, stale and clamped instalment dates, the last
\* instalment and the window's end must all fall as they do at the bank.  The
\* forecast is one taken with the balances typed in and before anything of that
\* day was booked.
ForecastComesTrue ==
    home.dutiful /\ plan # None /\ AllDone =>
        (plan.typed /\ plan.dawn /\ day \in DOMAIN plan.closing
            => real[Purse] >= plan.closing[day] - plan.spent - plan.toCards)

\* guvenli_harcama of _calculate_safe_to_spend: whoever spends no more than the
\* panel named, and pays no more than the card debt of that moment, never ends
\* a day below zero within the horizon.
SafeToSpendHolds ==
    /\ home.dutiful /\ plan # None /\ AllDone
    /\ plan.typed /\ day \in DOMAIN plan.closing
    /\ plan.safe > 0 /\ plan.spent <= plan.safe /\ plan.toCards <= plan.owed
    => real[Purse] >= 0
SpendingStaysAfloat == plan # None /\ plan.dawn => SafeToSpendHolds

\* Paying a card or settling a personal debt moves money and makes nobody
\* richer or poorer: pay_credit_card leaves the real budget and the daily
\* limit of generate_cockpit, and both leave the full net worth.
MovingMoneyIsNeutral ==
    [][/\ (\E c \in Cards : PayCard(c, Due(c)))
            => RealBudget' = RealBudget /\ DailyLimit' = DailyLimit /\ NetSeen' = NetSeen
       /\ (\E d \in Debts : Settle(d)) => NetFull' = NetFull]_vars

\* generate_cockpit and recommend_next_action: however many alerts there are,
\* every critical one is shown, before any warning, and the one recommended
\* step is the oldest overdue debt when there is one (one of them, when several
\* fell due that day), else the crunch; paying off a card is never proposed
\* while the forecast goes under.
UrgentFirst ==
    \A panel \in {Panel} :
        LET critical == {k \in DOMAIN panel.alerts : panel.alerts[k].level = "critical"}
        IN  /\ \A k \in critical, n \in DOMAIN panel.alerts \ critical : k < n
            /\ \A a \in Range(Found(ForecastSummary)) :
                  a.level = "critical" => \E k \in critical : panel.alerts[k] = a
            /\ Overdue("payable") # {} =>
                  /\ panel.next.kind = "default"
                  /\ \E d \in Overdue("payable") :
                        /\ \A e \in Overdue("payable") : home.debt[d].due <= home.debt[e].due
                        /\ panel.next.amount = home.debt[d].amount
            /\ panel.next.kind \in {"payCard", "collect", "steady", "none"}
                  => ForecastSummary.crunch = {} /\ Overdue("payable") = {}

\* Between the reminders, the overdue alerts and the lists ahead nothing that
\* is unpaid is lost at the day it falls due: every dated debt is overdue or in
\* the forecast or beyond it, every receivable is in one bucket of the aging,
\* and every card reminder is also in the list of payments.
NothingFallsThrough ==
    LET events == Events(Chips, day, ForecastEnd)
    IN  /\ \A d \in Debts \ paid : home.debt[d].due # None =>
              \/ d \in Overdue(home.debt[d].dir)
              \/ \E e \in events : e.who = d /\ e.date = home.debt[d].due
              \/ home.debt[d].due > ForecastEnd
        /\ Total(DOMAIN Aging, LAMBDA b : Aging[b]) = Receivables
        /\ \A r \in Reminders : r.who \in Cards => \E u \in UpcomingPayments :
              u.who = r.who /\ u.date = r.date /\ u.amount = r.amount

\* The same money under every name: the short summary of an approval, the
\* panel and the simulation's world (which adds the cash waiting in investment
\* accounts) agree on the balances, and the months of the series, the month so
\* far and the two windows of the spending patterns on the transactions.
BalancesAgree ==
    /\ QuickSummary.cash = Cash /\ QuickSummary.net = NetSeen
    /\ Sums(World).net = NetSeen + IdleInFunds
SpendingAgrees ==
    LET months == MonthlySeries(Month, Month)
    IN  /\ Total(DOMAIN months, LAMBDA k : months[k].net) = Aggregates(1, EndOfMonth(day)).net
        /\ Total(Categories, LAMBDA c : SoFar.of[c]) = SoFar.expense
        /\ \A c \in Patterns : Pattern(c).cur + Pattern(c).prev
                                  = Spent(c, PreviousWindow[1], CurrentWindow[2])

\* One set of books behind every figure (rules_engine.py:2564-2659, balance_rules.py:51-58).
OneSetOfBooks == [](BalancesAgree /\ SpendingAgrees) /\ MovingMoneyIsNeutral

\* What the simulation previews at T+0 (_apply_action) is what the executor and
\* the form then do: settling, selling, spending and typing in a balance.  At a
\* price of nothing the executor sells and the simulation refuses.
PreviewIsWhatHappens ==
    [][/\ \A d \in Debts : Settle(d) => Sums(SettleIn(World, d)) = Sums(World)'
       /\ \A f \in Funds : Sell(f, 1) /\ fund[f].price > 0 => Sums(SellIn(World, f, 1, fund[f].price)) = Sums(World)'
       /\ \A a \in Accounts : TypeIn(a) => Sums(SetIn(World, a, real[a])) = Sums(World)'
       /\ \A p \in Purchases :
             Spend(p[1], p[2]) => Sums(TransactIn(World, Purse, "expense", p[1], TRUE)) = Sums(World)']_vars

\* An action that changes nothing shows no effect at any horizon: running a
\* world from horizon to horizon is running it there in one go (the half-open
\* windows of _project_forward), for cards whose payment day every month has.
EveryMonthPays == \A c \in Cards : \A m \in Months : home.card[c].payment <= Lengths[m]
NothingSeen == \A k \in 0 .. Len(K.horizons) : \A effect \in Range(DeltaAt(World, k)) : effect = 0

\* The simulation shows what will be so, and nothing when nothing is done
\* (simulation_engine.py:200-402).
PreviewKeepsFaith == [](EveryMonthPays => NothingSeen) /\ PreviewIsWhatHappens

\* calculate_debt_progress: a milestone is new only on the day it is reached.
\* Once the panel has written that day's snapshot and the debts stay as they
\* are, the next day does not celebrate it again.
CelebratedOnce ==
    [][NextDay /\ day \in SnapDays /\ DebtAt(day) = BankDebt => FreshMilestone' = 0]_vars
=============================================================================
