------------------------------ MODULE Payoff ------------------------------
\* The month by month payoff of a household's debts (app/debt_strategy.py):
\* what the accounts owe, the order in which a strategy serves them, the
\* engine the two strategies, the minimum-payment trap and the opportunity
\* cost share, and the results they compare. Money is counted in units of half
\* a kurus, so that the engine's rule about rests below a kurus (Cent units)
\* shows; interest and minimums are rounded down to a unit.
EXTENDS Integers, FiniteSetsExt

CONSTANTS
    Debts,      \* the ids of the debt accounts
    Accounts,   \* the rows an account may be
    Extras,     \* what the user may add every month
    Amounts,    \* what the user may think of spending
    Questions,  \* the questions the user may ask
    Cent,       \* one kurus, in units
    Floor,      \* the least minimum of a card: 50 TL, in units
    CardRate,   \* the monthly rate of a card without one, in 1/10000
    MaxMonths,  \* the engine gives up here: 600 in the code
    None

Plans == [kind : {"snowball", "avalanche", "baseline", "prepaid", "trap"},
          card : Debts \cup {None}]

ASSUME PayoffAssumption ==
    /\ Debts \subseteq Nat /\ IsFiniteSet(Debts) /\ None \notin Nat
    /\ Cent \in Nat \ {0} /\ Floor \in Nat /\ CardRate \in Nat /\ MaxMonths \in Nat
    /\ Extras \subseteq Nat /\ Amounts \subseteq Nat
    /\ Questions \subseteq {"compare", "opportunity", "trap"}
    /\ Accounts \subseteq [kind : {"credit_card", "loan"}, balance : Nat, rate : Nat,
                           ratio : Nat, statement : Nat \cup {None},
                           monthly : Nat, left : Nat]

VARIABLES
    accs, question, monthly, amount,    \* the request: accounts, question, extra_monthly, amount
    todo,       \* the plans not computed yet
    plan,       \* the plan in the engine, or None
    phase,      \* where the engine stands in the month
    part,       \* the debts of the plan
    month, extra, spare, serve, closing,
    opening, owed, accrued, credited, lastBase, ended,
    budget,     \* history: what this month's minimums and extra come to
    results     \* [plan |-> what _simulate returned, or None]

request == <<accs, question, monthly, amount>>
ledger == <<opening, owed, accrued, credited>>
pvars == <<request, todo, plan, phase, part, month, extra, spare, serve, closing,
           ledger, lastBase, ended, budget, results>>

Smaller(x, y) == IF x < y THEN x ELSE y
Larger(x, y) == IF x < y THEN y ELSE x

(* What collect_debts makes of the accounts. *)
Card(d) == accs[d].kind = "credit_card"
Owing == {d \in Debts : accs[d].balance > 0}
Rate(d) == IF accs[d].rate > 0 THEN accs[d].rate ELSE IF Card(d) THEN CardRate ELSE 0
KnownRatio(d) == accs[d].ratio \in 1 .. 100
Ratio(d) == IF KnownRatio(d) THEN accs[d].ratio ELSE 25
Statement(d) == IF accs[d].statement = None THEN accs[d].balance ELSE accs[d].statement
\* The instalment is worked out again from what the payment left (mutant).
FirstMinimumOfRest(d) ==
    IF Card(d) THEN Larger((Statement(d) * Ratio(d)) \div 100, Floor)
    ELSE IF accs[d].left > 0 THEN opening[d] \div accs[d].left
    ELSE (opening[d] * 5) \div 100
FirstMinimum(d) ==
    IF Card(d) THEN Larger((Statement(d) * Ratio(d)) \div 100, Floor)
    ELSE IF accs[d].monthly > 0 THEN accs[d].monthly
    ELSE IF accs[d].left > 0 THEN accs[d].balance \div accs[d].left
    ELSE (accs[d].balance * 5) \div 100
\* The minimum is a guess: the card's ratio or its statement is unknown.
Assumed(d) == Card(d) /\ (~KnownRatio(d) \/ accs[d].statement = None)

(* The engine's arithmetic. *)
Interest(b, r) == (b * r) \div 10000
\* A card's minimum follows what it owes now; a loan's instalment is fixed.
MinimumOf(d, b) == IF Card(d) THEN Larger((b * Ratio(d)) \div 100, Floor) ELSE FirstMinimum(d)
Minimum(d) == MinimumOf(d, owed[d])
\* A payment that would leave less than a kurus takes the rest along.
Settling(d, pay) == IF owed[d] - pay < Cent THEN owed[d] ELSE pay
MinimumPaid(d) == Settling(d, Smaller(Minimum(d), owed[d]))
ExtraPaid(d) == Settling(d, Smaller(spare, owed[d]))
\* Only what the last month still asked of the debt is freed (mutant).
FreedAsPaid(d) == MinimumPaid(d)
\* What a finished debt frees for the others: its whole minimum of this month,
\* also when less of it was left to pay.
Freed(d) == Minimum(d)

(* Who is served first. *)
ByBalance(d, e) == accs[d].balance < accs[e].balance
                   \/ (accs[d].balance = accs[e].balance /\ d < e)
ByRate(d, e) == Rate(d) > Rate(e) \/ (Rate(d) = Rate(e) /\ d < e)
Before(d, e) == IF plan.kind = "snowball" THEN ByBalance(d, e) ELSE ByRate(d, e)
First(S) == CHOOSE d \in S : \A e \in S \ {d} : Before(d, e)

Running == {d \in part : owed[d] > Cent}

PlanOf(kind) == [kind |-> kind, card |-> None]
PlansOf(q) ==
    CASE q = "compare" -> {PlanOf("snowball"), PlanOf("avalanche")}
      [] q = "opportunity" -> {PlanOf("baseline"), PlanOf("prepaid")}
      [] q = "trap" -> {[kind |-> "trap", card |-> d] : d \in {e \in Owing : Card(e)}}

Zero == [d \in Debts |-> 0]

PInit ==
    /\ accs \in [Debts -> Accounts]
    /\ question \in Questions
    /\ monthly \in (IF question = "compare" THEN Extras ELSE {0})
    /\ amount \in (IF question = "opportunity" THEN Amounts ELSE {0})
    /\ todo = IF Owing = {} THEN {} ELSE PlansOf(question)
    /\ plan = None /\ phase = "idle" /\ part = {}
    /\ month = 0 /\ extra = 0 /\ spare = 0 /\ serve = {} /\ closing = {}
    /\ opening = Zero /\ owed = Zero /\ accrued = Zero /\ credited = Zero
    /\ lastBase = Zero /\ ended = Zero
    /\ budget = 0
    /\ results = [p \in Plans |-> None]

(* A plan begins: calc_snowball, calc_avalanche, the trap of one card, or the *)
(* avalanche with and without the amount paid in beforehand.                  *)
StartPlan(p) ==
    /\ phase = "idle" /\ p \in todo
    /\ plan' = p
    /\ todo' = todo \ {p}
    /\ part' = IF p.kind = "trap" THEN {p.card} ELSE Owing
    /\ opening' = [d \in Debts |-> IF d \in part' THEN accs[d].balance ELSE 0]
    /\ owed' = opening'
    /\ accrued' = Zero /\ credited' = Zero /\ lastBase' = Zero /\ ended' = Zero
    /\ month' = 0
    /\ extra' = monthly
    /\ spare' = IF p.kind = "prepaid" THEN amount ELSE 0
    /\ serve' = IF p.kind = "prepaid" THEN Owing ELSE {}
    /\ phase' = IF p.kind = "prepaid" THEN "prepay" ELSE "month"
    /\ closing' = {} /\ budget' = 0
    /\ UNCHANGED <<request, results>>

\* The amount is paid in today, the dearest debt first, the rest running over.
Prepay ==
    /\ phase = "prepay" /\ serve # {}
    /\ LET d == First(serve)
           pay == Smaller(spare, opening[d])
       IN /\ opening' = [opening EXCEPT ![d] = @ - pay]
          /\ owed' = opening'
          /\ spare' = spare - pay
          /\ serve' = serve \ {d}
    /\ UNCHANGED <<request, todo, plan, phase, part, month, extra, closing, accrued,
                   credited, lastBase, ended, budget, results>>

\* Debts the payment has all but closed leave the plan.
Prepaid ==
    /\ phase = "prepay" /\ serve = {}
    /\ phase' = "month"
    /\ part' = Running
    /\ UNCHANGED <<request, todo, plan, month, extra, spare, serve, closing, ledger,
                   lastBase, ended, budget, results>>

\* A month begins: interest accrues on every running debt.
BeginMonth ==
    /\ phase = "month" /\ Running # {} /\ month < MaxMonths
    /\ month' = month + 1
    /\ owed' = [d \in Debts |-> IF d \in Running THEN owed[d] + Interest(owed[d], Rate(d))
                                                 ELSE owed[d]]
    /\ accrued' = [d \in Debts |-> IF d \in Running THEN accrued[d] + Interest(owed[d], Rate(d))
                                                    ELSE accrued[d]]
    /\ spare' = extra
    /\ serve' = Running
    /\ closing' = {}
    /\ budget' = extra + SumFunctionOnSet([d \in Debts |-> MinimumOf(d, owed'[d])], Running)
    /\ phase' = "minimums"
    /\ UNCHANGED <<request, todo, plan, part, extra, opening, credited, lastBase, ended, results>>

\* A debt that is paid off is closed, its month noted once.
Close(d) ==
    IF owed'[d] = 0
    THEN /\ closing' = closing \cup {d}
         /\ ended' = [ended EXCEPT ![d] = IF @ = 0 THEN month ELSE @]
    ELSE UNCHANGED <<closing, ended>>

\* A rest below a kurus is dropped instead of paid (mutant).
PayMinimumForgiving ==
    /\ phase = "minimums" /\ serve # {}
    /\ LET d == First(serve)
           pay == Smaller(Minimum(d), owed[d])
       IN /\ lastBase' = [lastBase EXCEPT ![d] = Freed(d)]
          /\ owed' = [owed EXCEPT ![d] = IF @ - pay < Cent THEN 0 ELSE @ - pay]
          /\ credited' = [credited EXCEPT ![d] = @ + pay]
          /\ serve' = serve \ {d}
          /\ Close(d)
    /\ UNCHANGED <<request, todo, plan, phase, part, month, extra, spare, opening, accrued,
                   budget, results>>

PayMinimum ==
    /\ phase = "minimums" /\ serve # {}
    /\ LET d == First(serve)
       IN /\ lastBase' = [lastBase EXCEPT ![d] = Freed(d)]
          /\ owed' = [owed EXCEPT ![d] = @ - MinimumPaid(d)]
          /\ credited' = [credited EXCEPT ![d] = @ + MinimumPaid(d)]
          /\ serve' = serve \ {d}
          /\ Close(d)
    /\ UNCHANGED <<request, todo, plan, phase, part, month, extra, spare, opening, accrued,
                   budget, results>>

MinimumsPaid ==
    /\ phase = "minimums" /\ serve = {}
    /\ phase' = "extra"
    /\ serve' = Running
    /\ UNCHANGED <<request, todo, plan, part, month, extra, spare, closing, ledger, lastBase,
                   ended, budget, results>>

PayExtra ==
    /\ phase = "extra" /\ serve # {} /\ spare > Cent
    /\ LET d == First(serve)
       IN /\ owed' = [owed EXCEPT ![d] = @ - ExtraPaid(d)]
          /\ credited' = [credited EXCEPT ![d] = @ + ExtraPaid(d)]
          /\ spare' = spare - ExtraPaid(d)
          /\ serve' = serve \ {d}
          /\ Close(d)
    /\ UNCHANGED <<request, todo, plan, phase, part, month, extra, opening, accrued, lastBase,
                   budget, results>>

ExtraPaidOut ==
    /\ phase = "extra" /\ (serve = {} \/ spare <= Cent)
    /\ phase' = "close"
    /\ serve' = closing
    /\ UNCHANGED <<request, todo, plan, part, month, extra, spare, closing, ledger, lastBase,
                   ended, budget, results>>

\* What the debts closed this month used to cost is extra from the next on.
RollOver ==
    /\ phase = "close" /\ serve # {}
    /\ LET d == First(serve)
       IN /\ extra' = extra + lastBase[d]
          /\ serve' = serve \ {d}
    /\ UNCHANGED <<request, todo, plan, phase, part, month, spare, closing, ledger, lastBase,
                   ended, budget, results>>

EndMonth ==
    /\ phase = "close" /\ serve = {}
    /\ phase' = "month"
    /\ UNCHANGED <<request, todo, plan, part, month, extra, spare, serve, closing, ledger,
                   lastBase, ended, budget, results>>

\* The plan is over, or the engine gives up: then there is no payoff date.
FinishPlan ==
    /\ phase = "month" /\ (Running = {} \/ month >= MaxMonths)
    /\ results' = [results EXCEPT ![plan] =
            [months |-> month, dated |-> month < MaxMonths, interest |-> accrued,
             paid |-> credited, rest |-> owed, ended |-> ended]]
    /\ phase' = "idle" /\ plan' = None /\ part' = {}
    /\ UNCHANGED <<request, todo, month, extra, spare, serve, closing, ledger, lastBase, ended,
                   budget>>

PNext ==
    \/ \E p \in Plans : StartPlan(p)
    \/ Prepay \/ Prepaid
    \/ BeginMonth \/ PayMinimum \/ MinimumsPaid \/ PayExtra \/ ExtraPaidOut
    \/ RollOver \/ EndMonth \/ FinishPlan

PSpec == PInit /\ [][PNext]_pvars
---------------------------------------------------------------------------
(* What the answers say. *)
Answered == todo = {} /\ phase = "idle"
Total(f) == SumFunctionOnSet(f, Debts)
InterestOf(kind) == Total(results[PlanOf(kind)].interest)
MonthsOf(kind) == results[PlanOf(kind)].months
\* interest_saved_with_avalanche, and what paying the amount in would save.
SavedByAvalanche == InterestOf("snowball") - InterestOf("avalanche")
SavedByPaying == InterestOf("baseline") - InterestOf("prepaid")
MonthsWon == MonthsOf("baseline") - MonthsOf("prepaid")
---------------------------------------------------------------------------
Result == [months : Nat, dated : BOOLEAN, interest : [Debts -> Nat], paid : [Debts -> Nat],
           rest : [Debts -> Nat], ended : [Debts -> Nat]]

\* Every variable keeps its type: no debt is paid below zero, and the money
\* left over this month is short by less than a kurus at most (_simulate).
PTypeOK ==
    /\ accs \in [Debts -> Accounts] /\ question \in Questions
    /\ monthly \in Nat /\ amount \in Nat
    /\ todo \subseteq Plans /\ plan \in Plans \cup {None}
    /\ phase \in {"idle", "prepay", "month", "minimums", "extra", "close"}
    /\ part \subseteq Debts /\ serve \subseteq Debts /\ closing \subseteq Debts
    /\ month \in Nat /\ extra \in Nat /\ budget \in Nat /\ spare \in Int
    /\ \A f \in {opening, owed, accrued, credited, lastBase, ended} : f \in [Debts -> Nat]
    /\ results \in [Plans -> Result \cup {None}]

\* What a debt was and the interest it drew is what was paid on it and what
\* it still is, through every month, rest below a kurus and rollover: the
\* engine neither forgives nor invents money (RULE-012, BUG 438).
NothingIsLost == \A d \in part : opening[d] + accrued[d] = owed[d] + credited[d]

\* As long as every card's minimum covers its interest, a month never asks
\* more of the household than the month before: a closed debt frees what it
\* cost last, never what it cost at the start (BUG 089, "phantom money").
CardsFall == \A d \in part : Card(d) => Interest(owed[d], Rate(d)) * 100 <= owed[d] * Ratio(d)
NoPhantomMoney ==
    [][BeginMonth /\ month > 0 /\ CardsFall => budget' <= budget]_pvars

\* The month by month engine keeps its books: nothing is lost, nothing is invented, and every
\* variable keeps its type (debt_strategy.py:195-327).
MoneyAddsUp == [](PTypeOK /\ NothingIsLost) /\ NoPhantomMoney

OnlyLoans == \A d \in part : ~Card(d)
\* A payment that leaves exactly a kurus neither closes the debt nor keeps it running.
LeftBehind == \E d \in part : owed[d] \in 1 .. Cent

\* The rollover loses nothing of what the household pays: in a plan of loans every month sets
\* aside as much as the month before, however many loans have closed since, by their instalment
\* or by the extra money. The month a loan closes in may spend less: what its last instalment
\* did not need is passed on from the next month only (debt_strategy.py:261-297, 305-311).
RolloverIsWhole ==
    [][BeginMonth /\ month > 0 /\ OnlyLoans /\ ~LeftBehind => budget' = budget]_pvars

\* With instalments that do not fall the avalanche costs no more interest than the snowball; a
\* card's falling minimum may turn that round (compare_strategies, debt_strategy.py:6).
AvalancheIsCheapest ==
    Answered /\ question = "compare" /\ Owing # {} /\ (\A d \in Owing : ~Card(d)) => SavedByAvalanche >= 0

\* Paying in part of the dearest debt today never costs interest or months
\* (the note of simulate_purchase_opportunity_cost excepts only amounts that
\* close a debt).
PartPaymentHelps ==
    Answered /\ question = "opportunity" /\ Owing # {}
        /\ (\A d \in Owing : amount < accs[d].balance)
    => SavedByPaying >= 0 /\ MonthsWon >= 0

\* What the household is advised pays: the answers to both questions come out in its favour
\* (debt_strategy.py:355-449, 524-571).
AdvicePays == AvalancheIsCheapest /\ PartPaymentHelps
=============================================================================
