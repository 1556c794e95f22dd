-------------------------- MODULE HouseholdProofs --------------------------
(***************************************************************************)
(* What the panel tells a household, for any household that starts as      *)
(* IsHome says and whatever it then does: a milestone is celebrated once,  *)
(* nothing that is due falls through the lists, and every figure comes     *)
(* from one set of books.                                                  *)
(*                                                                         *)
(* Days, Money and Written are what the steps keep: today is a day of the  *)
(* calendar, balances are numbers, and so are the dates and amounts of the *)
(* transactions.  The months of the calendar cover the dates without gap   *)
(* or overlap, and DataProofs says how sums fall apart.                    *)
(***************************************************************************)
EXTENDS Household, DataProofs, SequenceTheorems, TLAPS

-----------------------------------------------------------------------------
(* The calendar. *)

\* What holds of 1 and is passed on holds up to N.
LEMMA CountingUp ==
    ASSUME NEW N \in Nat, NEW H, 1 \in H, \A n \in 1 .. N - 1 : n \in H => n + 1 \in H
    PROVE  1 .. N \subseteq H
<1> DEFINE Bad == (1 .. N) \ H
<1> SUFFICES ASSUME Bad # {} PROVE FALSE
  OBVIOUS
<1>1. Bad \in SUBSET Int /\ IsFiniteSet(Bad)
  BY FS_Interval, FS_Subset
<1>2. PICK b \in Bad : \A c \in Bad : b <= c
  BY <1>1, LeastExists
<1>3. b \in 1 .. N /\ b \notin H /\ b # 1
  BY <1>2
<1>4. b - 1 \in 1 .. N - 1 /\ b - 1 \notin Bad
  BY <1>2, <1>3
<1>5. b - 1 \in H /\ (b - 1) + 1 = b
  BY <1>3, <1>4
<1> QED BY <1>3, <1>4, <1>5

\* f is the recursion of FirstOf, up to the n-th month.
Firsts(f, n) == \A m \in 1 .. n : f[m] = IF m = 1 THEN 1 ELSE f[m - 1] + Lengths[m - 1]

\* The recursion over the months has a solution, which FirstOf then is.
LEMMA FirstsExist == \E f \in [Months -> Int] : Firsts(f, Len(Lengths))
<1>1. Len(Lengths) \in Nat \ {0} /\ \A m \in Months : Lengths[m] \in Nat \ {0}
  BY MonthsHaveDays DEF Months
<1> DEFINE N == Len(Lengths)
           H == {n \in 1 .. N : \E f \in [1 .. n -> Int] : Firsts(f, n)}
<1>2. 1 \in H
  <2> DEFINE f == [m \in 1 .. 1 |-> 1]
  <2>1. f \in [1 .. 1 -> Int] /\ Firsts(f, 1)
    BY DEF Firsts
  <2> QED BY <1>1, <2>1
<1>3. ASSUME NEW n \in 1 .. N - 1, n \in H
      PROVE  n + 1 \in H
  <2>1. PICK f \in [1 .. n -> Int] : Firsts(f, n)
    BY <1>3
  <2> DEFINE g == [m \in 1 .. n + 1 |-> IF m = n + 1 THEN f[n] + Lengths[n] ELSE f[m]]
  <2>2. n \in 1 .. N /\ n \in Months /\ n + 1 \in 1 .. N
    BY <1>1 DEF Months
  <2>3. f[n] \in Int /\ Lengths[n] \in Int
    BY <1>1, <2>2
  <2>4. g \in [1 .. n + 1 -> Int]
    BY <2>2, <2>3
  <2>5. ASSUME NEW m \in 1 .. n + 1 PROVE g[m] = IF m = 1 THEN 1 ELSE g[m - 1] + Lengths[m - 1]
    <3>1. CASE m = n + 1
      BY <2>2, <3>1
    <3>2. CASE m \in 1 .. n
      <4>1. g[m] = f[m] /\ f[m] = (IF m = 1 THEN 1 ELSE f[m - 1] + Lengths[m - 1])
        BY <2>1, <2>2, <3>2 DEF Firsts
      <4>2. m # 1 => g[m - 1] = f[m - 1]
        BY <2>2, <3>2
      <4> QED BY <4>1, <4>2
    <3> QED BY <2>2, <3>1, <3>2
  <2>6. Firsts(g, n + 1)
    BY <2>5 DEF Firsts
  <2> QED BY <2>2, <2>4, <2>6
<1> HIDE DEF H
<1>4. 1 .. N \subseteq H
  BY <1>1, <1>2, <1>3, CountingUp
<1>5. N \in H
  BY <1>1, <1>4
<1> QED BY <1>5 DEF H, Months

\* What FirstOf is, then.
LEMMA FirstsOfMonths ==
    /\ Len(Lengths) \in Nat \ {0} /\ \A m \in Months : Lengths[m] \in Nat \ {0}
    /\ FirstOf \in [Months -> Int]
    /\ FirstOf[1] = 1
    /\ \A m \in Months \ {1} : m - 1 \in Months /\ FirstOf[m] = FirstOf[m - 1] + Lengths[m - 1]
<1>1. Len(Lengths) \in Nat \ {0} /\ \A m \in Months : Lengths[m] \in Nat \ {0}
  BY MonthsHaveDays DEF Months
<1> DEFINE F(f) == f = [m \in Months |-> IF m = 1 THEN 1 ELSE f[m - 1] + Lengths[m - 1]]
           first == CHOOSE f : F(f)
           N == Len(Lengths)
<1>2. \E f : F(f)
  <2>1. PICK f \in [Months -> Int] : Firsts(f, N)
    BY FirstsExist
  <2>2. F(f)
    BY <2>1 DEF Firsts, Months
  <2> QED BY <2>2
<1>3. F(first)
  BY <1>2
<1>4. FirstOf = [m \in Months |-> first[m]]
  BY DEF FirstOf
<1> HIDE DEF first
<1>5. /\ FirstOf[1] = 1
      /\ \A m \in Months \ {1} : m - 1 \in Months /\ FirstOf[m] = FirstOf[m - 1] + Lengths[m - 1]
  BY <1>1, <1>3, <1>4 DEF Months
<1> DEFINE H == {m \in Months : FirstOf[m] \in Int}
<1>6. 1 \in H
  BY <1>1, <1>5 DEF Months
<1>7. ASSUME NEW n \in 1 .. N - 1, n \in H PROVE n + 1 \in H
  <2>1. n + 1 \in Months \ {1} /\ (n + 1) - 1 = n /\ n \in Months
    BY <1>1 DEF Months
  <2>2. FirstOf[n + 1] = FirstOf[n] + Lengths[n]
    BY <1>5, <2>1
  <2> QED BY <1>1, <1>7, <2>1, <2>2
<1> HIDE DEF H
<1>8. 1 .. N \subseteq H
  BY <1>1, <1>6, <1>7, CountingUp
<1>9. \A m \in Months : FirstOf[m] \in Int
  BY <1>8 DEF H, Months
<1>10. FirstOf \in [Months -> Int]
  BY <1>4, <1>9
<1> QED BY <1>1, <1>5, <1>10

\* Months follow each other without a gap.
LEMMA MonthsInOrder ==
    /\ \A m \in Months : /\ FirstOf[m] \in Int /\ LastOf[m] \in Int /\ 1 <= FirstOf[m] /\ FirstOf[m] <= LastOf[m]
                         /\ LastOf[m] = FirstOf[m] + Lengths[m] - 1
    /\ \A m \in Months \ {1} : m - 1 \in Months /\ FirstOf[m] = LastOf[m - 1] + 1
    /\ \A m, n \in Months : m < n => LastOf[m] < FirstOf[n]
<1> DEFINE N == Len(Lengths)
<1>1. \A m \in Months : LastOf[m] = FirstOf[m] + Lengths[m] - 1 /\ FirstOf[m] \in Int /\ Lengths[m] \in Nat \ {0}
  BY FirstsOfMonths DEF LastOf
<1>2. \A m \in Months : LastOf[m] \in Int /\ FirstOf[m] <= LastOf[m]
  BY <1>1
<1>3. \A m \in Months \ {1} : m - 1 \in Months /\ FirstOf[m] = LastOf[m - 1] + 1
  BY <1>1, FirstsOfMonths
<1> DEFINE H == {n \in Months : 1 <= FirstOf[n] /\ \A m \in 1 .. n - 1 : LastOf[m] < FirstOf[n]}
<1>4. 1 \in H /\ N \in Nat
  BY FirstsOfMonths DEF Months
<1>5. ASSUME NEW n \in 1 .. N - 1, n \in H PROVE n + 1 \in H
  <2>1. n + 1 \in Months \ {1} /\ (n + 1) - 1 = n /\ n \in Months
    BY <1>4 DEF Months
  <2>2. FirstOf[n + 1] = LastOf[n] + 1 /\ FirstOf[n] <= LastOf[n] /\ FirstOf[n] \in Int /\ LastOf[n] \in Int
    BY <1>1, <1>2, <1>3, <2>1
  <2>3. ASSUME NEW m \in 1 .. n PROVE LastOf[m] < FirstOf[n + 1]
    <3>1. CASE m = n
      BY <2>2, <3>1
    <3>2. CASE m \in 1 .. n - 1
      <4>1. LastOf[m] < FirstOf[n]
        BY <1>5, <3>2
      <4>2. LastOf[m] \in Int
        BY <1>2, <1>4, <2>1, <3>2 DEF Months
      <4> QED BY <2>2, <4>1, <4>2
    <3> QED BY <2>1, <3>1, <3>2
  <2> QED BY <1>5, <2>1, <2>2, <2>3
<1> HIDE DEF H
<1>6. 1 .. N \subseteq H
  BY <1>4, <1>5, CountingUp
<1>7. \A n \in Months : 1 <= FirstOf[n] /\ \A m \in 1 .. n - 1 : LastOf[m] < FirstOf[n]
  BY <1>6 DEF H, Months
<1>8. ASSUME NEW m \in Months, NEW n \in Months, m < n PROVE LastOf[m] < FirstOf[n]
  <2>1. m \in 1 .. n - 1
    BY <1>4, <1>8 DEF Months
  <2> QED BY <1>7, <2>1
<1> QED BY <1>1, <1>2, <1>3, <1>7, <1>8

\* Every date is in one month.
LEMMA MonthOfDate ==
    ASSUME NEW d \in Dates
    PROVE  /\ MonthOf[d] \in Months /\ d \in FirstOf[MonthOf[d]] .. LastOf[MonthOf[d]]
           /\ \A m \in Months : d \in FirstOf[m] .. LastOf[m] => m = MonthOf[d]
<1> DEFINE N == Len(Lengths)
           H == {n \in Months : \A e \in 1 .. LastOf[n] : \E m \in Months : e \in FirstOf[m] .. LastOf[m]}
<1>1. N \in Nat \ {0}
  BY FirstsOfMonths
<1>2. 1 \in H
  BY <1>1, FirstsOfMonths DEF Months
<1>3. ASSUME NEW n \in 1 .. N - 1, n \in H PROVE n + 1 \in H
  <2>1. n + 1 \in Months \ {1} /\ (n + 1) - 1 = n /\ n \in Months
    BY <1>1 DEF Months
  <2>2. /\ FirstOf[n + 1] = LastOf[n] + 1
        /\ LastOf[n] \in Int /\ LastOf[n + 1] \in Int /\ FirstOf[n + 1] \in Int
    BY <2>1, MonthsInOrder
  <2>3. ASSUME NEW e \in 1 .. LastOf[n + 1] PROVE \E m \in Months : e \in FirstOf[m] .. LastOf[m]
    <3>1. CASE e <= LastOf[n]
      BY <1>3, <2>2, <3>1
    <3>2. CASE e > LastOf[n]
      BY <2>1, <2>2, <3>2
    <3> QED BY <2>2, <3>1, <3>2
  <2> QED BY <2>1, <2>3
<1> HIDE DEF H
<1>4. 1 .. N \subseteq H
  BY <1>1, <1>2, <1>3, CountingUp
<1>5. N \in H /\ N \in Months
  BY <1>1, <1>4 DEF Months
<1>6. \E m \in Months : d \in FirstOf[m] .. LastOf[m]
  BY <1>5 DEF H, Dates
<1>7. MonthOf[d] = CHOOSE m \in Months : d \in FirstOf[m] .. LastOf[m]
  BY DEF MonthOf
<1>8. MonthOf[d] \in Months /\ d \in FirstOf[MonthOf[d]] .. LastOf[MonthOf[d]]
  BY <1>6, <1>7
<1>9. ASSUME NEW m \in Months, NEW n \in Months, d \in FirstOf[m] .. LastOf[m], d \in FirstOf[n] .. LastOf[n]
      PROVE  m = n
  <2>1. m \in Int /\ n \in Int
    BY <1>1 DEF Months
  <2>2. FirstOf[m] \in Int /\ FirstOf[n] \in Int /\ LastOf[m] \in Int /\ LastOf[n] \in Int
    BY MonthsInOrder
  <2>3. d \in Int /\ ~(LastOf[m] < FirstOf[n]) /\ ~(LastOf[n] < FirstOf[m])
    BY <1>9, <2>2
  <2> QED BY <2>1, <2>3, MonthsInOrder
<1> QED BY <1>8, <1>9

\* Days count from 1.
LEMMA DatesAreNumbers ==
    /\ Dates \in SUBSET Int /\ Months \in SUBSET Int
    /\ \A m \in Months : FirstOf[m] \in Int /\ LastOf[m] \in Int
    /\ \A m \in Months, n \in Int : Clamped(m, n) \in Int
<1>1. Len(Lengths) \in Months /\ Months \in SUBSET Int
  BY FirstsOfMonths DEF Months
<1>2. \A m \in Months : FirstOf[m] \in Int /\ LastOf[m] \in Int
  BY MonthsInOrder
<1>3. Dates \in SUBSET Int
  BY <1>1, <1>2 DEF Dates
<1>4. ASSUME NEW m \in Months, NEW n \in Int PROVE Clamped(m, n) \in Int
  BY <1>2 DEF Clamped, Lesser
<1> QED BY <1>1, <1>2, <1>3, <1>4

\* What is earlier is in no later month.
LEMMA EarlierMonth ==
    ASSUME NEW d \in Dates, NEW e \in Dates, d <= e
    PROVE  MonthOf[d] <= MonthOf[e]
<1>1. PICK m \in Months : m = MonthOf[d] /\ d \in FirstOf[m] .. LastOf[m]
  BY MonthOfDate
<1>2. PICK n \in Months : n = MonthOf[e] /\ e \in FirstOf[n] .. LastOf[n]
  BY MonthOfDate
<1>3. /\ m \in Int /\ n \in Int /\ d \in Int /\ e \in Int
      /\ FirstOf[m] \in Int /\ LastOf[n] \in Int
  BY DatesAreNumbers
<1>4. ~(LastOf[n] < FirstOf[m])
  BY <1>1, <1>2, <1>3
<1>5. ~(n < m)
  BY <1>4, MonthsInOrder
<1> QED BY <1>1, <1>2, <1>3, <1>5

-----------------------------------------------------------------------------
(* A milestone is celebrated once. *)

\* The days: today is one the household lives, and the snapshots are of days.
Days ==
    /\ home \in Homes /\ day \in home.day .. home.until
    /\ SnapDays \in SUBSET Int

\* Days holds at the start and is kept by every step; only the panel and the night touch it.
LEMMA DaysInit == Init => Days
<1> SUFFICES ASSUME NEW h \in Homes, Start(h) PROVE Days
  BY DEF Init
<1>1. h.day \in Int /\ h.until \in Int /\ h.day <= h.until /\ DOMAIN h.snaps \in SUBSET Int
  BY HouseholdConstants, DatesAreNumbers DEF IsHome
<1> QED BY <1>1 DEF Start, Days, SnapDays

LEMMA DaysStep == Days /\ [Next]_vars => Days'
<1> SUFFICES ASSUME Days, [Next]_vars PROVE Days'
  OBVIOUS
<1>0. home.day \in Int /\ home.until \in Int
  <2>1. PICK h \in Homes : h = home
    BY DEF Days
  <2>2. h.day \in Int /\ h.until \in Int
    BY HouseholdConstants, DatesAreNumbers DEF IsHome
  <2> QED BY <2>1, <2>2
<1>1. ASSUME OpenPanel PROVE Days'
  <2>1. DOMAIN snaps' = {day} \cup DOMAIN snaps /\ day' = day /\ home' = home
    BY <1>1 DEF OpenPanel, SnapDays
  <2> QED BY <1>0, <2>1 DEF Days, SnapDays
<1>2. ASSUME NextDay PROVE Days'
  BY <1>0, <1>2 DEF NextDay, Days, SnapDays
<1>3. ASSUME UNCHANGED <<home, day, snaps>> PROVE Days'
  BY <1>3 DEF Days, SnapDays
<1> QED BY <1>1, <1>2, <1>3 DEF Next, vars, books, Book, TypeIn, Settle, PayCard, CutStatement, PayInstalment, Spend, Sell

\* Today, the end of the month and the next month are in the calendar.
LEMMA DaysInCalendar ==
    ASSUME Days
    PROVE  day \in Dates /\ day \in Int /\ Month \in Months /\ Month + 1 \in Months
<1>1. home.day \in Dates /\ home.until \in Dates /\ MonthOf[home.until] < Len(Lengths)
  BY HouseholdConstants DEF IsHome, Days
<1>2. home.day \in Int /\ home.until \in Int /\ LastOf[Len(Lengths)] \in Int
  <2>1. Len(Lengths) \in Months
    BY FirstsOfMonths DEF Months
  <2>2. LastOf[Len(Lengths)] \in Int
    BY <2>1, DatesAreNumbers
  <2>3. Dates \in SUBSET Int
    BY DatesAreNumbers
  <2> QED BY <1>1, <2>2, <2>3
<1>3. day \in Dates /\ day <= home.until /\ day \in Int
  BY <1>1, <1>2 DEF Days, Dates
<1>4. Month <= MonthOf[home.until] /\ Month \in Months /\ MonthOf[home.until] \in Months
  BY <1>1, <1>3, EarlierMonth, MonthOfDate DEF Month
<1> QED BY <1>1, <1>3, <1>4, FirstsOfMonths DEF Months

\* A home as it is when the days pass.
LEMMA HomeIsKnown ==
    ASSUME Days
    PROVE  /\ \A r \in Recurring : Item(r).amount \in Int /\ Item(r).cat \in Categories
           /\ \A c \in Cards : home.card[c].payment \in Int
           /\ home.debt \in [Debts -> [dir : {"receivable", "payable"}, amount : Int, due : Int \cup {None}]]
<1>1. PICK h \in Homes : h = home
  BY DEF Days
<1>2. IsHome(h)
  BY HouseholdConstants
<1>3. /\ \A r \in Recurring : ItemOf(h, r).amount \in Int /\ ItemOf(h, r).cat \in Categories
      /\ \A c \in Cards : h.card[c].payment \in Int
      /\ h.debt \in [Debts -> [dir : {"receivable", "payable"}, amount : Int, due : Int \cup {None}]]
  BY <1>2 DEF IsHome
<1> QED BY <1>1, <1>3 DEF Item, ItemOf

\* The terms of loans and funds, which do not change.
LEMMA TermsAreKnown ==
    ASSUME Days
    PROVE  /\ \A l \in Loans : home.loan[l].monthly \in Int /\ home.loan[l].rate \in Int
           /\ home.fund \in [Funds -> [cost : Int, emanet : BOOLEAN, coded : BOOLEAN, waiting : Nat]]
           /\ \A f \in Funds : home.fund[f].waiting > 0 => ~home.fund[f].coded
<1>1. PICK h \in Homes : h = home
  BY DEF Days
<1>2. IsHome(h)
  BY HouseholdConstants
<1>3. \A l \in Loans : h.loan[l].monthly \in Int /\ h.loan[l].rate \in Int
  <2>1. \A l \in Loans : {h.loan[l].monthly, h.loan[l].rate} \subseteq Int
    BY <1>2 DEF IsHome
  <2> QED BY ONLY <2>1
<1>4. /\ h.fund \in [Funds -> [cost : Int, emanet : BOOLEAN, coded : BOOLEAN, waiting : Nat]]
      /\ \A f \in Funds : h.fund[f].waiting > 0 => ~h.fund[f].coded
  BY <1>2 DEF IsHome
<1> QED BY <1>1, <1>3, <1>4

\* The latest day before tomorrow is today when today is one of them.
LEMMA LatestEarlier ==
    ASSUME NEW S \in SUBSET Int, NEW d \in S
    PROVE  Max({x \in S : x < d + 1}) = d
<1> DEFINE E == {x \in S : x < d + 1}
<1>1. d \in E /\ \A y \in E : d >= y /\ y \in Int
  OBVIOUS
<1> HIDE DEF E
<1>2. Max(E) \in E /\ \A y \in E : Max(E) >= y
  BY <1>1 DEF Max
<1>3. Max(E) >= d /\ d >= Max(E) /\ Max(E) \in Int /\ d \in Int
  BY <1>1, <1>2
<1> QED BY <1>3 DEF E

LEMMA BandIsInt == \A p : Band(p) \in Int
BY DEF Band

\* The debts at the bank follow the cards and the loans.
LEMMA SameDebts ==
    ASSUME UNCHANGED <<held, loan>>
    PROVE  BankDebt' = BankDebt
BY DEF BankDebt, CardDebt, LoanDebt, Total

\* Tomorrow compares with today's snapshot, which has the same debts and so the same band.
LEMMA NotTwice ==
    ASSUME Days, NextDay, day \in SnapDays, DebtAt(day) = BankDebt
    PROVE  FreshMilestone' = 0
<1>1. day' = day + 1 /\ snaps' = snaps /\ BankDebt' = BankDebt
  BY SameDebts DEF NextDay
<1>2. Max({d \in SnapDays' : d < day'}) = day
  BY <1>1, LatestEarlier DEF Days, SnapDays
<1>3. PICK d : d = day
  OBVIOUS
<1>4. DebtAt(d)' = BankDebt'
  BY <1>1, <1>3 DEF DebtAt
<1>5. ProgressOf(DebtAt(d))' = ProgressOf(BankDebt)'
  BY <1>4 DEF ProgressOf
<1>6. Band(ProgressOf(DebtAt(d)))' = Band(ProgressOf(BankDebt))' /\ Band(ProgressOf(BankDebt))' \in Int
  BY <1>5, BandIsInt DEF Band
<1>7. ~(Band(ProgressOf(BankDebt))' > Band(ProgressOf(DebtAt(d)))')
  BY <1>6
<1>8. FreshMilestone' = IF (HasProgress' /\ {x \in SnapDays : x < day}' # {} /\ Band(ProgressOf(BankDebt))' > Band(ProgressOf(DebtAt(d)))') THEN Band(ProgressOf(BankDebt))' ELSE 0
  BY <1>2, <1>3 DEF FreshMilestone
<1> QED BY <1>7, <1>8

\* A milestone is new only on the day it is reached: once that day's snapshot is written and the
\* debts stay, the night brings no second celebration (calculate_debt_progress, rules_engine.py).
THEOREM NewOnlyOnce == Spec => CelebratedOnce
<1>1. Days /\ [Next]_vars => [NextDay /\ day \in SnapDays /\ DebtAt(day) = BankDebt => FreshMilestone' = 0]_vars
  BY NotTwice
<1> QED BY <1>1, DaysInit, DaysStep, PTL DEF Spec, CelebratedOnce

-----------------------------------------------------------------------------
(* Nothing falls through. *)

\* A dated debt is overdue, in the forecast or beyond it.
LEMMA DatedDebtsAreSeen ==
    ASSUME Days, NEW d \in Debts \ paid, home.debt[d].due # None
    PROVE  \/ d \in Overdue(home.debt[d].dir)
           \/ \E e \in Events(Chips, day, ForecastEnd) : e.who = d /\ e.date = home.debt[d].due
           \/ home.debt[d].due > ForecastEnd
<1> DEFINE due == home.debt[d].due
           dir == home.debt[d].dir
<1>1. due \in Int /\ dir \in {"receivable", "payable"} /\ day \in Int /\ ForecastEnd \in Int
  BY HomeIsKnown, DaysInCalendar, HouseholdConstants DEF ForecastEnd
<1>2. d \in Unpaid(dir)
  BY DEF Unpaid
<1>3. CASE due < day
  BY <1>2, <1>3 DEF Overdue
<1>4. CASE due > ForecastEnd
  BY <1>4
<1>5. CASE ~(due < day) /\ ~(due > ForecastEnd)
  <2>1. d \in DueBetween(dir, day, ForecastEnd)
    BY <1>1, <1>2, <1>5 DEF DueBetween, Within
  <2>2. PICK x : x = IF dir = "receivable" THEN home.debt[d].amount ELSE -home.debt[d].amount
    OBVIOUS
  <2>3. Event(due, x, d) \in DebtEvents(dir, day, ForecastEnd)
    BY <2>1, <2>2 DEF DebtEvents
  <2>4. Event(due, x, d) \in Events(Chips, day, ForecastEnd)
    BY <1>1, <2>3 DEF Events, Chips
  <2>5. Event(due, x, d).who = d /\ Event(due, x, d).date = due
    BY DEF Event
  <2> QED BY <2>4, <2>5
<1> QED BY <1>3, <1>4, <1>5

\* The buckets of the aging are the parts of what is to be received.
LEMMA AgingIsWhole ==
    ASSUME Days
    PROVE  Total(DOMAIN Aging, LAMBDA b : Aging[b]) = Receivables
<1> DEFINE U == Unpaid("receivable")
           B == {"oldest", "older", "late", "not due", "undated"}
           w == [d \in U |-> home.debt[d].amount]
           part == [d \in U |-> Bucket(d)]
           s == [b \in B |-> SumFunctionOnSet(w, {d \in U : part[d] = b})]
<1>1. U \in SUBSET Debts /\ IsFiniteSet(U) /\ w \in [U -> Int]
  <2>1. U \in SUBSET Debts /\ IsFiniteSet(Debts)
    BY HouseholdConstants DEF Unpaid
  <2>2. \A d \in Debts : home.debt[d].amount \in Int
    BY HomeIsKnown
  <2> QED BY <2>1, <2>2, FS_Subset
<1>2. part \in [U -> B]
  BY DEF Bucket
<1>3. IsFiniteSet(B)
  <2>1. \A x : IsFiniteSet({x})
    BY FS_Singleton
  <2>2. \A S, x : IsFiniteSet(S) => IsFiniteSet(S \cup {x})
    BY FS_AddElement
  <2>3. B = ((({"oldest"} \cup {"older"}) \cup {"late"}) \cup {"not due"}) \cup {"undated"}
    OBVIOUS
  <2> HIDE DEF B
  <2> QED BY <2>1, <2>2, <2>3
<1>4. ASSUME NEW b \in B PROVE Owed({d \in U : Bucket(d) = b}) = s[b]
  <2> DEFINE D == {d \in U : Bucket(d) = b}
             v == [d \in D |-> home.debt[d].amount]
  <2>1. D = {d \in U : part[d] = b}
    OBVIOUS
  <2>2. D \in SUBSET U /\ IsFiniteSet(D) /\ v \in [D -> Int] /\ \A d \in D : v[d] = w[d]
    BY <1>1, FS_Subset
  <2>3. Owed(D) = SumFunctionOnSet(v, D)
    BY DEF Owed, Total
  <2>4. s[b] = SumFunctionOnSet(w, D)
    BY <2>1
  <2> HIDE DEF D, v, w, s, U
  <2>5. SumFunctionOnSet(v, D) = SumFunctionOnSet(w, D)
    <3>1. PICK S, E, f, g : S = D /\ E = U /\ f = v /\ g = w
      OBVIOUS
    <3>2. f \in [S -> Int] /\ g \in [E -> Int] /\ S \in SUBSET E
      BY <1>1, <2>2, <3>1
    <3>3. IsFiniteSet(S) /\ \A d \in S : g[d] = f[d]
      BY <2>2, <3>1
    <3>4. SumFunctionOnSet(f, S) = SumFunctionOnSet(g, S)
      BY <3>2, <3>3, SumOfTheseTerms
    <3> QED BY <3>1, <3>4
  <2> QED BY <2>3, <2>4, <2>5 DEF D
<1>5. DOMAIN Aging = B /\ \A b \in B : Aging[b] = s[b]
  BY <1>4 DEF Aging
<1>6. Total(DOMAIN Aging, LAMBDA b : Aging[b]) = SumFunctionOnSet(s, B)
  <2>1. [b \in DOMAIN Aging |-> Aging[b]] = s
    BY <1>5
  <2>2. Total(DOMAIN Aging, LAMBDA b : Aging[b]) = SumFunctionOnSet([b \in DOMAIN Aging |-> Aging[b]], DOMAIN Aging)
    BY DEF Total
  <2> QED BY <1>5, <2>1, <2>2
<1>7. Receivables = SumFunctionOnSet(w, U)
  BY DEF Receivables, Owed, Total
<1>8. Parts(s, w, U, part, B)
  BY DEF Parts
<1> HIDE DEF w, s, U, B, part
<1>9. SumFunctionOnSet(s, B) = SumFunctionOnSet(w, U)
  BY <1>1, <1>2, <1>3, <1>8, SumByParts
<1> QED BY <1>6, <1>7, <1>9

\* A card's reminder is an event of the longer list too: K.soon <= K.ahead.
LEMMA CardRemindersAreListed ==
    ASSUME Days, NEW r \in Reminders, r.who \in Cards
    PROVE  \E u \in UpcomingPayments : u.who = r.who /\ u.date = r.date /\ u.amount = r.amount
<1>1. /\ Cards \cap (Recurring \cup Debts) = {}
      /\ K.soon \in Int /\ K.ahead \in Int /\ K.soon <= K.ahead
  BY HouseholdConstants
<1>2. PICK c \in CardsDue : Soon(CardDate(c)) /\ r = Upcoming("risk", c, CardDate(c), Due(c))
  <2>1. ASSUME NEW x \in Recurring,
               r = [Upcoming("recurring", x, NextDue(day, Item(x).day), Item(x).amount)
                      EXCEPT !.what = IF x \in Expenses /\ Overdrawn(x) THEN "risk" ELSE @]
        PROVE  FALSE
    <3>1. r.who = x
      BY <2>1 DEF Upcoming
    <3> QED BY <1>1, <2>1, <3>1
  <2>2. ASSUME NEW d \in Debts, r = Upcoming("debt", d, home.debt[d].due, home.debt[d].amount)
        PROVE  FALSE
    <3>1. r.who = d
      BY <2>2 DEF Upcoming
    <3> QED BY <1>1, <2>2, <3>1
  <2> QED BY <2>1, <2>2 DEF Reminders
<1>3. c \in Cards /\ CardDate(c) \in Int
  <2>1. c \in Cards /\ home.card[c].payment \in Int
    BY HomeIsKnown DEF CardsDue
  <2>2. Clamped(Month, home.card[c].payment) \in Int /\ Clamped(Month + 1, home.card[c].payment) \in Int
    BY <2>1, DatesAreNumbers, DaysInCalendar
  <2> QED BY <2>1, <2>2 DEF CardDate, NextDue, Month
<1>4. CardDate(c) <= day + K.ahead
  BY <1>1, <1>2, <1>3, DaysInCalendar DEF Soon
<1>5. PICK u : u = Upcoming("card", c, CardDate(c), Due(c))
  OBVIOUS
<1>6. u \in UpcomingPayments
  BY <1>2, <1>4, <1>5 DEF UpcomingPayments, UpcomingCards
<1>7. u.who = r.who /\ u.date = r.date /\ u.amount = r.amount
  BY <1>2, <1>5 DEF Upcoming
<1> QED BY <1>6, <1>7

\* Every dated debt is overdue, in the forecast or beyond it, every receivable in one bucket of
\* the aging, and every card reminder in the list of payments (rules_engine.py).
THEOREM NothingIsLost == Spec => []NothingFallsThrough
<1>1. Days => NothingFallsThrough
  BY DatedDebtsAreSeen, AgingIsWhole, CardRemindersAreListed DEF NothingFallsThrough
<1> QED BY <1>1, DaysInit, DaysStep, PTL DEF Spec

-----------------------------------------------------------------------------
(* One set of books. *)

\* What the accounts, statements, loans and funds hold.
FundRow == [lots : Nat, price : Int, stamp : Int \cup {None}]
Money ==
    /\ held \in [Accounts -> Int] /\ real \in [Accounts -> Int]
    /\ statement \in [Cards -> Int \cup {None}]
    /\ DOMAIN loan = Loans /\ \A l \in Loans : loan[l].balance \in Int
    /\ fund \in [Funds -> FundRow]

\* What a transaction says.
Entered(R) == \A e \in R : e.date \in Int /\ e.amount \in Int /\ e.cat \in Categories
Written == \E R : log \in Seq(R) /\ Entered(R)

\* IsHome starts both.
LEMMA MoneyInit == Init => Money /\ Written
<1> SUFFICES ASSUME NEW h \in Homes, Start(h) PROVE Money /\ Written
  BY DEF Init
<1>1. IsHome(h)
  BY HouseholdConstants
<1>2. Money
  <2>1. /\ h.held \in [Accounts -> Int] /\ h.statement \in [Cards -> Int \cup {None}]
        /\ h.loans \in [Loans -> [balance : Int, next : Int \cup {None}, left : Int \cup {None}]]
        /\ h.funds \in [Funds -> FundRow]
    BY <1>1 DEF IsHome, FundRow
  <2> QED BY <2>1 DEF Start, Money
<1>3. Written
  <2>1. PICK R : R = Range(h.log)
    OBVIOUS
  <2>2. h.log \in Seq(R) /\ \A n \in DOMAIN h.log : {h.log[n].date, h.log[n].amount} \subseteq Int /\ h.log[n].cat \in Categories
    BY <1>1, <2>1 DEF IsHome
  <2>3. Entered(R)
    BY <2>1, <2>2 DEF Entered, Range
  <2>4. log \in Seq(R)
    BY <2>2 DEF Start
  <2> QED BY <2>3, <2>4 DEF Written
<1> QED BY <1>2, <1>3

\* Moving numbers between accounts that hold numbers.
LEMMA MoveMoves ==
    ASSUME NEW S, NEW b \in [S -> Int], NEW x, \A a \in DOMAIN x : x[a] \in Int
    PROVE  /\ Move(b, x) \in [S -> Int]
           /\ \A a \in S : Move(b, x)[a] = b[a] + (IF a \in DOMAIN x THEN x[a] ELSE 0)
BY DEF Move

LEMMA LegIsInt == ASSUME NEW a, NEW x \in Int PROVE \A c \in DOMAIN Leg(a, x) : Leg(a, x)[c] \in Int
BY DEF Leg

\* One instalment is one step of the loan's recursion.
LEMMA InstalmentIsInt ==
    ASSUME Days, NEW l \in Loans, NEW balance \in Int
    PROVE  AfterInstalments(balance, l, 1) \in Int
<1> DEFINE G(owed) == Greater(0, owed + (owed * home.loan[l].rate) \div 100 - home.loan[l].monthly)
           Is(f) == f = [k \in 0 .. 1 |-> IF k = 0 THEN balance ELSE G(f[k - 1])]
           left == CHOOSE f : Is(f)
<1>1. AfterInstalments(balance, l, 1) = left[1]
  BY DEF AfterInstalments
<1>2. \A owed \in Int : G(owed) \in Int
  BY TermsAreKnown DEF Greater
<1> HIDE DEF G
<1>3. \E f : Is(f)
  <2> DEFINE f == [k \in 0 .. 1 |-> IF k = 0 THEN balance ELSE G(balance)]
  <2>1. \A k \in 0 .. 1 : f[k] = IF k = 0 THEN balance ELSE G(f[k - 1])
    OBVIOUS
  <2>2. f = [k \in 0 .. 1 |-> f[k]]
    OBVIOUS
  <2> HIDE DEF f
  <2>3. Is(f)
    BY <2>1, <2>2
  <2> QED BY <2>3
<1>4. Is(left)
  BY <1>3
<1> HIDE DEF left
<1>5. left[0] = balance /\ left[1] = G(left[0])
  BY <1>4
<1> QED BY <1>1, <1>2, <1>5

LEMMA WithheldIsInt == \A profit \in Int : Withheld(profit) \in Int
BY HouseholdConstants DEF Withheld

\* One more transaction of numbers.
LEMMA OneMoreIsWritten ==
    ASSUME Written, NEW e, log' = Append(log, e), e.date \in Int, e.amount \in Int, e.cat \in Categories
    PROVE  Written'
<1>1. PICK R : log \in Seq(R) /\ Entered(R)
  BY DEF Written
<1>2. log' \in Seq(R \cup {e})
  BY <1>1
<1>3. Entered(R \cup {e})
  BY <1>1 DEF Entered
<1> QED BY <1>2, <1>3 DEF Written

\* Amounts that are moved are numbers, so balances stay numbers.
LEMMA BalancesMove ==
    ASSUME Days, Money
    PROVE  /\ \A d \in Debts : Settle(d) => held' \in [Accounts -> Int] /\ real' \in [Accounts -> Int]
           /\ \A c \in Cards : PayCard(c, Due(c)) => held' \in [Accounts -> Int] /\ real' \in [Accounts -> Int]
           /\ \A l \in Loans : PayInstalment(l) => held' \in [Accounts -> Int] /\ real' \in [Accounts -> Int]
           /\ \A x \in Int, cat \in Categories : Spend(x, cat) => held' \in [Accounts -> Int] /\ real' \in [Accounts -> Int]
           /\ \A f \in Funds : Sell(f, 1) => held' \in [Accounts -> Int] /\ real' \in [Accounts -> Int]
           /\ \A r \in Recurring : Book(r) => real' \in [Accounts -> Int]
<1>0. held \in [Accounts -> Int] /\ real \in [Accounts -> Int]
  BY DEF Money
<1>1. ASSUME NEW d \in Debts, Settle(d) PROVE held' \in [Accounts -> Int] /\ real' \in [Accounts -> Int]
  <2>1. PICK x \in Int : x = Sign(d) * home.debt[d].amount
    BY HomeIsKnown DEF Sign
  <2>2. held' = Move(held, Leg(Purse, x)) /\ real' = Move(real, Leg(Purse, x))
    BY <1>1, <2>1 DEF Settle
  <2> QED BY <1>0, <2>2, LegIsInt, MoveMoves
<1>2. ASSUME NEW c \in Cards, PayCard(c, Due(c)) PROVE held' \in [Accounts -> Int] /\ real' \in [Accounts -> Int]
  <2>1. PICK x : x = Due(c)
    OBVIOUS
  <2>2. x \in Int
    BY <1>0, <1>2, <2>1, HouseholdConstants DEF Due, Money, Accounts
  <2>3. PICK legs : legs = [a \in {Purse, c} |-> -x]
    OBVIOUS
  <2>4. \A a \in DOMAIN legs : legs[a] \in Int
    BY <2>2, <2>3
  <2>5. held' = Move(held, legs) /\ real' = Move(real, legs)
    BY <1>2, <2>1, <2>3 DEF PayCard
  <2> QED BY <1>0, <2>4, <2>5, MoveMoves
<1>3. ASSUME NEW l \in Loans, PayInstalment(l) PROVE held' \in [Accounts -> Int] /\ real' \in [Accounts -> Int]
  <2>1. PICK x \in Int : x = -home.loan[l].monthly
    BY TermsAreKnown
  <2>2. held' = Move(held, Leg(Purse, x)) /\ real' = Move(real, Leg(Purse, x))
    BY <1>3, <2>1 DEF PayInstalment
  <2> QED BY <1>0, <2>2, LegIsInt, MoveMoves
<1>4. ASSUME NEW y \in Int, NEW cat \in Categories, Spend(y, cat) PROVE held' \in [Accounts -> Int] /\ real' \in [Accounts -> Int]
  <2>1. PICK x \in Int : x = -y
    OBVIOUS
  <2>2. held' = Move(held, Leg(Purse, x)) /\ real' = Move(real, Leg(Purse, x))
    BY <1>4, <2>1 DEF Spend
  <2> QED BY <1>0, <2>2, LegIsInt, MoveMoves
<1>5. ASSUME NEW f \in Funds, Sell(f, 1) PROVE held' \in [Accounts -> Int] /\ real' \in [Accounts -> Int]
  <2>1. fund[f].price \in Int /\ home.fund[f].cost \in Int
    BY TermsAreKnown DEF Money, FundRow
  <2>2. Withheld(1 * (fund[f].price - home.fund[f].cost)) \in Int
    BY <2>1, WithheldIsInt
  <2>3. PICK x \in Int : x = 1 * fund[f].price - Withheld(1 * (fund[f].price - home.fund[f].cost))
    BY <2>1, <2>2
  <2>4. held' = Move(held, Leg(Purse, x)) /\ real' = Move(real, Leg(Purse, x))
    BY <1>5, <2>3 DEF Sell
  <2> QED BY <1>0, <2>4, LegIsInt, MoveMoves
<1>6. ASSUME NEW r \in Recurring, Book(r) PROVE real' \in [Accounts -> Int]
  <2>1. PICK x \in Int : x = Item(r).amount
    BY HomeIsKnown
  <2>2. real' = Move(real, IF r \in Incomes THEN Leg(Purse, x) ELSE Pays(Item(r).from, x))
    BY <1>6, <2>1 DEF Book
  <2>3. CASE real' = Move(real, Leg(Purse, x))
    BY <1>0, <2>3, LegIsInt, MoveMoves
  <2>4. CASE real' = Move(real, Leg(Item(r).from, x))
    <3>1. PICK a : a = Item(r).from
      OBVIOUS
    <3> QED BY <1>0, <2>4, <3>1, LegIsInt, MoveMoves
  <2>5. CASE real' = Move(real, Leg(Purse, -x))
    <3>1. PICK y \in Int : y = -x
      OBVIOUS
    <3> QED BY <1>0, <2>5, <3>1, LegIsInt, MoveMoves
  <2> QED BY <2>2, <2>3, <2>4, <2>5 DEF Pays
<1> QED BY <1>1, <1>2, <1>3, <1>4, <1>5, <1>6

\* One step per action for the balances, and one per action that writes a transaction.
LEMMA MoneyStep == Days /\ Money /\ [Next]_vars => Money'
<1> SUFFICES ASSUME Days, Money, [Next]_vars PROVE Money'
  OBVIOUS
<1> USE DEF Money
<1>1. ASSUME NEW r \in Recurring, Book(r) PROVE Money'
  BY <1>1, BalancesMove DEF Book
<1>2. ASSUME NEW a \in Accounts, TypeIn(a) PROVE Money'
  BY <1>2 DEF TypeIn
<1>3. ASSUME NEW d \in Debts, Settle(d) PROVE Money'
  BY <1>3, BalancesMove DEF Settle
<1>4. ASSUME NEW c \in Cards, PayCard(c, Due(c)) PROVE Money'
  BY <1>4, BalancesMove DEF PayCard
<1>5. ASSUME NEW c \in Cards, CutStatement(c) PROVE Money'
  <2>1. held[c] \in Int /\ statement' = [statement EXCEPT ![c] = held[c]]
    BY <1>5 DEF CutStatement, Accounts
  <2>2. statement' \in [Cards -> Int \cup {None}]
    BY <2>1
  <2> QED BY <1>5, <2>2 DEF CutStatement
<1>6. ASSUME NEW l \in Loans, PayInstalment(l) PROVE Money'
  <2>1. PICK next, left, b : /\ b = AfterInstalments(loan[l].balance, l, 1)
                             /\ loan' = [loan EXCEPT ![l] = [balance |-> b, next |-> next, left |-> left]]
    BY <1>6 DEF PayInstalment
  <2>2. b \in Int
    BY <2>1, InstalmentIsInt
  <2>3. DOMAIN loan' = Loans /\ \A k \in Loans : loan'[k].balance \in Int
    BY <2>1, <2>2
  <2> QED BY <1>6, <2>3, BalancesMove DEF PayInstalment
<1>7. ASSUME NEW p \in Purchases, Spend(p[1], p[2]) PROVE Money'
  <2>1. p[1] \in Int /\ p[2] \in Categories
    BY HouseholdConstants
  <2>2. held' \in [Accounts -> Int] /\ real' \in [Accounts -> Int]
    BY <1>7, <2>1, BalancesMove
  <2> QED BY <1>7, <2>2 DEF Spend
<1>8. ASSUME NEW f \in Funds, Sell(f, 1) PROVE Money'
  <2>1. fund[f] \in FundRow /\ 1 <= fund[f].lots /\ day \in Int
    BY <1>8, DaysInCalendar DEF Sell
  <2>2. PICK old \in FundRow, today \in Int : old = fund[f] /\ today = day /\ 1 <= old.lots
    BY <2>1
  <2>3. [old EXCEPT !.lots = old.lots - 1, !.stamp = today] \in FundRow
    <3>1. PICK left \in Nat : left = old.lots - 1
      BY <2>2 DEF FundRow
    <3>2. [old EXCEPT !.lots = left, !.stamp = today] \in FundRow
      BY DEF FundRow
    <3> QED BY <3>1, <3>2
  <2>4. fund' = [fund EXCEPT ![f] = [old EXCEPT !.lots = old.lots - 1, !.stamp = today]]
    BY <1>8, <2>2 DEF Sell, FundRow
  <2>5. fund' \in [Funds -> FundRow]
    BY <2>3, <2>4
  <2> QED BY <1>8, <2>5, BalancesMove DEF Sell
<1>9. ASSUME UNCHANGED <<held, real, statement, loan, fund>> PROVE Money'
  BY <1>9
<1>10. ASSUME OpenPanel \/ NextDay \/ UNCHANGED vars PROVE UNCHANGED <<held, real, statement, loan, fund>>
  BY <1>10 DEF OpenPanel, NextDay, vars, books
<1> QED BY <1>1, <1>2, <1>3, <1>4, <1>5, <1>6, <1>7, <1>8, <1>9, <1>10 DEF Next

LEMMA WrittenStep == Days /\ Written /\ [Next]_vars => Written'
<1> SUFFICES ASSUME Days, Written, [Next]_vars PROVE Written'
  OBVIOUS
<1>1. ASSUME NEW r \in Recurring, Book(r) PROVE Written'
  <2>1. PICK e : e = Entry(day, IF r \in Incomes THEN "income" ELSE "expense", Item(r).cat, Item(r).amount, r)
    OBVIOUS
  <2>2. e.date \in Int /\ e.amount \in Int /\ e.cat \in Categories
    BY <2>1, HomeIsKnown, DaysInCalendar DEF Entry
  <2>3. log' = Append(log, e)
    BY <1>1, <2>1 DEF Book
  <2> QED BY <2>2, <2>3, OneMoreIsWritten
<1>2. ASSUME NEW p \in Purchases, Spend(p[1], p[2]) PROVE Written'
  <2>1. PICK e : e = Entry(day, "expense", p[2], p[1], None)
    OBVIOUS
  <2>2. e.date \in Int /\ e.amount \in Int /\ e.cat \in Categories
    BY <2>1, HouseholdConstants, DaysInCalendar DEF Entry
  <2>3. log' = Append(log, e)
    BY <1>2, <2>1 DEF Spend
  <2> QED BY <2>2, <2>3, OneMoreIsWritten
<1>3. ASSUME log' = log PROVE Written'
  BY <1>3 DEF Written
<1> QED BY <1>1, <1>2, <1>3 DEF Next, vars, books, OpenPanel, NextDay, TypeIn, Settle, PayCard, CutStatement, PayInstalment, Sell

\* What is spent and earned, as one sum over the transactions.
Amounts == [n \in DOMAIN log |-> log[n].amount]

LEMMA LogIsKnown ==
    ASSUME Written
    PROVE  /\ IsFiniteSet(DOMAIN log) /\ Amounts \in [DOMAIN log -> Int]
           /\ \A n \in DOMAIN log : log[n].date \in Int /\ log[n].cat \in Categories
<1>1. PICK R : log \in Seq(R) /\ Entered(R)
  BY DEF Written
<1>2. DOMAIN log = 1 .. Len(log) /\ Len(log) \in Nat /\ \A n \in DOMAIN log : log[n] \in R
  BY <1>1
<1>3. IsFiniteSet(DOMAIN log)
  BY <1>2, FS_Interval
<1> QED BY <1>1, <1>2, <1>3 DEF Entered, Amounts

LEMMA WorthIsSum ==
    ASSUME Written, NEW N \in SUBSET DOMAIN log
    PROVE  IsFiniteSet(N) /\ Worth(N) = SumFunctionOnSet(Amounts, N) /\ Worth(N) \in Int
<1>1. IsFiniteSet(N) /\ Amounts \in [DOMAIN log -> Int]
  BY LogIsKnown, FS_Subset
<1>2. PICK v : v = [n \in N |-> log[n].amount]
  OBVIOUS
<1>3. v \in [N -> Int] /\ \A n \in N : Amounts[n] = v[n]
  BY <1>1, <1>2 DEF Amounts
<1>4. Worth(N) = SumFunctionOnSet(v, N)
  BY <1>2 DEF Worth, Total
<1>5. PICK w, D : w = Amounts /\ D = DOMAIN log
  OBVIOUS
<1>6. w \in [D -> Int] /\ N \in SUBSET D /\ \A n \in N : w[n] = v[n]
  BY <1>1, <1>3, <1>5
<1>7. SumFunctionOnSet(v, N) = SumFunctionOnSet(w, N)
  BY <1>1, <1>3, <1>6, SumOfTheseTerms
<1>8. SumFunctionOnSet(w, N) \in Int
  BY <1>1, <1>6, SumIsInt
<1> QED BY <1>1, <1>4, <1>5, <1>7, <1>8

\* Transactions that fall apart into parts are worth what the parts are worth.
LEMMA WorthByParts ==
    ASSUME Written, NEW N \in SUBSET DOMAIN log, NEW B, IsFiniteSet(B), NEW part \in [N -> B],
           NEW s, s = [b \in B |-> Worth({n \in N : part[n] = b})]
    PROVE  SumFunctionOnSet(s, B) = Worth(N)
<1>1. IsFiniteSet(N) /\ Worth(N) = SumFunctionOnSet(Amounts, N) /\ Amounts \in [DOMAIN log -> Int]
  BY WorthIsSum, LogIsKnown
<1>2. PICK w : w = [n \in N |-> Amounts[n]]
  OBVIOUS
<1>3. w \in [N -> Int]
  BY <1>1, <1>2
<1>4. ASSUME NEW M \in SUBSET N PROVE SumFunctionOnSet(w, M) = Worth(M)
  <2>1. IsFiniteSet(M) /\ Worth(M) = SumFunctionOnSet(Amounts, M)
    BY WorthIsSum
  <2>2. PICK a, D : a = Amounts /\ D = DOMAIN log
    OBVIOUS
  <2>3. a \in [D -> Int] /\ M \in SUBSET D /\ \A n \in M : w[n] = a[n]
    BY <1>1, <1>2, <2>2
  <2>4. SumFunctionOnSet(w, M) = SumFunctionOnSet(a, M)
    BY <1>3, <2>1, <2>3, SumOfSameTerms
  <2> QED BY <2>1, <2>2, <2>4
<1>5. Parts(s, w, N, part, B)
  <2>1. \A b \in B : SumFunctionOnSet(w, {n \in N : part[n] = b}) = Worth({n \in N : part[n] = b})
    BY <1>4
  <2> QED BY <2>1 DEF Parts
<1>6. SumFunctionOnSet(s, B) = SumFunctionOnSet(w, N)
  <2>1. IsFiniteSet(N)
    BY <1>1
  <2> QED BY <1>3, <1>5, <2>1, SumByParts
<1>7. SumFunctionOnSet(w, N) = Worth(N)
  BY <1>4
<1> QED BY <1>6, <1>7

\* The months up to this one.
LEMMA MonthsAddUp ==
    ASSUME Days, Written, NEW type,
           NEW s, s = [k \in 1 .. Month |-> Worth(Entries(type, FirstOf[k], LastOf[k]))]
    PROVE  /\ SumFunctionOnSet(s, 1 .. Month) = Worth(Entries(type, 1, EndOfMonth(day)))
           /\ s \in [1 .. Month -> Int]
<1> DEFINE N == Entries(type, 1, EndOfMonth(day))
           part == [n \in N |-> MonthOf[log[n].date]]
<1>1. PICK M \in Months : M = Month
  BY DaysInCalendar
<1>2. EndOfMonth(day) = LastOf[M] /\ 1 .. M \subseteq Months /\ M \in Nat
  BY <1>1, FirstsOfMonths DEF EndOfMonth, Month, Months
<1>3. \A k \in 1 .. M : 1 <= FirstOf[k] /\ LastOf[k] <= LastOf[M] /\ FirstOf[k] \in Int /\ LastOf[k] \in Int
  <2>1. ASSUME NEW k \in 1 .. M PROVE 1 <= FirstOf[k] /\ LastOf[k] <= LastOf[M] /\ FirstOf[k] \in Int /\ LastOf[k] \in Int
    <3>1. /\ k \in Months /\ FirstOf[k] \in Int /\ LastOf[k] \in Int /\ 1 <= FirstOf[k]
          /\ FirstOf[M] \in Int /\ LastOf[M] \in Int /\ FirstOf[M] <= LastOf[M]
      BY <1>2, MonthsInOrder
    <3>2. CASE k = M
      BY <3>1, <3>2
    <3>3. CASE k < M
      <4>1. LastOf[k] < FirstOf[M]
        BY <3>1, <3>3, MonthsInOrder
      <4> QED BY <3>1, <4>1
    <3> QED BY <1>2, <3>2, <3>3
  <2> QED BY <2>1
<1>4. LastOf[M] <= LastOf[Len(Lengths)] /\ LastOf[M] \in Int /\ LastOf[Len(Lengths)] \in Int
  <2>1. M \in Int /\ Len(Lengths) \in Months /\ M <= Len(Lengths)
    BY FirstsOfMonths DEF Months
  <2>2. /\ LastOf[M] \in Int /\ LastOf[Len(Lengths)] \in Int /\ FirstOf[Len(Lengths)] \in Int
        /\ FirstOf[Len(Lengths)] <= LastOf[Len(Lengths)]
    BY <2>1, MonthsInOrder
  <2>3. CASE M = Len(Lengths)
    BY <2>2, <2>3
  <2>4. CASE M < Len(Lengths)
    <3>1. LastOf[M] < FirstOf[Len(Lengths)]
      BY <2>1, <2>4, MonthsInOrder
    <3> QED BY <2>2, <3>1
  <2> QED BY <2>1, <2>3, <2>4, FirstsOfMonths
<1>5. N \in SUBSET DOMAIN log /\ \A n \in N : log[n].date \in Dates /\ log[n].date <= LastOf[M] /\ log[n].type = type
  BY <1>2, <1>4 DEF Entries, Dates
<1>6. ASSUME NEW n \in N PROVE MonthOf[log[n].date] \in 1 .. M
  <2>1. PICK e \in Dates : e = log[n].date /\ e <= LastOf[M]
    BY <1>5
  <2>2. PICK m \in Months : m = MonthOf[e] /\ e \in FirstOf[m] .. LastOf[m]
    BY <2>1, MonthOfDate
  <2>3. m \in Int /\ 1 <= m /\ M \in Int /\ FirstOf[m] \in Int /\ LastOf[m] \in Int /\ e \in Int
    <3>1. FirstOf[m] \in Int /\ LastOf[m] \in Int /\ e \in Int
      BY DatesAreNumbers
    <3>2. m \in Int /\ 1 <= m /\ M \in Int
      BY FirstsOfMonths DEF Months
    <3> QED BY <3>1, <3>2
  <2>4. ~(M < m)
    <3>1. ASSUME M < m PROVE FALSE
      <4>1. LastOf[M] < FirstOf[m]
        BY <3>1, MonthsInOrder
      <4> QED BY <1>4, <2>1, <2>2, <2>3, <4>1
    <3> QED BY <3>1
  <2> QED BY <2>1, <2>2, <2>3, <2>4
<1>7. ASSUME NEW k \in 1 .. M
      PROVE  {n \in N : part[n] = k} = Entries(type, FirstOf[k], LastOf[k])
  <2>1. ASSUME NEW n \in N, MonthOf[log[n].date] = k PROVE n \in Entries(type, FirstOf[k], LastOf[k])
    <3>1. log[n].date \in FirstOf[k] .. LastOf[k] /\ n \in DOMAIN log /\ log[n].type = type
      BY <1>5, <2>1, MonthOfDate
    <3> QED BY <3>1 DEF Entries
  <2>2. ASSUME NEW n \in Entries(type, FirstOf[k], LastOf[k]) PROVE n \in N /\ MonthOf[log[n].date] = k
    <3>1. n \in DOMAIN log /\ log[n].type = type /\ log[n].date \in FirstOf[k] .. LastOf[k]
      BY <2>2 DEF Entries
    <3>2. log[n].date \in 1 .. LastOf[M]
      BY <1>3, <1>4, <3>1
    <3>3. n \in N
      BY <1>2, <3>1, <3>2 DEF Entries
    <3>4. log[n].date \in Dates /\ k \in Months
      BY <1>2, <1>5, <3>3
    <3> HIDE DEF N
    <3> QED BY <3>1, <3>3, <3>4, MonthOfDate
  <2>3. \A n \in N : part[n] = MonthOf[log[n].date]
    OBVIOUS
  <2> HIDE DEF N, part
  <2>4. \A n \in {i \in N : part[i] = k} : n \in Entries(type, FirstOf[k], LastOf[k])
    BY <2>1, <2>3
  <2>5. \A n \in Entries(type, FirstOf[k], LastOf[k]) : n \in {i \in N : part[i] = k}
    BY <2>2, <2>3
  <2> QED BY <2>4, <2>5
<1>8. part \in [N -> 1 .. M] /\ IsFiniteSet(1 .. M)
  BY <1>2, <1>6, FS_Interval
<1>9. s = [k \in 1 .. M |-> Worth({n \in N : part[n] = k})]
  BY <1>1, <1>7
<1>10. s \in [1 .. M -> Int]
  <2>1. \A k \in 1 .. M : {n \in N : part[n] = k} \in SUBSET DOMAIN log
    BY <1>5
  <2> HIDE DEF N, part
  <2>2. \A k \in 1 .. M : Worth({n \in N : part[n] = k}) \in Int
    BY <2>1, WorthIsSum
  <2> QED BY <1>9, <2>2
<1> HIDE DEF N, part
<1>11. SumFunctionOnSet(s, 1 .. M) = Worth(N)
  <2>1. PICK P, p, B : P = N /\ p = part /\ B = 1 .. M
    OBVIOUS
  <2>2. P \in SUBSET DOMAIN log /\ IsFiniteSet(B) /\ p \in [P -> B] /\ s = [b \in B |-> Worth({n \in P : p[n] = b})]
    BY <1>5, <1>8, <1>9, <2>1
  <2>3. SumFunctionOnSet(s, B) = Worth(P)
    BY <2>2, WorthByParts
  <2> QED BY <2>1, <2>3
<1> QED BY <1>1, <1>10, <1>11 DEF N

\* MonthlySeries against the aggregates up to the end of this month: the months are its parts.
LEMMA SeriesAgrees ==
    ASSUME Days, Written, NEW months, months = MonthlySeries(Month, Month)
    PROVE  SumFunctionOnSet([k \in DOMAIN months |-> months[k].net], DOMAIN months) = Aggregates(1, EndOfMonth(day)).net
<1> DEFINE income == [k \in 1 .. Month |-> Worth(Entries("income", FirstOf[k], LastOf[k]))]
           expense == [k \in 1 .. Month |-> Worth(Entries("expense", FirstOf[k], LastOf[k]))]
           net == [k \in DOMAIN months |-> months[k].net]
<1>1. Month \in Nat /\ IsFiniteSet(1 .. Month)
  BY DaysInCalendar, FirstsOfMonths, FS_Interval DEF Months
<1>2. DOMAIN months = 1 .. Month
  BY DEF MonthlySeries
<1>3. ASSUME NEW k \in 1 .. Month PROVE net[k] = income[k] - expense[k]
  <2>1. Month - Month + k = k
    BY <1>1
  <2>2. months[k].net = OfMonth(Month - Month + k).net
    BY <1>3 DEF MonthlySeries
  <2>3. OfMonth(k).net = Worth(Entries("income", FirstOf[k], LastOf[k])) - Worth(Entries("expense", FirstOf[k], LastOf[k]))
    BY DEF OfMonth, Aggregates
  <2>4. net[k] = OfMonth(k).net
    BY <1>2, <2>1, <2>2
  <2>5. income[k] = Worth(Entries("income", FirstOf[k], LastOf[k])) /\ expense[k] = Worth(Entries("expense", FirstOf[k], LastOf[k]))
    OBVIOUS
  <2> HIDE DEF income, expense, net
  <2> QED BY <2>3, <2>4, <2>5
<1>4. /\ SumFunctionOnSet(income, 1 .. Month) = Worth(Entries("income", 1, EndOfMonth(day)))
      /\ income \in [1 .. Month -> Int]
  BY MonthsAddUp
<1>5. /\ SumFunctionOnSet(expense, 1 .. Month) = Worth(Entries("expense", 1, EndOfMonth(day)))
      /\ expense \in [1 .. Month -> Int]
  BY MonthsAddUp
<1>6. SumFunctionOnSet([k \in DOMAIN months |-> months[k].net], DOMAIN months) = SumFunctionOnSet(net, DOMAIN months)
  OBVIOUS
<1>7. DOMAIN net = 1 .. Month /\ net = [k \in DOMAIN net |-> net[k]]
  BY <1>2
<1> HIDE DEF income, expense, net
<1>8. net \in [1 .. Month -> Int] /\ \A k \in 1 .. Month : income[k] = net[k] + expense[k]
  <2>1. \A k \in 1 .. Month : income[k] \in Int /\ expense[k] \in Int
    BY <1>4, <1>5
  <2> QED BY <1>3, <1>7, <2>1
<1>9. SumFunctionOnSet(income, 1 .. Month) = SumFunctionOnSet(net, 1 .. Month) + SumFunctionOnSet(expense, 1 .. Month)
  <2>1. PICK D : D = 1 .. Month
    OBVIOUS
  <2>2. IsFiniteSet(D) /\ income \in [D -> Int] /\ net \in [D -> Int] /\ expense \in [D -> Int] /\ \A k \in D : income[k] = net[k] + expense[k]
    BY <1>1, <1>4, <1>5, <1>8, <2>1
  <2>3. SumFunctionOnSet(income, D) = SumFunctionOnSet(net, D) + SumFunctionOnSet(expense, D)
    BY <2>2, SumsAdd
  <2> QED BY <2>1, <2>3
<1>10. SumFunctionOnSet(net, 1 .. Month) \in Int /\ SumFunctionOnSet(expense, 1 .. Month) \in Int
  BY <1>1, <1>5, <1>8, SumIsInt
<1>11. Aggregates(1, EndOfMonth(day)).net = Worth(Entries("income", 1, EndOfMonth(day))) - Worth(Entries("expense", 1, EndOfMonth(day)))
  BY DEF Aggregates
<1> QED BY <1>2, <1>4, <1>5, <1>6, <1>9, <1>10, <1>11

\* The month so far by category against the month so far: the categories are its parts.
LEMMA CategoriesAgree ==
    ASSUME Days, Written
    PROVE  Total(Categories, LAMBDA c : SoFar.of[c]) = SoFar.expense
<1> DEFINE N == Entries("expense", FirstOf[Month], day)
           part == [n \in N |-> log[n].cat]
           s == [c \in Categories |-> SoFar.of[c]]
<1>1. N \in SUBSET DOMAIN log /\ IsFiniteSet(Categories)
  BY HouseholdConstants DEF Entries
<1>2. part \in [N -> Categories]
  BY <1>1, LogIsKnown
<1>3. ASSUME NEW c \in Categories PROVE SoFar.of[c] = Worth({n \in N : part[n] = c})
  <2>1. {n \in N : log[n].cat = c} = {n \in N : part[n] = c}
    OBVIOUS
  <2>2. SoFar.of[c] = Spent(c, FirstOf[Month], day)
    BY DEF SoFar, Aggregates
  <2>3. Spent(c, FirstOf[Month], day) = Worth({n \in N : log[n].cat = c})
    BY DEF Spent
  <2> QED BY <2>1, <2>2, <2>3
<1>4. s = [c \in Categories |-> Worth({n \in N : part[n] = c})]
  BY <1>3
<1>5. SoFar.expense = Worth(N)
  BY DEF SoFar, Aggregates
<1>6. Total(Categories, LAMBDA c : SoFar.of[c]) = SumFunctionOnSet(s, Categories)
  BY DEF Total
<1> HIDE DEF N, part, s
<1>7. SumFunctionOnSet(s, Categories) = Worth(N)
  <2>1. PICK P, p, B, t : P = N /\ p = part /\ B = Categories /\ t = s
    OBVIOUS
  <2>2. P \in SUBSET DOMAIN log /\ IsFiniteSet(B) /\ p \in [P -> B] /\ t = [b \in B |-> Worth({n \in P : p[n] = b})]
    BY <1>1, <1>2, <1>4, <2>1
  <2>3. SumFunctionOnSet(t, B) = Worth(P)
    BY <2>2, WorthByParts
  <2> QED BY <2>1, <2>3
<1> QED BY <1>5, <1>6, <1>7

\* Two windows that follow each other against the window of both.
LEMMA WindowsAgree ==
    ASSUME Days, Written, NEW c
    PROVE  Pattern(c).cur + Pattern(c).prev = Spent(c, PreviousWindow[1], CurrentWindow[2])
<1> DEFINE In(first, last) == {n \in Entries("expense", first, last) : log[n].cat = c}
           A == In(day - K.window + 1, day)
           B == In(day - 2 * K.window + 1, day - K.window)
           C == In(day - 2 * K.window + 1, day)
<1>1. /\ Pattern(c).cur = Worth(A) /\ Pattern(c).prev = Worth(B)
      /\ Spent(c, PreviousWindow[1], CurrentWindow[2]) = Worth(C)
  BY DEF Pattern, Spent, PreviousWindow, CurrentWindow
<1>2. day \in Int /\ K.window \in Nat
  BY DaysInCalendar, HouseholdConstants
<1>3. A \in SUBSET DOMAIN log /\ B \in SUBSET DOMAIN log
  BY DEF Entries
<1>4. C = A \cup B /\ A \cap B = {}
  <2>1. ASSUME NEW n \in DOMAIN log, log[n].date \in Int
        PROVE  /\ log[n].date \in day - 2 * K.window + 1 .. day <=>
                    \/ log[n].date \in day - K.window + 1 .. day
                    \/ log[n].date \in day - 2 * K.window + 1 .. day - K.window
               /\ ~(/\ log[n].date \in day - K.window + 1 .. day
                    /\ log[n].date \in day - 2 * K.window + 1 .. day - K.window)
    BY <1>2, <2>1
  <2>2. \A n \in DOMAIN log : log[n].date \in Int
    BY LogIsKnown
  <2> QED BY <2>1, <2>2 DEF Entries
<1> HIDE DEF A, B, C
<1>5. PICK w, D : w = Amounts /\ D = DOMAIN log
  OBVIOUS
<1>6. /\ IsFiniteSet(A) /\ IsFiniteSet(B) /\ w \in [D -> Int] /\ A \in SUBSET D /\ B \in SUBSET D
      /\ Worth(A) = SumFunctionOnSet(w, A) /\ Worth(B) = SumFunctionOnSet(w, B)
      /\ Worth(A \cup B) = SumFunctionOnSet(w, A \cup B)
  <2>1. A \cup B \in SUBSET DOMAIN log
    BY <1>3
  <2> QED BY <1>3, <1>5, <2>1, WorthIsSum, LogIsKnown
<1>7. SumFunctionOnSet(w, A \cup B) = SumFunctionOnSet(w, A) + SumFunctionOnSet(w, B)
  BY <1>4, <1>6, SumOfTwo
<1> QED BY <1>1, <1>4, <1>6, <1>7

LEMMA SpendingIsOne == Days /\ Written => SpendingAgrees
<1> SUFFICES ASSUME Days, Written PROVE SpendingAgrees
  OBVIOUS
<1>1. LET months == MonthlySeries(Month, Month)
      IN  Total(DOMAIN months, LAMBDA k : months[k].net) = Aggregates(1, EndOfMonth(day)).net
  BY SeriesAgrees DEF Total
<1> QED BY <1>1, CategoriesAgree, WindowsAgree DEF SpendingAgrees, Patterns

\* The funds that are the user's own, and what each of them is worth.
Own == {f \in Funds : ~home.fund[f].emanet}
Worths == [f \in Own |-> FundValue(f)]

LEMMA OwnFunds ==
    ASSUME Days, Money
    PROVE  /\ Own \in SUBSET Funds /\ IsFiniteSet(Own) /\ IsFiniteSet(Funds)
           /\ \A f \in Funds : FundValue(f) \in Int /\ fund[f].lots \in Nat
           /\ \A f \in Funds : fund[f].lots = 0 => FundValue(f) = 0
           /\ Worths \in [Own -> Int] /\ Invested = SumFunctionOnSet(Worths, Own) /\ Invested \in Int
<1>1. Own \in SUBSET Funds /\ IsFiniteSet(Funds)
  BY HouseholdConstants DEF Own
<1>2. IsFiniteSet(Own)
  BY <1>1, FS_Subset
<1>3. ASSUME NEW f \in Funds PROVE FundValue(f) \in Int /\ fund[f].lots \in Nat /\ (fund[f].lots = 0 => FundValue(f) = 0)
  <2>1. fund[f].lots \in Nat /\ fund[f].price \in Int
    BY DEF Money, FundRow
  <2> QED BY <2>1 DEF FundValue
<1>4. Worths \in [Own -> Int]
  BY <1>1, <1>3 DEF Worths
<1>5. Invested = SumFunctionOnSet(Worths, Own)
  BY DEF Invested, Total, Worths, Own
<1>6. SumFunctionOnSet(Worths, Own) \in Int
  BY <1>2, <1>4, SumIsInt
<1> QED BY <1>1, <1>2, <1>3, <1>4, <1>5, <1>6

\* What the cards and the loans owe.
Debt == [c \in Cards |-> held[c]]
Balances == [l \in Loans |-> loan[l].balance]

LEMMA DebtsAreNumbers ==
    ASSUME Money
    PROVE  /\ Debt \in [Cards -> Int] /\ IsFiniteSet(Cards) /\ CardDebt = SumFunctionOnSet(Debt, Cards)
           /\ CardDebt \in Int /\ LoanDebt \in Int /\ Cash \in Int
           /\ LoanDebt = SumFunctionOnSet(Balances, Loans)
<1>1. IsFiniteSet(Cards) /\ IsFiniteSet(Loans)
  BY HouseholdConstants
<1>2. Debt \in [Cards -> Int] /\ Cash \in Int
  BY DEF Money, Accounts, Debt, Cash
<1>3. Balances \in [Loans -> Int]
  BY DEF Money, Balances
<1>4. CardDebt = SumFunctionOnSet(Debt, Cards) /\ LoanDebt = SumFunctionOnSet(Balances, Loans)
  BY DEF CardDebt, LoanDebt, Debt, Balances, Total
<1>5. SumFunctionOnSet(Debt, Cards) \in Int /\ SumFunctionOnSet(Balances, Loans) \in Int
  BY <1>1, <1>2, <1>3, SumIsInt
<1> QED BY <1>1, <1>2, <1>4, <1>5

\* The short summary counts a card's debt with a minus.
LEMMA ShortSummaryAgrees ==
    ASSUME Days, Money
    PROVE  QuickSummary.cash = Cash /\ QuickSummary.net = NetSeen
<1> DEFINE kind(a) == IF a = Purse THEN 1 ELSE -1
           v == [a \in Accounts |-> kind(a) * held[a]]
           u == [f \in Funds |-> IF home.fund[f].emanet THEN 0 ELSE FundValue(f)]
<1>1. /\ QuickSummary.cash = Cash
      /\ QuickSummary.net = SumFunctionOnSet(v, Accounts) - LoanDebt + SumFunctionOnSet(u, Funds)
  BY DEF QuickSummary, Total
<1>2. SumFunctionOnSet(u, Funds) = Invested
  <2>1. u \in [Funds -> Int] /\ \A f \in Funds \ Own : u[f] = 0
    BY OwnFunds DEF Own
  <2>2. \A f \in Own : u[f] = Worths[f]
    BY DEF Own, Worths
  <2>3. PICK w, D, W, O : w = u /\ D = Funds /\ W = Worths /\ O = Own
    OBVIOUS
  <2> HIDE DEF u
  <2>4. /\ w \in [D -> Int] /\ IsFiniteSet(D) /\ O \in SUBSET D /\ IsFiniteSet(O) /\ W \in [O -> Int]
        /\ \A f \in D \ O : w[f] = 0
    BY <2>1, <2>3, OwnFunds
  <2>5. \A f \in O : w[f] = W[f]
    BY <2>2, <2>3
  <2>6. SumFunctionOnSet(w, D) = SumFunctionOnSet(w, O)
    BY <2>4, SumOfSome
  <2>7. SumFunctionOnSet(W, O) = SumFunctionOnSet(w, O)
    BY <2>4, <2>5, SumOfTheseTerms
  <2> QED BY <2>3, <2>6, <2>7, OwnFunds
<1>3. SumFunctionOnSet(v, Accounts) = Cash - CardDebt
  <2> DEFINE zero == [c \in Cards |-> 0]
             neg == [c \in Cards |-> -held[c]]
  <2>1. held \in [Accounts -> Int] /\ Accounts = Cards \cup {Purse} /\ Purse \notin Cards
    BY HouseholdConstants DEF Money, Accounts
  <2>2. \A a \in Accounts : held[a] \in Int
    BY <2>1
  <2>3. /\ v \in [Accounts -> Int] /\ v[Purse] = Cash
        /\ \A c \in Cards : v[c] = -held[c]
    <3>1. v[Purse] = Cash
      BY <2>1, <2>2 DEF Cash
    <3>2. \A c \in Cards : v[c] = -held[c]
      BY <2>1, <2>2
    <3>3. \A a \in Accounts : kind(a) * held[a] \in Int
      BY <2>2
    <3> HIDE DEF kind
    <3>4. v \in [Accounts -> Int]
      BY <3>3
    <3> QED BY <3>1, <3>2, <3>4
  <2>4. neg \in [Cards -> Int] /\ zero \in [Cards -> Int]
    BY <2>1, <2>2
  <2>5. \A c \in Cards : zero[c] = 0 /\ zero[c] = Debt[c] + neg[c] /\ v[c] = neg[c]
    BY <2>1, <2>2, <2>3 DEF Debt
  <2> HIDE DEF v, neg, zero
  <2>6. PICK w, z, n, d, A, C : w = v /\ z = zero /\ n = neg /\ d = Debt /\ A = Accounts /\ C = Cards
    OBVIOUS
  <2>7. /\ w \in [A -> Int] /\ z \in [C -> Int] /\ n \in [C -> Int] /\ d \in [C -> Int] /\ IsFiniteSet(C)
        /\ C \in SUBSET A /\ A = C \cup {Purse} /\ Purse \notin C /\ Purse \in A
    BY <2>1, <2>3, <2>4, <2>6, DebtsAreNumbers
  <2>8. (\A c \in C : z[c] = 0) /\ (\A c \in C : z[c] = d[c] + n[c]) /\ (\A c \in C : w[c] = n[c])
    BY <2>5, <2>6
  <2>9. SumFunctionOnSet(z, C) = 0
    BY <2>7, <2>8, SumOfZeros
  <2>10. SumFunctionOnSet(z, C) = SumFunctionOnSet(d, C) + SumFunctionOnSet(n, C)
    BY <2>7, <2>8, SumsAdd
  <2>11. SumFunctionOnSet(n, C) = SumFunctionOnSet(w, C)
    BY <2>7, <2>8, SumOfTheseTerms
  <2>12. SumFunctionOnSet(w, C \cup {Purse}) = SumFunctionOnSet(w, C) + w[Purse]
    BY <2>7, SumWithOneMore
  <2>13. SumFunctionOnSet(n, C) \in Int /\ SumFunctionOnSet(d, C) \in Int /\ w[Purse] \in Int
    BY <2>7, SumIsInt
  <2>14. SumFunctionOnSet(w, A) = w[Purse] - SumFunctionOnSet(d, C)
    BY <2>7, <2>9, <2>10, <2>11, <2>12, <2>13
  <2> QED BY <2>3, <2>6, <2>14, DebtsAreNumbers
<1> HIDE DEF v, u
<1> QED BY <1>1, <1>2, <1>3, OwnFunds, DebtsAreNumbers DEF NetSeen

\* The simulation's world adds the cash that waits in the user's own investment accounts.
LEMMA WorldAgrees ==
    ASSUME Days, Money
    PROVE  Sums(World).net = NetSeen + IdleInFunds
<1> DEFINE Idle == {f \in Funds : ~home.fund[f].emanet /\ ~home.fund[f].coded /\ fund[f].lots = 0}
           wait == [f \in Idle |-> home.fund[f].waiting]
           more == [f \in Own |-> IF f \in Idle THEN home.fund[f].waiting ELSE 0]
           hold == [f \in Own |-> Holding(f)]
<1>1. Sums(World).net = Cash + SumFunctionOnSet(hold, Own) - CardDebt - LoanDebt
  <2>1. WorldFunds(World) = SumFunctionOnSet(hold, Own)
    <3>1. \A f \in Own : World.funds[f].worth = Holding(f)
      BY OwnFunds DEF World
    <3>2. [f \in Own |-> World.funds[f].worth] = hold
      BY <3>1
    <3>3. WorldFunds(World) = SumFunctionOnSet([f \in Own |-> World.funds[f].worth], Own)
      BY DEF WorldFunds, Total, Own
    <3> QED BY <3>2, <3>3
  <2>2. WorldCards(World) = CardDebt
    <3>1. [c \in Cards |-> World.cards[c]] = Debt
      BY DEF World, Debt
    <3>2. WorldCards(World) = SumFunctionOnSet([c \in Cards |-> World.cards[c]], Cards)
      BY DEF WorldCards, Total
    <3> QED BY <3>1, <3>2, DebtsAreNumbers
  <2>3. WorldLoans(World) = LoanDebt
    <3>1. [l \in Loans |-> World.loans[l]] = Balances
      BY DEF World, Balances
    <3>2. WorldLoans(World) = SumFunctionOnSet([l \in Loans |-> World.loans[l]], Loans)
      BY DEF WorldLoans, Total
    <3> QED BY <3>1, <3>2, DebtsAreNumbers
  <2>4. World.purse = Cash
    BY DEF World
  <2> HIDE DEF hold
  <2>5. Sums(World).net = World.purse + WorldFunds(World) - WorldCards(World) - WorldLoans(World)
    BY DEF Sums
  <2> QED BY <2>1, <2>2, <2>3, <2>4, <2>5
<1>2. /\ Idle \in SUBSET Own /\ IsFiniteSet(Idle) /\ wait \in [Idle -> Int] /\ more \in [Own -> Int]
  <2>1. Idle \in SUBSET Own
    BY DEF Own
  <2>2. \A f \in Funds : home.fund[f].waiting \in Nat
    BY TermsAreKnown
  <2>3. IsFiniteSet(Idle)
    BY <2>1, OwnFunds, FS_Subset
  <2>4. Own \in SUBSET Funds
    BY OwnFunds
  <2> QED BY <2>1, <2>2, <2>3, <2>4
<1>3. (\A f \in Idle : more[f] = wait[f]) /\ (\A f \in Own \ Idle : more[f] = 0)
  BY <1>2
<1>4. ASSUME NEW f \in Own PROVE Holding(f) = FundValue(f) + more[f] /\ Holding(f) \in Int
  <2>1. f \in Funds /\ home.fund[f].waiting \in Nat /\ fund[f].lots \in Nat /\ FundValue(f) \in Int
        /\ (fund[f].lots = 0 => FundValue(f) = 0)
    BY OwnFunds, TermsAreKnown
  <2>2. CASE f \in Idle
    BY <2>1, <2>2 DEF Holding
  <2>3. CASE f \notin Idle /\ fund[f].lots = 0
    <3>1. home.fund[f].coded
      BY <2>1, <2>3 DEF Own
    <3>2. ~(home.fund[f].waiting > 0)
      BY <2>1, <3>1, TermsAreKnown
    <3> HIDE DEF Idle
    <3>3. more[f] = 0
      BY <2>3
    <3> QED BY <2>1, <2>3, <3>2, <3>3 DEF Holding
  <2>4. CASE f \notin Idle /\ fund[f].lots # 0
    <3> HIDE DEF Idle
    <3>1. more[f] = 0 /\ fund[f].lots > 0
      BY <2>1, <2>4
    <3> QED BY <2>1, <3>1 DEF Holding
  <2> QED BY <2>2, <2>3, <2>4
<1>5. IdleInFunds = SumFunctionOnSet(wait, Idle)
  BY DEF IdleInFunds, Total
<1>6. hold \in [Own -> Int] /\ \A f \in Own : hold[f] = Worths[f] + more[f]
  <2>1. \A f \in Own : hold[f] = Holding(f) /\ Worths[f] = FundValue(f)
    BY DEF Worths
  <2>2. hold \in [Own -> Int]
    BY <1>4
  <2> HIDE DEF hold, more
  <2> QED BY <1>4, <2>1, <2>2
<1> HIDE DEF Idle, wait, more, hold
<1>7. PICK h, W, m, w, O, I : h = hold /\ W = Worths /\ m = more /\ w = wait /\ O = Own /\ I = Idle
  OBVIOUS
<1>8. /\ h \in [O -> Int] /\ W \in [O -> Int] /\ m \in [O -> Int] /\ w \in [I -> Int] /\ IsFiniteSet(O) /\ IsFiniteSet(I)
      /\ I \in SUBSET O
  BY <1>2, <1>6, <1>7, OwnFunds
<1>9. (\A f \in O : h[f] = W[f] + m[f]) /\ (\A f \in O \ I : m[f] = 0) /\ (\A f \in I : m[f] = w[f])
  BY <1>3, <1>6, <1>7
<1>10. SumFunctionOnSet(h, O) = SumFunctionOnSet(W, O) + SumFunctionOnSet(m, O)
  BY <1>8, <1>9, SumsAdd
<1>11. SumFunctionOnSet(m, O) = SumFunctionOnSet(m, I)
  BY <1>8, <1>9, SumOfSome
<1>12. SumFunctionOnSet(w, I) = SumFunctionOnSet(m, I)
  BY <1>8, <1>9, SumOfTheseTerms
<1>13. SumFunctionOnSet(w, I) \in Int
  BY <1>8, SumIsInt
<1> QED BY <1>1, <1>5, <1>7, <1>10, <1>11, <1>12, <1>13, OwnFunds, DebtsAreNumbers DEF NetSeen

LEMMA BalancesAreOne == Days /\ Money => BalancesAgree
BY ShortSummaryAgrees, WorldAgrees DEF BalancesAgree

\* What the budget adds to the balances are numbers.
LEMMA BudgetIsKnown ==
    ASSUME Days
    PROVE  ExpectedIncome \in Int /\ InstalmentsThisMonth \in Int
<1> DEFINE E == ExpectedIncomes
           L == {l \in Loans : Within(loan[l].next, day, EndOfMonth(day))}
           v == [i \in E |-> home.income[i].amount]
           w == [l \in L |-> home.loan[l].monthly]
<1>1. IsFiniteSet(E) /\ IsFiniteSet(L)
  BY HouseholdConstants, FS_Subset DEF ExpectedIncomes
<1>2. v \in [E -> Int]
  <2>1. \A i \in Incomes : home.income[i].amount \in Int
    BY HomeIsKnown DEF Item, Recurring
  <2> QED BY <2>1 DEF ExpectedIncomes
<1>3. w \in [L -> Int]
  BY TermsAreKnown
<1>4. ExpectedIncome = SumFunctionOnSet(v, E) /\ InstalmentsThisMonth = SumFunctionOnSet(w, L)
  BY DEF ExpectedIncome, InstalmentsThisMonth, Total
<1> HIDE DEF v, w, E, L
<1> QED BY <1>1, <1>2, <1>3, <1>4, SumIsInt

\* Paying a card takes from the purse what it takes from the debt.
LEMMA PayingIsNeutral ==
    ASSUME Days, Money, NEW c \in Cards, PayCard(c, Due(c))
    PROVE  RealBudget' = RealBudget /\ DailyLimit' = DailyLimit /\ NetSeen' = NetSeen
<1>1. PICK x : x = Due(c)
  OBVIOUS
<1>2. held \in [Accounts -> Int] /\ Accounts = Cards \cup {Purse} /\ Purse \notin Cards
  BY HouseholdConstants DEF Money, Accounts
<1>3. x \in Int
  BY <1>1, <1>2, HouseholdConstants DEF PayCard, Due, Money
<1>4. /\ held' = Move(held, [a \in {Purse, c} |-> -x])
      /\ UNCHANGED <<home, day, loan, booked, fund>>
  BY <1>1 DEF PayCard
<1>5. \A a \in Accounts : held'[a] = IF a \in {Purse, c} THEN held[a] - x ELSE held[a]
  <2>1. PICK legs : legs = [a \in {Purse, c} |-> -x]
    OBVIOUS
  <2>2. \A a \in Accounts : held'[a] = held[a] + (IF a \in {Purse, c} THEN -x ELSE 0)
    BY <1>2, <1>4, <2>1 DEF Move
  <2> QED BY <1>2, <1>3, <2>2
<1>6. Cash' = Cash - x
  BY <1>2, <1>5 DEF Cash
<1>7. CardDebt' = CardDebt - x
  <2>1. PICK v, w, C : v = [k \in Cards |-> held'[k]] /\ w = Debt /\ C = Cards
    OBVIOUS
  <2>2. \A k \in Cards : held'[k] \in Int
    BY <1>2, <1>3, <1>5
  <2>3. /\ v \in [C -> Int] /\ w \in [C -> Int] /\ IsFiniteSet(C) /\ c \in C
        /\ CardDebt = SumFunctionOnSet(w, C) /\ SumFunctionOnSet(w, C) \in Int
    BY <2>1, <2>2, DebtsAreNumbers
  <2>4. \A k \in C \ {c} : v[k] = w[k]
    BY <1>2, <1>5, <2>1 DEF Debt
  <2>5. v[c] = w[c] - x /\ w[c] \in Int
    BY <1>2, <1>5, <2>1 DEF Debt
  <2>6. CardDebt' = SumFunctionOnSet(v, C)
    BY <2>1 DEF CardDebt, Total
  <2>7. SumFunctionOnSet(v, C) = SumFunctionOnSet(w, C) - w[c] + v[c]
    BY <2>3, <2>4, SumWithOneChanged
  <2> QED BY <1>3, <2>3, <2>5, <2>6, <2>7
<1>8. LoanDebt' = LoanDebt /\ Invested' = Invested
  BY <1>4 DEF LoanDebt, Invested, FundValue, Total
<1>9. ExpectedIncome' = ExpectedIncome /\ InstalmentsThisMonth' = InstalmentsThisMonth
  BY <1>4 DEF ExpectedIncome, ExpectedIncomes, InstalmentsThisMonth, Month, Total
<1>10. NetSeen' = NetSeen
  BY <1>3, <1>6, <1>7, <1>8, OwnFunds, DebtsAreNumbers DEF NetSeen
<1>11. RealBudget' = RealBudget
  BY <1>3, <1>6, <1>7, <1>9, BudgetIsKnown, DebtsAreNumbers DEF RealBudget
<1>12. DailyLimit' = DailyLimit
  BY <1>4, <1>11 DEF DailyLimit
<1> QED BY <1>10, <1>11, <1>12

\* What is owed on the personal debts.
Dues == [d \in Debts |-> home.debt[d].amount]

LEMMA OwedIsSum ==
    ASSUME Days, NEW D \in SUBSET Debts
    PROVE  Dues \in [Debts -> Int] /\ IsFiniteSet(D) /\ Owed(D) = SumFunctionOnSet(Dues, D) /\ Owed(D) \in Int
<1>1. IsFiniteSet(D) /\ Dues \in [Debts -> Int]
  <2>1. \A d \in Debts : home.debt[d].amount \in Int
    BY HomeIsKnown
  <2> QED BY <2>1, HouseholdConstants, FS_Subset DEF Dues
<1>2. PICK v, w, S : v = [d \in D |-> home.debt[d].amount] /\ w = Dues /\ S = Debts
  OBVIOUS
<1>3. v \in [D -> Int] /\ w \in [S -> Int] /\ D \in SUBSET S /\ \A d \in D : w[d] = v[d]
  BY <1>1, <1>2 DEF Dues
<1>4. Owed(D) = SumFunctionOnSet(v, D)
  BY <1>2 DEF Owed, Total
<1>5. SumFunctionOnSet(v, D) = SumFunctionOnSet(w, D)
  BY <1>1, <1>3, SumOfTheseTerms
<1>6. SumFunctionOnSet(w, D) \in Int
  BY <1>1, <1>3, SumIsInt
<1> QED BY <1>1, <1>2, <1>4, <1>5, <1>6

\* What is owed without one of the debts.
LEMMA OneLessIsOwed ==
    ASSUME Days, NEW D \in SUBSET Debts, NEW d \in D
    PROVE  Owed(D \ {d}) = Owed(D) - Dues[d]
<1>1. PICK E : E = D \ {d}
  OBVIOUS
<1>2. E \in SUBSET Debts
  BY <1>1
<1>3. PICK w, S : w = Dues /\ S = Debts
  OBVIOUS
<1>4. /\ w \in [S -> Int] /\ IsFiniteSet(D) /\ D \in SUBSET S /\ w[d] \in Int
      /\ Owed(D) = SumFunctionOnSet(w, D) /\ Owed(E) = SumFunctionOnSet(w, E) /\ Owed(E) \in Int
  BY <1>2, <1>3, OwedIsSum
<1>5. SumFunctionOnSet(w, D) = SumFunctionOnSet(w, D \ {d}) + w[d]
  BY <1>4, SumWithoutOne
<1> QED BY <1>1, <1>3, <1>4, <1>5

\* Settling a debt moves the purse by what is no longer owed.
LEMMA SettlingIsNeutral ==
    ASSUME Days, Money, NEW d \in Debts, Settle(d)
    PROVE  NetFull' = NetFull
<1>1. PICK x \in Int : x = Sign(d) * home.debt[d].amount
  BY HomeIsKnown DEF Sign
<1>2. held \in [Accounts -> Int] /\ Accounts = Cards \cup {Purse} /\ Purse \notin Cards
  BY HouseholdConstants DEF Money, Accounts
<1>3. /\ held' = Move(held, Leg(Purse, x)) /\ paid' = paid \cup {d} /\ d \in Debts \ paid
      /\ UNCHANGED <<home, day, loan, fund>>
  BY <1>1 DEF Settle, ToSettle
<1>4. \A a \in Accounts : held'[a] = IF a = Purse THEN held[a] + x ELSE held[a]
  <2>1. \A a \in Accounts : held'[a] = held[a] + (IF a = Purse THEN x ELSE 0)
    BY <1>2, <1>3 DEF Move, Leg
  <2> QED BY <1>2, <2>1
<1>5. Cash' = Cash + x /\ CardDebt' = CardDebt
  <2>1. [c \in Cards |-> held'[c]] = [c \in Cards |-> held[c]]
    BY <1>2, <1>4
  <2>2. CardDebt' = CardDebt
    BY <2>1 DEF CardDebt, Total
  <2> QED BY <1>2, <1>4, <2>2 DEF Cash
<1>6. LoanDebt' = LoanDebt /\ Invested' = Invested
  BY <1>3 DEF LoanDebt, Invested, FundValue, Total
<1>7. PICK dir : dir = home.debt[d].dir /\ dir \in {"receivable", "payable"}
  BY HomeIsKnown
<1>8. \A other : /\ Unpaid(other)' = IF other = dir THEN Unpaid(other) \ {d} ELSE Unpaid(other)
                 /\ Unpaid(other) \in SUBSET Debts
  BY <1>3, <1>7 DEF Unpaid
<1>9. d \in Unpaid(dir)
  BY <1>3, <1>7 DEF Unpaid
<1>10. PICK n \in Int : n = Dues[d] /\ n = home.debt[d].amount
  BY HomeIsKnown DEF Dues
<1>11. ASSUME NEW D PROVE Owed(D)' = Owed(D)
  BY <1>3 DEF Owed, Total
<1>12. PICK R, P : R = Unpaid("receivable") /\ P = Unpaid("payable")
  OBVIOUS
<1>13. R \in SUBSET Debts /\ P \in SUBSET Debts /\ Owed(R) \in Int /\ Owed(P) \in Int
  BY <1>8, <1>12, OwedIsSum
<1>14. /\ Receivables = Owed(R) /\ Payables = Owed(P)
       /\ Receivables' = Owed(IF dir = "receivable" THEN R \ {d} ELSE R)
       /\ Payables' = Owed(IF dir = "payable" THEN P \ {d} ELSE P)
  <2>1. PICK R1, P1 : R1 = Unpaid("receivable")' /\ P1 = Unpaid("payable")'
    OBVIOUS
  <2>2. Receivables' = Owed(R1)' /\ Payables' = Owed(P1)'
    BY <2>1 DEF Receivables, Payables, Owed, Total
  <2>3. R1 = (IF dir = "receivable" THEN R \ {d} ELSE R) /\ P1 = (IF dir = "payable" THEN P \ {d} ELSE P)
    BY <1>8, <1>12, <2>1
  <2>4. Owed(R1)' = Owed(R1) /\ Owed(P1)' = Owed(P1)
    BY <1>11
  <2> QED BY <1>12, <2>2, <2>3, <2>4 DEF Receivables, Payables
<1>15. CASE dir = "receivable"
  <2>1. x = n
    BY <1>1, <1>7, <1>10, <1>15 DEF Sign
  <2>2. Receivables' = Owed(R) - n /\ Payables' = Owed(P)
    BY <1>9, <1>10, <1>12, <1>13, <1>14, <1>15, OneLessIsOwed
  <2> QED BY <1>5, <1>6, <1>13, <1>14, <2>1, <2>2, OwnFunds, DebtsAreNumbers DEF NetFull, NetSeen
<1>16. CASE dir = "payable"
  <2>1. x = -n
    BY <1>1, <1>7, <1>10, <1>16 DEF Sign
  <2>2. Payables' = Owed(P) - n /\ Receivables' = Owed(R)
    BY <1>9, <1>10, <1>12, <1>13, <1>14, <1>16, OneLessIsOwed
  <2> QED BY <1>5, <1>6, <1>13, <1>14, <2>1, <2>2, OwnFunds, DebtsAreNumbers DEF NetFull, NetSeen
<1> QED BY <1>7, <1>15, <1>16

\* The summary of an approval, the panel and the simulation add the balances up to one figure,
\* months, categories and windows the transactions, and neither paying a card nor settling a debt
\* makes anybody richer (rules_engine.py:2564-2659, balance_rules.py:51-58).
THEOREM BooksAgree == Spec => OneSetOfBooks
<1> DEFINE Inv == Days /\ Money /\ Written
<1>1. Spec => []Inv
  <2>1. Init => Inv
    BY DaysInit, MoneyInit
  <2>2. Inv /\ [Next]_vars => Inv'
    BY DaysStep, MoneyStep, WrittenStep
  <2> HIDE DEF Inv
  <2> QED BY <2>1, <2>2, PTL DEF Spec
<1>2. Inv => BalancesAgree /\ SpendingAgrees
  BY BalancesAreOne, SpendingIsOne
<1> DEFINE Neutral == /\ (\E c \in Cards : PayCard(c, Due(c)))
                          => RealBudget' = RealBudget /\ DailyLimit' = DailyLimit /\ NetSeen' = NetSeen
                      /\ (\E d \in Debts : Settle(d)) => NetFull' = NetFull
<1>3. Inv /\ [Next]_vars => [Neutral]_vars
  BY PayingIsNeutral, SettlingIsNeutral
<1> HIDE DEF Inv
<1>4. Spec => [](BalancesAgree /\ SpendingAgrees)
  BY <1>1, <1>2, PTL
<1>5. Spec => [][Neutral]_vars
  BY <1>1, <1>3, PTL DEF Spec
<1> QED BY <1>4, <1>5, PTL DEF OneSetOfBooks, MovingMoneyIsNeutral, Neutral

-----------------------------------------------------------------------------
(* What is previewed is what happens. *)

\* Money waits only where nothing was bought, and what was sold is not bought back.
Waits == \A f \in Funds : home.fund[f].waiting > 0 => fund[f].lots = 0

LEMMA WaitsInit == Init => Waits
<1> SUFFICES ASSUME NEW h \in Homes, Start(h) PROVE Waits
  BY DEF Init
<1>1. \A f \in Funds : h.fund[f].waiting > 0 => h.funds[f].lots = 0
  BY HouseholdConstants DEF IsHome
<1> QED BY <1>1 DEF Start, Waits

LEMMA WaitsStep == Days /\ Money /\ Waits /\ [Next]_vars => Waits'
<1> SUFFICES ASSUME Days, Money, Waits, [Next]_vars PROVE Waits'
  OBVIOUS
<1>1. ASSUME NEW f \in Funds, Sell(f, 1) PROVE Waits'
  <2>1. fund[f] \in FundRow /\ 1 <= fund[f].lots /\ home' = home
    BY <1>1 DEF Sell, Money
  <2>2. ~(home.fund[f].waiting > 0)
    BY <2>1 DEF Waits, FundRow
  <2>3. \A g \in Funds \ {f} : fund'[g] = fund[g]
    BY <1>1 DEF Sell, Money
  <2> QED BY <2>1, <2>2, <2>3 DEF Waits
<1>2. ASSUME UNCHANGED <<home, fund>> PROVE Waits'
  BY <1>2 DEF Waits
<1> QED BY <1>1, <1>2 DEF Next, vars, books, OpenPanel, NextDay, Book, TypeIn, Settle, PayCard, CutStatement, PayInstalment, Spend

\* A world that shows the purse, debts and holdings of afterwards has the sums of afterwards.
LEMMA SameSums ==
    ASSUME NEW w, home' = home, w.purse = Cash',
           \A c \in Cards : w.cards[c] = held'[c],
           \A l \in Loans : w.loans[l] = loan'[l].balance,
           \A f \in Funds : ~home.fund[f].emanet => w.funds[f].worth = Holding(f)'
    PROVE  Sums(w) = Sums(World)'
<1>1. PICK v : v = World'
  OBVIOUS
<1>2. Sums(World)' = Sums(v)
  BY <1>1 DEF Sums, WorldCards, WorldLoans, WorldFunds, Total
<1>3. /\ v.purse = Cash' /\ \A c \in Cards : v.cards[c] = held'[c]
      /\ \A l \in Loans : v.loans[l] = loan'[l].balance
      /\ \A f \in Funds : v.funds[f].worth = Holding(f)'
  BY <1>1 DEF World
<1>4. WorldCards(w) = WorldCards(v)
  <2>1. [c \in Cards |-> w.cards[c]] = [c \in Cards |-> v.cards[c]]
    BY <1>3
  <2> QED BY <2>1 DEF WorldCards, Total
<1>5. WorldLoans(w) = WorldLoans(v)
  <2>1. [l \in Loans |-> w.loans[l]] = [l \in Loans |-> v.loans[l]]
    BY <1>3
  <2> QED BY <2>1 DEF WorldLoans, Total
<1>6. WorldFunds(w) = WorldFunds(v)
  <2>1. [f \in Own |-> w.funds[f].worth] = [f \in Own |-> v.funds[f].worth]
    BY <1>3 DEF Own
  <2> QED BY <2>1 DEF WorldFunds, Total, Own
<1>7. w.purse = v.purse
  BY <1>3
<1> QED BY <1>2, <1>4, <1>5, <1>6, <1>7 DEF Sums

\* The world of now, as a record.
LEMMA WorldIsRead ==
    /\ World = [at |-> World.at, purse |-> World.purse, cards |-> World.cards, loans |-> World.loans,
                funds |-> World.funds, paid |-> World.paid]
    /\ World.purse = held[Purse] /\ World.paid = paid
    /\ World.cards = [c \in Cards |-> held[c]]
    /\ World.loans = [l \in Loans |-> loan[l].balance]
    /\ World.funds = [f \in Funds |-> [lots |-> fund[f].lots, price |-> fund[f].price, worth |-> Holding(f)]]
BY DEF World, Cash

LEMMA SettlingIsPreviewed ==
    ASSUME Days, Money, NEW d \in Debts, Settle(d)
    PROVE  Sums(SettleIn(World, d)) = Sums(World)'
<1>1. PICK x : x = Sign(d) * home.debt[d].amount
  OBVIOUS
<1>2. x \in Int
  BY <1>1, HomeIsKnown DEF Sign
<1>3. /\ held' = Move(held, Leg(Purse, x)) /\ d \notin paid /\ UNCHANGED <<home, loan, fund>>
  BY <1>1 DEF Settle, ToSettle
<1>4. held'[Purse] = held[Purse] + x /\ \A c \in Cards : held'[c] = held[c]
  BY <1>2, <1>3, MoveMoves, LegIsInt, HouseholdConstants DEF Money, Accounts, Move, Leg
<1>5. PICK w : w = SettleIn(World, d)
  OBVIOUS
<1>6. /\ w.purse = held[Purse] + x /\ w.cards = World.cards /\ w.loans = World.loans /\ w.funds = World.funds
  BY <1>1, <1>3, <1>5, WorldIsRead DEF SettleIn
<1>7. \A f \in Funds : w.funds[f].worth = Holding(f)'
  BY <1>3, <1>6, WorldIsRead DEF Holding, FundValue
<1>8. w.purse = Cash' /\ (\A c \in Cards : w.cards[c] = held'[c]) /\ \A l \in Loans : w.loans[l] = loan'[l].balance
  BY <1>3, <1>4, <1>6, WorldIsRead DEF Cash
<1> QED BY <1>3, <1>5, <1>7, <1>8, SameSums

LEMMA SpendingIsPreviewed ==
    ASSUME Days, Money, NEW x \in Int, NEW cat, Spend(x, cat)
    PROVE  Sums(TransactIn(World, Purse, "expense", x, TRUE)) = Sums(World)'
<1>1. held' = Move(held, Leg(Purse, -x)) /\ UNCHANGED <<home, loan, fund>>
  BY DEF Spend
<1>2. held'[Purse] = held[Purse] - x /\ \A c \in Cards : held'[c] = held[c]
  BY <1>1, HouseholdConstants DEF Money, Accounts, Move, Leg
<1>3. PICK w : w = TransactIn(World, Purse, "expense", x, TRUE)
  OBVIOUS
<1>4. /\ w.purse = held[Purse] - x /\ w.cards = World.cards /\ w.loans = World.loans /\ w.funds = World.funds
  BY <1>3, WorldIsRead DEF TransactIn
<1>5. \A f \in Funds : w.funds[f].worth = Holding(f)'
  BY <1>1, <1>4, WorldIsRead DEF Holding, FundValue
<1>6. w.purse = Cash' /\ (\A c \in Cards : w.cards[c] = held'[c]) /\ \A l \in Loans : w.loans[l] = loan'[l].balance
  BY <1>1, <1>2, <1>4, WorldIsRead DEF Cash
<1> QED BY <1>1, <1>3, <1>5, <1>6, SameSums

LEMMA TypingInIsPreviewed ==
    ASSUME Money, NEW a \in Accounts, TypeIn(a)
    PROVE  Sums(SetIn(World, a, real[a])) = Sums(World)'
<1>1. held' = [held EXCEPT ![a] = real[a]] /\ UNCHANGED <<home, loan, fund>>
  BY DEF TypeIn
<1>2. \A b \in Accounts : held'[b] = IF b = a THEN real[a] ELSE held[b]
  BY <1>1 DEF Money
<1>3. PICK w : w = SetIn(World, a, real[a])
  OBVIOUS
<1>4. w.loans = World.loans /\ w.funds = World.funds
  BY <1>3, WorldIsRead DEF SetIn
<1>5. \A f \in Funds : w.funds[f].worth = Holding(f)'
  BY <1>1, <1>4, WorldIsRead DEF Holding, FundValue
<1>6. w.purse = held'[Purse]
  BY <1>2, <1>3, WorldIsRead DEF SetIn, Accounts
<1>7. \A c \in Cards : w.cards[c] = held'[c]
  BY <1>2, <1>3, WorldIsRead, HouseholdConstants DEF SetIn, Accounts
<1>8. w.purse = Cash' /\ \A l \in Loans : w.loans[l] = loan'[l].balance
  BY <1>1, <1>4, <1>6, WorldIsRead DEF Cash
<1> QED BY <1>1, <1>3, <1>5, <1>7, <1>8, SameSums

LEMMA SellingIsPreviewed ==
    ASSUME Days, Money, Waits, NEW f \in Funds, Sell(f, 1), fund[f].price > 0
    PROVE  Sums(SellIn(World, f, 1, fund[f].price)) = Sums(World)'
<1>1. PICK lots \in Nat, price \in Int : lots = fund[f].lots /\ price = fund[f].price /\ lots >= 1 /\ price > 0
  BY DEF Sell, Money, FundRow
<1>2. PICK got : got = price - Withheld(price - home.fund[f].cost)
  OBVIOUS
<1>3. home.fund[f].cost \in Int /\ home.fund[f].waiting \in Nat
  BY TermsAreKnown
<1>4. got \in Int
  BY <1>1, <1>2, <1>3, WithheldIsInt
<1>5. 1 * price = price /\ 1 * (price - home.fund[f].cost) = price - home.fund[f].cost
  BY <1>1, <1>3
<1>6. /\ held' = Move(held, Leg(Purse, got)) /\ UNCHANGED <<home, loan>> /\ ~home.fund[f].emanet
      /\ fund' = [fund EXCEPT ![f].lots = @ - 1, ![f].stamp = day]
  BY <1>1, <1>2, <1>5 DEF Sell
<1>7. held'[Purse] = held[Purse] + got /\ \A c \in Cards : held'[c] = held[c]
  BY <1>4, <1>6, HouseholdConstants DEF Money, Accounts, Move, Leg
<1>8. fund'[f].lots = lots - 1 /\ fund'[f].price = price /\ \A g \in Funds \ {f} : fund'[g] = fund[g]
  BY <1>1, <1>6 DEF Money, FundRow
<1>9. Holding(f)' = (lots - 1) * price
  <2>1. home.fund[f].waiting = 0
    BY <1>1, <1>3 DEF Waits
  <2>2. CASE lots = 1
    BY <1>6, <1>8, <1>1, <2>1, <2>2 DEF Holding
  <2>3. CASE lots > 1
    BY <1>6, <1>8, <1>1, <2>3 DEF Holding, FundValue
  <2> QED BY <1>1, <2>2, <2>3
<1>10. PICK w : w = SellIn(World, f, 1, price)
  OBVIOUS
<1>11. World.funds[f].lots = lots /\ ~(1 > World.funds[f].lots) /\ ~(1 <= 0) /\ ~(price <= 0)
  BY <1>1, WorldIsRead
<1>12. w = [World EXCEPT !.funds[f] = [lots |-> @.lots - 1, price |-> price, worth |-> (@.lots - 1) * price],
                         !.purse = @ + 1 * price - Withheld(1 * (price - home.fund[f].cost))]
  BY <1>6, <1>10, <1>11 DEF SellIn
<1>13. /\ w.purse = held[Purse] + 1 * price - Withheld(1 * (price - home.fund[f].cost))
       /\ w.cards = World.cards /\ w.loans = World.loans
       /\ w.funds = [World.funds EXCEPT ![f] = [lots |-> @.lots - 1, price |-> price, worth |-> (@.lots - 1) * price]]
  BY <1>12, WorldIsRead
<1>14. w.purse = held[Purse] + got
  BY <1>1, <1>2, <1>3, <1>5, <1>13, WithheldIsInt, HouseholdConstants DEF Money, Accounts
<1>15. w.funds[f].worth = (lots - 1) * price /\ \A g \in Funds \ {f} : w.funds[g].worth = Holding(g)
  BY <1>11, <1>13, WorldIsRead
<1>16. ASSUME NEW g \in Funds \ {f} PROVE Holding(g)' = Holding(g)
  <2>1. fund'[g] = fund[g] /\ home'.fund[g] = home.fund[g]
    BY <1>6, <1>8
  <2> QED BY <2>1 DEF Holding, FundValue
<1>17. \A g \in Funds : w.funds[g].worth = Holding(g)'
  BY <1>9, <1>15, <1>16
<1>18. w.purse = Cash' /\ (\A c \in Cards : w.cards[c] = held'[c]) /\ \A l \in Loans : w.loans[l] = loan'[l].balance
  BY <1>6, <1>7, <1>13, <1>14, WorldIsRead DEF Cash
<1> QED BY <1>1, <1>6, <1>10, <1>17, <1>18, SameSums

\* What the simulation shows at T+0 for a settlement, a sale at a price, a purchase or a new balance
\* is what the executor and the form then leave (simulation_engine.py:226-356).
THEOREM PreviewsComeTrue == Spec => PreviewIsWhatHappens
<1> DEFINE Inv == Days /\ Money /\ Waits
           Exact == /\ \A d \in Debts : Settle(d) => Sums(SettleIn(World, d)) = Sums(World)'
                    /\ \A f \in Funds : Sell(f, 1) /\ fund[f].price > 0
                                            => Sums(SellIn(World, f, 1, fund[f].price)) = Sums(World)'
                    /\ \A a \in Accounts : TypeIn(a) => Sums(SetIn(World, a, real[a])) = Sums(World)'
                    /\ \A p \in Purchases :
                          Spend(p[1], p[2]) => Sums(TransactIn(World, Purse, "expense", p[1], TRUE)) = Sums(World)'
<1>1. Init => Inv
  BY DaysInit, MoneyInit, WaitsInit
<1>2. Inv /\ [Next]_vars => Inv'
  BY DaysStep, MoneyStep, WaitsStep
<1>3. Inv => Exact
  <2>1. \A p \in Purchases : p[1] \in Int
    BY HouseholdConstants
  <2> QED BY <2>1, SettlingIsPreviewed, SellingIsPreviewed, TypingInIsPreviewed, SpendingIsPreviewed
<1>4. Inv /\ [Next]_vars => [Exact]_vars
  BY <1>3
<1> HIDE DEF Inv, Exact
<1>5. Spec => [][Exact]_vars
  BY <1>1, <1>2, <1>4, PTL DEF Spec
<1> QED BY <1>5 DEF PreviewIsWhatHappens, Exact

-----------------------------------------------------------------------------
(* Urgent first. *)

InARow(s, t, both) == both = s \o t

LEMMA ListsInARow ==
    ASSUME NEW s, IsList(s), NEW t, IsList(t), NEW both, InARow(s, t, both)
    PROVE  /\ IsList(both) /\ Len(both) = Len(s) + Len(t) /\ Len(s) \in Nat /\ Len(t) \in Nat
           /\ \A k \in 1 .. Len(s) : both[k] = s[k]
           /\ \A k \in 1 .. Len(t) : both[Len(s) + k] = t[k]
<1>1. PICK Q, R : s \in Seq(Q) /\ t \in Seq(R)
  BY DEF IsList
<1>2. PICK A : A = Q \cup R
  OBVIOUS
<1>3. s \in Seq(A) /\ t \in Seq(A)
  BY <1>1, <1>2, SeqMonotonic
<1>4. both \in Seq(A) /\ Len(both) = Len(s) + Len(t) /\ Len(s) \in Nat /\ Len(t) \in Nat
  BY <1>3, ConcatProperties DEF InARow
<1>5. \A k \in 1 .. Len(s) + Len(t) : both[k] = IF k <= Len(s) THEN s[k] ELSE t[k - Len(s)]
  BY <1>3, ConcatProperties DEF InARow
<1>6. \A k \in 1 .. Len(s) : both[k] = s[k]
  BY <1>4, <1>5
<1>7. ASSUME NEW k \in 1 .. Len(t) PROVE both[Len(s) + k] = t[k]
  <2>1. Len(s) + k \in 1 .. Len(s) + Len(t) /\ ~(Len(s) + k <= Len(s)) /\ Len(s) + k - Len(s) = k
    BY <1>4
  <2> QED BY <1>5, <2>1
<1> QED BY <1>4, <1>6, <1>7 DEF IsList

\* All critical alerts, then only others; and the first stays first when it is critical.
CriticalFirst(found, alerts) ==
    /\ IsList(alerts)
    /\ \E c \in Nat : c <= Len(alerts) /\ \A k \in 1 .. Len(alerts) : alerts[k].level = "critical" <=> k <= c
    /\ \A i \in DOMAIN found : found[i].level = "critical" => \E k \in DOMAIN alerts : alerts[k] = found[i]
    /\ 1 \in DOMAIN found /\ found[1].level = "critical" => 1 \in DOMAIN alerts /\ alerts[1] = found[1]

LEMMA AlertsInOrder ==
    ASSUME NEW found, IsList(found), NEW alerts, alerts = Alerts(found)
    PROVE  CriticalFirst(found, alerts)
<1>1. PICK C, W, crit, warn :
          /\ C = {k \in DOMAIN found : found[k].level = "critical"} /\ crit = Picked(found, C)
          /\ W = {k \in DOMAIN found : found[k].level # "critical"} /\ warn = Picked(found, W)
  OBVIOUS
<1>2. /\ IsList(crit) /\ Len(crit) \in Nat
      /\ \A k \in 1 .. Len(crit) : \E i \in C : crit[k] = found[i]
      /\ \A i \in C : \E k \in 1 .. Len(crit) : crit[k] = found[i]
      /\ 1 \in C => Len(crit) >= 1 /\ crit[1] = found[1]
  <2>1. C \in SUBSET DOMAIN found /\ crit = Picked(found, C)
    BY <1>1
  <2>2. PickedOf(found, C, crit)
    BY ONLY <2>1, PickedIsThere, IsList(found)
  <2> QED BY ONLY <2>2 DEF PickedOf
<1>3. IsList(warn) /\ Len(warn) \in Nat /\ \A k \in 1 .. Len(warn) : \E i \in W : warn[k] = found[i]
  <2>1. W \in SUBSET DOMAIN found /\ warn = Picked(found, W)
    BY <1>1
  <2>2. PickedOf(found, W, warn)
    BY ONLY <2>1, PickedIsThere, IsList(found)
  <2> QED BY ONLY <2>2 DEF PickedOf
<1>4. PICK n \in Nat : n = Lesser(K.warningsShown, Len(warn)) /\ n <= Len(warn)
  BY <1>3, HouseholdConstants DEF Lesser
<1>5. PICK some : some = SubSeq(warn, 1, n)
  OBVIOUS
<1>6. IsList(some) /\ Len(some) = n /\ \A k \in 1 .. n : some[k] = warn[k]
  <2>1. PICK R : R = {warn[k] : k \in 1 .. n}
    OBVIOUS
  <2>2. \A k \in 1 .. n : warn[k] \in R
    BY <2>1
  <2>3. /\ some \in Seq(R) /\ Len(some) = IF 1 <= n THEN n - 1 + 1 ELSE 0
        /\ \A k \in 1 .. n - 1 + 1 : some[k] = warn[1 + k - 1]
    BY <1>5, <2>2, SubSeqProperties
  <2>4. n - 1 + 1 = n /\ \A k \in 1 .. n : 1 + k - 1 = k
    OBVIOUS
  <2> QED BY <2>3, <2>4 DEF IsList
<1>7. alerts = crit \o some
  BY <1>1, <1>4, <1>5 DEF Alerts, Critical, Warnings
<1>8. /\ IsList(alerts) /\ Len(alerts) = Len(crit) + n
      /\ \A k \in 1 .. Len(crit) : alerts[k] = crit[k]
      /\ \A k \in 1 .. n : alerts[Len(crit) + k] = some[k]
  <2>1. /\ IsList(alerts) /\ Len(alerts) = Len(crit) + Len(some)
        /\ \A k \in 1 .. Len(crit) : alerts[k] = crit[k]
        /\ \A k \in 1 .. Len(some) : alerts[Len(crit) + k] = some[k]
    <3>1. IsList(crit) /\ IsList(some) /\ InARow(crit, some, alerts)
      BY <1>2, <1>6, <1>7 DEF InARow
    <3> QED BY ONLY <3>1, ListsInARow
  <2> QED BY <1>6, <2>1
<1>9. DOMAIN alerts = 1 .. Len(alerts) /\ DOMAIN found = 1 .. Len(found)
  BY <1>8 DEF IsList
<1>10. ASSUME NEW k \in 1 .. Len(alerts) PROVE alerts[k].level = "critical" <=> k <= Len(crit)
  <2>1. CASE k <= Len(crit)
    <3>1. k \in 1 .. Len(crit)
      BY <1>2, <2>1
    <3>2. PICK i \in C : alerts[k] = found[i]
      <4>1. alerts[k] = crit[k] /\ \E i \in C : crit[k] = found[i]
        BY ONLY <1>2, <1>8, <3>1
      <4> QED BY ONLY <4>1
    <3> QED BY <1>1, <2>1, <3>2
  <2>2. CASE ~(k <= Len(crit))
    <3>1. PICK m \in 1 .. n : k = Len(crit) + m
      <4>1. k - Len(crit) \in 1 .. n /\ k = Len(crit) + (k - Len(crit))
        BY <1>2, <1>8, <2>2
      <4> QED BY <4>1
    <3>2. m \in 1 .. Len(warn)
      BY <1>3, <1>4
    <3>3. PICK i \in W : alerts[k] = found[i]
      BY <1>3, <1>6, <1>8, <3>1, <3>2
    <3> QED BY <1>1, <2>2, <3>3
  <2> QED BY <2>1, <2>2
<1>11. \A i \in C : \E k \in DOMAIN alerts : alerts[k] = found[i]
  <2>1. \A k \in 1 .. Len(crit) : k \in DOMAIN alerts /\ alerts[k] = crit[k]
    BY <1>2, <1>8, <1>9
  <2> QED BY <1>2, <2>1
<1>12. 1 \in C => 1 \in DOMAIN alerts /\ alerts[1] = found[1]
  BY <1>2, <1>8, <1>9
<1>13. Len(crit) <= Len(alerts)
  BY <1>2, <1>8
<1> QED BY <1>1, <1>2, <1>8, <1>10, <1>11, <1>12, <1>13 DEF CriticalFirst
\* A list starts as its first part that is not empty.
LEMMA FirstOfARow ==
    ASSUME NEW s, IsList(s), NEW t, IsList(t), NEW both, InARow(s, t, both)
    PROVE  /\ IsList(both)
           /\ 1 \in DOMAIN s => 1 \in DOMAIN both /\ both[1] = s[1]
           /\ s = <<>> /\ 1 \in DOMAIN t => 1 \in DOMAIN both /\ both[1] = t[1]
<1>1. /\ IsList(both) /\ Len(both) = Len(s) + Len(t) /\ Len(s) \in Nat /\ Len(t) \in Nat
      /\ \A k \in 1 .. Len(s) : both[k] = s[k]
      /\ \A k \in 1 .. Len(t) : both[Len(s) + k] = t[k]
  BY ListsInARow
<1>2. DOMAIN s = 1 .. Len(s) /\ DOMAIN t = 1 .. Len(t) /\ DOMAIN both = 1 .. Len(both)
  BY <1>1 DEF IsList
<1>3. ASSUME 1 \in DOMAIN s PROVE 1 \in DOMAIN both /\ both[1] = s[1]
  BY <1>1, <1>2, <1>3
<1>4. ASSUME s = <<>>, 1 \in DOMAIN t PROVE 1 \in DOMAIN both /\ both[1] = t[1]
  <2>1. Len(s) = 0
    BY <1>4
  <2>2. 1 \in 1 .. Len(t) /\ Len(s) + 1 = 1
    BY <1>2, <1>4, <2>1
  <2> QED BY <1>1, <1>2, <2>1, <2>2
<1> QED BY <1>1, <1>3, <1>4

LEMMA SingleIsList == ASSUME NEW p, NEW a PROVE IsList(If(p, a))
<1>1. PICK R : R = {a}
  OBVIOUS
<1>2. <<a>> \in Seq(R) /\ <<>> \in Seq(R)
  BY <1>1
<1>3. If(p, a) \in Seq(R)
  BY <1>2 DEF If
<1> QED BY <1>3 DEF IsList

LEMMA FirstPartIsList ==
    ASSUME NEW s, IsList(s), NEW n \in Nat, n <= Len(s)
    PROVE  IsList(SubSeq(s, 1, n))
<1>1. PICK R : s \in Seq(R)
  BY DEF IsList
<1>2. \A k \in 1 .. n : s[k] \in R
  <2>1. \A k \in 1 .. n : k \in 1 .. Len(s)
    BY <1>1
  <2> QED BY <1>1, <2>1
<1>3. SubSeq(s, 1, n) \in Seq(R)
  BY <1>2, SubSeqProperties
<1> QED BY <1>3 DEF IsList

\* What the alerts are about is finite.
LEMMA AlertsAreFinite ==
    ASSUME Days, Written
    PROVE  /\ \A dir : IsFiniteSet(Overdue(dir)) /\ Overdue(dir) \in SUBSET Debts
           /\ IsFiniteSet(BigPayments) /\ IsFiniteSet(DearerSubscriptions)
           /\ IsFiniteSet(OverspentCategories)
<1>1. \A S \in {Cards, Loans, Debts, Categories} : IsFiniteSet(S)
  BY HouseholdConstants
<1>2. ASSUME NEW dir PROVE IsFiniteSet(Overdue(dir)) /\ Overdue(dir) \in SUBSET Debts
  <2>1. Overdue(dir) \in SUBSET Debts
    BY DEF Overdue, Unpaid
  <2> QED BY <1>1, <2>1, FS_Subset
<1>3. IsFiniteSet(BigPayments)
  <2>1. PICK A, B, f, g :
            /\ A = {x \in Loans : Within(loan[x].next, day, day + K.ahead)}
            /\ f = [l \in A |-> Upcoming("loan", l, loan[l].next, home.loan[l].monthly)]
            /\ B = {x \in CardsDue : CardDate(x) <= day + K.ahead}
            /\ g = [c \in B |-> Upcoming("card", c, CardDate(c), Due(c))]
    OBVIOUS
  <2>2. IsFiniteSet(A) /\ IsFiniteSet(B)
    <3>1. A \in SUBSET Loans /\ B \in SUBSET Cards
      BY <2>1 DEF CardsDue
    <3> QED BY <1>1, <3>1, FS_Subset
  <2>3. IsFiniteSet({f[l] : l \in A}) /\ IsFiniteSet({g[c] : c \in B})
    BY <2>2, ImageIsFinite
  <2>4. UpcomingLoans = {f[l] : l \in A} /\ UpcomingCards = {g[c] : c \in B}
    BY <2>1 DEF UpcomingLoans, UpcomingCards
  <2>5. IsFiniteSet(UpcomingLoans \cup UpcomingCards)
    BY <2>3, <2>4, FS_Union
  <2>6. BigPayments \in SUBSET (UpcomingLoans \cup UpcomingCards)
    BY DEF BigPayments
  <2> QED BY <2>5, <2>6, FS_Subset
<1>4. IsFiniteSet(DearerSubscriptions)
  <2>1. PICK f, N : f = [n \in DOMAIN log |-> log[n].name] /\ N = {f[n] : n \in DOMAIN log}
    OBVIOUS
  <2>2. IsFiniteSet(N)
    BY <2>1, LogIsKnown, ImageIsFinite
  <2>3. DearerSubscriptions \in SUBSET N
    BY <2>1 DEF DearerSubscriptions, Subscriptions, NamesSeen
  <2> QED BY <2>2, <2>3, FS_Subset
<1>5. IsFiniteSet(OverspentCategories)
  <2>1. OverspentCategories \in SUBSET Categories
    BY DEF OverspentCategories
  <2> QED BY <1>1, <2>1, FS_Subset
<1> QED BY <1>2, <1>3, <1>4, <1>5

\* sorted by the date the debts fall due: the first is one of the oldest.
LEMMA OldestIsFirst ==
    ASSUME Days, Written, NEW dir, NEW D, D = Overdue(dir), D # {}
    PROVE  /\ 1 \in 1 .. Cardinality(D) /\ OldestFirst(D)[1] \in D
           /\ \A e \in D : home.debt[OldestFirst(D)[1]].due <= home.debt[e].due
<1>1. PICK n \in Nat : n = Cardinality(D) /\ n # 0 /\ IsFiniteSet(D)
  BY AlertsAreFinite, FS_CardinalityType, FS_EmptySet
<1>2. PICK f : f = [d \in D |-> home.debt[d].due]
  OBVIOUS
<1>3. f \in [D -> Int]
  <2>1. \A d \in D : d \in Debts /\ home.debt[d].due # None
    BY DEF Overdue, Unpaid
  <2>2. home.debt \in [Debts -> [dir : {"receivable", "payable"}, amount : Int, due : Int \cup {None}]]
    BY HomeIsKnown
  <2>3. \A d \in D : home.debt[d].due \in Int
    BY <2>1, <2>2
  <2> QED BY <1>2, <2>3
<1>4. PICK order : order = OldestFirst(D)
  OBVIOUS
<1>5. PICK InOrder : InOrder = {q \in SetToSeqs(D) : \A i, j \in DOMAIN q : i < j => home.debt[q[i]].due <= home.debt[q[j]].due}
  OBVIOUS
<1>6. \A q : q \in InOrder <=> Sorts(q, f, D)
  <2>1. \A q : q \in SetToSeqs(D) <=> q \in [1 .. n -> D] /\ \A i, j \in 1 .. n : i # j => q[i] # q[j]
    BY <1>1 DEF SetToSeqs
  <2>2. \A q : q \in SetToSeqs(D) => DOMAIN q = 1 .. n /\ \A i \in 1 .. n : f[q[i]] = home.debt[q[i]].due
    BY <1>2, <2>1
  <2> QED BY <1>1, <1>5, <2>1, <2>2 DEF Sorts
<1>7. InOrder # {}
  BY <1>1, <1>3, <1>6, SortedExists
<1>8. order \in InOrder
  BY <1>4, <1>5, <1>7 DEF OldestFirst, Sorted
<1>9. Sorts(order, f, D)
  BY <1>6, <1>8
<1>10. 1 \in 1 .. n
  BY <1>1
<1>11. order[1] \in D /\ \A i \in 1 .. n : i # 1 => f[order[1]] <= f[order[i]]
  <2>1. \A i \in 1 .. n : i # 1 => 1 < i
    OBVIOUS
  <2> QED BY <1>1, <1>9, <1>10, <2>1 DEF Sorts
<1>12. ASSUME NEW e \in D PROVE f[order[1]] <= f[e]
  <2>1. PICK i \in 1 .. n : order[i] = e
    BY <1>1, <1>9, SortedIsAll
  <2>2. f[e] \in Int
    BY <1>3
  <2> QED BY <1>11, <2>1, <2>2
<1> QED BY <1>1, <1>2, <1>4, <1>10, <1>11, <1>12

\* The overdue debts come first in what is found, from an oldest one on; without any, the crunch.
LEMMA FoundIsKnown ==
    ASSUME Days, Written, NEW forecast, NEW found, found = Found(forecast)
    PROVE  /\ IsList(found)
           /\ Overdue("payable") # {} =>
                /\ 1 \in DOMAIN found
                /\ \E d \in Overdue("payable") :
                      /\ \A e \in Overdue("payable") : home.debt[d].due <= home.debt[e].due
                      /\ found[1] = Alert("critical", "debtOverdue", home.debt[d].amount)
           /\ Overdue("payable") = {} /\ forecast.crunch # {} =>
                1 \in DOMAIN found /\ found[1] = Alert("critical", "crunch", -forecast.lowest)
<1>1. PICK late, crunch, detected, owing, dearer, most, overspent, trap, silent :
          /\ late = OverdueAlerts("payable", "critical", "debtOverdue")
          /\ crunch = CrunchAlert(forecast)
          /\ detected = Detected
          /\ owing = OverdueAlerts("receivable", "warning", "receivableOverdue")
          /\ dearer = Each(DearerSubscriptions, "warning", "dearer", NewPrice)
          /\ most = Each(OverspentCategories, "warning", "overspent", LAMBDA c : Projected(SoFar.of[c]))
          /\ overspent = SubSeq(most, 1, Lesser(2, Cardinality(OverspentCategories)))
          /\ trap = TrapAlerts
          /\ silent = If(SilentPrices # {}, Alert("warning", "priceSilent", 0))
  OBVIOUS
<1>2. found = late \o crunch \o detected \o owing \o dearer \o overspent \o trap \o silent
  BY <1>1 DEF Found
<1>3. ASSUME NEW dir, NEW level, NEW code, NEW s, s = OverdueAlerts(dir, level, code)
      PROVE  IsList(s) /\ Len(s) = Cardinality(Overdue(dir))
  <2>1. PICK n \in Nat : n = Cardinality(Overdue(dir))
    BY AlertsAreFinite, FS_CardinalityType
  <2>2. s = [k \in 1 .. n |-> s[k]]
    BY <1>3, <2>1 DEF OverdueAlerts
  <2> QED BY <2>1, <2>2, CountedIsList
<1>4. IsList(dearer)
  <2>1. PICK n \in Nat : n = Cardinality(DearerSubscriptions)
    BY AlertsAreFinite, FS_CardinalityType
  <2>2. dearer = [k \in 1 .. n |-> dearer[k]]
    BY <1>1, <2>1 DEF Each
  <2> QED BY <2>2, CountedIsList
<1>5. IsList(overspent)
  <2>1. PICK n \in Nat : n = Cardinality(OverspentCategories)
    BY AlertsAreFinite, FS_CardinalityType
  <2>2. most = [k \in 1 .. n |-> most[k]]
    BY <1>1, <2>1 DEF Each
  <2>3. IsList(most) /\ Len(most) = n
    BY <2>2, CountedIsList
  <2>4. PICK m \in Nat : m = Lesser(2, n) /\ m <= n
    BY DEF Lesser
  <2> QED BY <1>1, <2>1, <2>3, <2>4, FirstPartIsList
<1>6. IsList(detected)
  <2>1. PICK n \in Nat : n = Cardinality(BigPayments)
    BY AlertsAreFinite, FS_CardinalityType
  <2>2. PICK full, high, negative, low, big :
            /\ full = If(CardLimit > 0 /\ 100 * CardDebt >= 95 * CardLimit, Alert("critical", "cardFull", CardDebt))
            /\ high = If(CardLimit > 0 /\ 100 * CardDebt \in 80 * CardLimit .. 95 * CardLimit - 1,
                         Alert("warning", "cardHigh", CardDebt))
            /\ negative = If(RealBudget < 0, Alert("critical", "budgetNegative", RealBudget))
            /\ low = If(Cash < K.lowCash, Alert("warning", "cashLow", Cash))
            /\ big = Each(BigPayments, "warning", "bigPayment", LAMBDA u : u.amount)
    OBVIOUS
  <2>3. big = [k \in 1 .. n |-> big[k]]
    BY <2>1, <2>2 DEF Each
  <2>4. IsList(full) /\ IsList(high) /\ IsList(negative) /\ IsList(low) /\ IsList(big)
    BY <2>2, <2>3, SingleIsList, CountedIsList
  <2>5. detected = full \o high \o negative \o low \o big
    BY <1>1, <2>2 DEF Detected
  <2>6. PICK two, three, four :
            InARow(full, high, two) /\ InARow(two, negative, three) /\ InARow(three, low, four)
            /\ InARow(four, big, detected)
    BY <2>5 DEF InARow
  <2>7. IsList(two)
    BY ONLY <2>4, <2>6, ListsInARow
  <2>8. IsList(three)
    BY ONLY <2>4, <2>6, <2>7, ListsInARow
  <2>9. IsList(four)
    BY ONLY <2>4, <2>6, <2>8, ListsInARow
  <2> QED BY ONLY <2>4, <2>6, <2>9, ListsInARow
<1>7. IsList(late) /\ IsList(owing) /\ Len(late) = Cardinality(Overdue("payable"))
  BY <1>1, <1>3
<1>8. IsList(crunch) /\ IsList(silent)
  BY <1>1, SingleIsList DEF CrunchAlert
<1>20. IsList(trap)
  <2>1. IsList(<<>>)
    BY EmptySeq DEF IsList
  <2>2. \A a, condition : IsList(<<a>>) /\ IsList(If(condition, a))
    <3>1. ASSUME NEW a PROVE IsList(<<a>>)
      <4>1. <<a>> = If(TRUE, a)
        BY DEF If
      <4> QED BY <4>1, SingleIsList
    <3> QED BY <3>1, <2>1 DEF If
  <2>3. \/ trap = <<>>
        \/ \E a, condition : trap = <<a>> \/ trap = If(condition, a)
    BY <1>1, Zenon DEF TrapAlerts
  <2> QED BY <2>1, <2>2, <2>3
<1>9. PICK two, three, four, five, six, seven :
          /\ InARow(late, crunch, two) /\ InARow(two, detected, three) /\ InARow(three, owing, four)
          /\ InARow(four, dearer, five) /\ InARow(five, overspent, six) /\ InARow(six, trap, seven)
          /\ InARow(seven, silent, found)
  BY <1>2 DEF InARow
<1>10. ASSUME NEW s, IsList(s), NEW t, IsList(t), NEW both, InARow(s, t, both)
       PROVE  IsList(both) /\ (1 \in DOMAIN s => 1 \in DOMAIN both /\ both[1] = s[1])
  BY ONLY <1>10, FirstOfARow
<1>11. IsList(two) /\ IsList(three) /\ IsList(four) /\ IsList(five) /\ IsList(six) /\ IsList(seven) /\ IsList(found)
  <2>1. IsList(two)
    BY ONLY <1>7, <1>8, <1>9, <1>10
  <2>2. IsList(three)
    BY ONLY <2>1, <1>6, <1>9, <1>10
  <2>3. IsList(four)
    BY ONLY <2>2, <1>7, <1>9, <1>10
  <2>4. IsList(five)
    BY ONLY <2>3, <1>4, <1>9, <1>10
  <2>5. IsList(six)
    BY ONLY <2>4, <1>5, <1>9, <1>10
  <2>6. IsList(seven)
    BY ONLY <2>5, <1>20, <1>9, <1>10
  <2>7. IsList(found)
    BY ONLY <2>6, <1>8, <1>9, <1>10
  <2> QED BY <2>1, <2>2, <2>3, <2>4, <2>5, <2>6, <2>7
<1>12. 1 \in DOMAIN two => 1 \in DOMAIN found /\ found[1] = two[1]
  <2>1. 1 \in DOMAIN two => 1 \in DOMAIN three /\ three[1] = two[1]
    BY ONLY <1>6, <1>9, <1>10, <1>11
  <2>2. 1 \in DOMAIN three => 1 \in DOMAIN four /\ four[1] = three[1]
    BY ONLY <1>7, <1>9, <1>10, <1>11
  <2>3. 1 \in DOMAIN four => 1 \in DOMAIN five /\ five[1] = four[1]
    BY ONLY <1>4, <1>9, <1>10, <1>11
  <2>4. 1 \in DOMAIN five => 1 \in DOMAIN six /\ six[1] = five[1]
    BY ONLY <1>5, <1>9, <1>10, <1>11
  <2>5. 1 \in DOMAIN six => 1 \in DOMAIN seven /\ seven[1] = six[1]
    BY ONLY <1>20, <1>9, <1>10, <1>11
  <2>6. 1 \in DOMAIN seven => 1 \in DOMAIN found /\ found[1] = seven[1]
    BY ONLY <1>8, <1>9, <1>10, <1>11
  <2> QED BY ONLY <2>1, <2>2, <2>3, <2>4, <2>5, <2>6
<1>13. /\ 1 \in DOMAIN late => 1 \in DOMAIN two /\ two[1] = late[1]
       /\ late = <<>> /\ 1 \in DOMAIN crunch => 1 \in DOMAIN two /\ two[1] = crunch[1]
  BY ONLY <1>7, <1>8, <1>9, FirstOfARow
<1>14. ASSUME Overdue("payable") # {}
       PROVE  /\ 1 \in DOMAIN late
              /\ \E d \in Overdue("payable") :
                    /\ \A e \in Overdue("payable") : home.debt[d].due <= home.debt[e].due
                    /\ late[1] = Alert("critical", "debtOverdue", home.debt[d].amount)
  <2>1. PICK D : D = Overdue("payable")
    OBVIOUS
  <2>2. PICK d \in D : /\ \A e \in D : home.debt[d].due <= home.debt[e].due
                       /\ d = OldestFirst(D)[1]
    BY <1>14, <2>1, OldestIsFirst
  <2>3. 1 \in 1 .. Cardinality(D)
    BY <1>14, <2>1, OldestIsFirst
  <2>4. DOMAIN late = 1 .. Cardinality(D) /\ late[1] = Alert("critical", "debtOverdue", home.debt[d].amount)
    BY <1>1, <2>1, <2>2, <2>3 DEF OverdueAlerts
  <2> QED BY <2>1, <2>2, <2>3, <2>4
<1>15. ASSUME Overdue("payable") = {}, forecast.crunch # {}
       PROVE  late = <<>> /\ 1 \in DOMAIN crunch /\ crunch[1] = Alert("critical", "crunch", -forecast.lowest)
  <2>1. Cardinality(Overdue("payable")) = 0
    BY <1>15, FS_EmptySet
  <2>2. late = <<>>
    <3>1. PICK R : late \in Seq(R) /\ Len(late) = 0
      BY <1>7, <2>1 DEF IsList
    <3> QED BY <3>1, EmptySeq
  <2>3. crunch = <<Alert("critical", "crunch", -forecast.lowest)>>
    BY <1>1, <1>15 DEF CrunchAlert, If
  <2> QED BY <2>2, <2>3
<1>16. Overdue("payable") # {} =>
          /\ 1 \in DOMAIN found
          /\ \E d \in Overdue("payable") :
                /\ \A e \in Overdue("payable") : home.debt[d].due <= home.debt[e].due
                /\ found[1] = Alert("critical", "debtOverdue", home.debt[d].amount)
  BY <1>12, <1>13, <1>14
<1>17. Overdue("payable") = {} /\ forecast.crunch # {} =>
          1 \in DOMAIN found /\ found[1] = Alert("critical", "crunch", -forecast.lowest)
  BY <1>12, <1>13, <1>15
<1> QED BY <1>11, <1>16, <1>17

LEMMA AlertSays ==
    \A level, code, amount :
        /\ Alert(level, code, amount).level = level /\ Alert(level, code, amount).code = code
        /\ Alert(level, code, amount).amount = amount
BY DEF Alert

LEMMA AdviceSays == \A kind, amount : Advice(kind, amount).kind = kind /\ Advice(kind, amount).amount = amount
BY DEF Advice

\* The one step is about the alert that comes first.
LEMMA FirstAlertDecides ==
    ASSUME NEW alerts, IsList(alerts), NEW code, 1 \in DOMAIN alerts, alerts[1].code = code
    PROVE  First(alerts, code) = 1
<1>1. DOMAIN alerts = 1 .. Len(alerts) /\ Len(alerts) \in Nat
  BY DEF IsList
<1>2. PICK P : P = {k \in 1 .. Len(alerts) : alerts[k].code = code}
  OBVIOUS
<1>3. 1 \in P /\ \A k \in P : k \in Int /\ 1 <= k
  BY <1>1, <1>2
<1>4. First(alerts, code) = IF P # {} THEN Min(P) ELSE 0
  BY <1>2 DEF First, SelectInSeq
<1>5. Min(P) = 1
  <2>1. Min(P) \in P /\ \A y \in P : Min(P) <= y
    BY <1>3 DEF Min
  <2> QED BY <1>3, <2>1
<1> QED BY <1>3, <1>4, <1>5

LEMMA UrgentIsFirst == Days /\ Written => UrgentFirst
<1> SUFFICES ASSUME Days, Written PROVE UrgentFirst
  OBVIOUS
<1>1. PICK forecast, found, alerts, panel :
          /\ forecast = ForecastSummary /\ found = Found(forecast) /\ alerts = Alerts(found)
          /\ panel = Panel
  OBVIOUS
<1>2. panel.alerts = alerts /\ panel.next = NextStep(alerts)
  BY <1>1 DEF Panel
<1>3. /\ IsList(found)
      /\ Overdue("payable") # {} =>
           /\ 1 \in DOMAIN found
           /\ \E d \in Overdue("payable") :
                 /\ \A e \in Overdue("payable") : home.debt[d].due <= home.debt[e].due
                 /\ found[1] = Alert("critical", "debtOverdue", home.debt[d].amount)
      /\ Overdue("payable") = {} /\ forecast.crunch # {} =>
           1 \in DOMAIN found /\ found[1] = Alert("critical", "crunch", -forecast.lowest)
  BY <1>1, FoundIsKnown
<1>4. /\ IsList(alerts)
      /\ \E c \in Nat : c <= Len(alerts) /\ \A k \in 1 .. Len(alerts) : alerts[k].level = "critical" <=> k <= c
      /\ \A i \in DOMAIN found : found[i].level = "critical" => \E k \in DOMAIN alerts : alerts[k] = found[i]
      /\ 1 \in DOMAIN found /\ found[1].level = "critical" => 1 \in DOMAIN alerts /\ alerts[1] = found[1]
  <2>1. IsList(found) /\ alerts = Alerts(found)
    BY <1>1, <1>3
  <2>2. CriticalFirst(found, alerts)
    BY <2>1, AlertsInOrder
  <2> QED BY <2>2 DEF CriticalFirst
<1>5. PICK critical : critical = {k \in DOMAIN alerts : alerts[k].level = "critical"}
  OBVIOUS
<1>6. ASSUME NEW k \in critical, NEW n \in DOMAIN alerts \ critical PROVE k < n
  <2>1. PICK c \in Nat : \A i \in 1 .. Len(alerts) : alerts[i].level = "critical" <=> i <= c
    BY <1>4
  <2>2. DOMAIN alerts = 1 .. Len(alerts)
    BY <1>4 DEF IsList
  <2>3. k \in Int /\ n \in Int /\ k <= c /\ ~(n <= c)
    BY <1>5, <2>1, <2>2
  <2> QED BY <2>3
<1>7. ASSUME NEW a \in Range(found), a.level = "critical" PROVE \E k \in critical : alerts[k] = a
  <2>1. PICK i \in DOMAIN found : a = found[i]
    BY DEF Range
  <2> QED BY <1>4, <1>5, <1>7, <2>1
<1>8. ASSUME Overdue("payable") # {}
      PROVE  /\ panel.next.kind = "default"
             /\ \E d \in Overdue("payable") :
                   /\ \A e \in Overdue("payable") : home.debt[d].due <= home.debt[e].due
                   /\ panel.next.amount = home.debt[d].amount
  <2>1. PICK d \in Overdue("payable") :
            /\ \A e \in Overdue("payable") : home.debt[d].due <= home.debt[e].due
            /\ found[1] = Alert("critical", "debtOverdue", home.debt[d].amount)
    BY <1>3, <1>8
  <2>2. 1 \in DOMAIN alerts /\ alerts[1] = found[1]
    <3>1. found[1].level = "critical"
      BY <2>1, AlertSays
    <3> QED BY <1>3, <1>4, <1>8, <3>1
  <2>3. alerts[1].code = "debtOverdue" /\ alerts[1].amount = home.debt[d].amount
    BY <2>1, <2>2, AlertSays
  <2>4. First(alerts, "debtOverdue") = 1
    BY <1>4, <2>2, <2>3, FirstAlertDecides
  <2>5. panel.next = Advice("default", home.debt[d].amount)
    <3>1. First(alerts, "debtOverdue") # 0
      BY <2>4
    <3>2. NextStep(alerts) = Advice("default", alerts[First(alerts, "debtOverdue")].amount)
      BY <3>1, Zenon DEF NextStep
    <3> QED BY <1>2, <2>3, <2>4, <3>2
  <2> QED BY <2>1, <2>5, AdviceSays
<1>9. ASSUME panel.next.kind \in {"payCard", "collect", "steady", "none"}
      PROVE  forecast.crunch = {} /\ Overdue("payable") = {}
  <2>1. Overdue("payable") = {}
    BY <1>8, <1>9
  <2>2. ASSUME forecast.crunch # {} PROVE FALSE
    <3>1. 1 \in DOMAIN found /\ found[1] = Alert("critical", "crunch", -forecast.lowest)
      BY <1>3, <2>1, <2>2
    <3>2. 1 \in DOMAIN alerts /\ alerts[1].code = "crunch"
      <4>1. found[1].level = "critical" /\ found[1].code = "crunch"
        BY <3>1, AlertSays
      <4> QED BY <1>4, <3>1, <4>1
    <3>3. First(alerts, "crunch") = 1
      BY <1>4, <3>2, FirstAlertDecides
    <3>4. NextStep(alerts).kind \in {"default", "crunch"}
      <4>1. First(alerts, "crunch") # 0
        BY <3>3
      <4>2. \/ NextStep(alerts) = Advice("default", alerts[First(alerts, "debtOverdue")].amount)
            \/ \E amount : NextStep(alerts) = Advice("crunch", amount)
        BY <4>1, Zenon DEF NextStep
      <4> QED BY <4>2, AdviceSays
    <3> QED BY <1>2, <1>9, <3>4
  <2> QED BY <2>1, <2>2
<1> QED BY <1>1, <1>2, <1>5, <1>6, <1>7, <1>8, <1>9 DEF UrgentFirst

\* Every critical alert is shown, before any warning, and the recommended step is about the oldest
\* overdue debt or else the crunch (detect_alerts, generate_cockpit, recommend_next_action).
THEOREM UrgentComesFirst == Spec => []UrgentFirst
<1> QED BY UrgentIsFirst, DaysInit, DaysStep, MoneyInit, WrittenStep, PTL DEF Spec
=============================================================================
