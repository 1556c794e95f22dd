------------------------------ MODULE Calendar ------------------------------
(***************************************************************************)
(* Dates, months and monthly recurrence as the rules engine, the cash flow *)
(* forecast and the simulation reckon with them (app/rules_engine.py,      *)
(* app/cashflow.py, app/simulation_engine.py).                             *)
(*                                                                         *)
(* A date is the number of its day, a month the number of its position in  *)
(* Lengths, the lengths of the months; short months clamp as in the code.  *)
(***************************************************************************)
EXTENDS Integers, Sequences, FiniteSets

CONSTANT Lengths

ASSUME MonthsHaveDays == Lengths \in Seq(Nat \ {0}) /\ Len(Lengths) > 0

Lesser(x, y)  == IF x < y THEN x ELSE y
Greater(x, y) == IF x < y THEN y ELSE x

Months == 1 .. Len(Lengths)
FirstOf == LET first[m \in Months] == IF m = 1 THEN 1 ELSE first[m - 1] + Lengths[m - 1]
           IN  [m \in Months |-> first[m]]
LastOf == [m \in Months |-> FirstOf[m] + Lengths[m] - 1]
Dates == 1 .. LastOf[Len(Lengths)]
MonthOf == [d \in Dates |-> CHOOSE m \in Months : d \in FirstOf[m] .. LastOf[m]]
DayOf(d) == d - FirstOf[MonthOf[d]] + 1
EndOfMonth(d) == LastOf[MonthOf[d]]
RemainingDays(d) == EndOfMonth(d) - d + 1

\* The n-th day of month m, or its last day when the month is shorter.
Clamped(m, n) == Lesser(FirstOf[m] + n - 1, LastOf[m])

\* _get_next_due_date: the day itself counts.
NextDue(d, n) ==
    IF Clamped(MonthOf[d], n) >= d THEN Clamped(MonthOf[d], n) ELSE Clamped(MonthOf[d] + 1, n)

\* get_next_occurrence: the day itself does not.
NextOccurrence(d, n) ==
    IF Clamped(MonthOf[d], n) > d THEN Clamped(MonthOf[d], n) ELSE Clamped(MonthOf[d] + 1, n)

\* _month_occurrences: every occurrence from start to end, both included.
Occurrences(start, end, n) ==
    {Clamped(m, n) : m \in MonthOf[start] .. MonthOf[end]} \cap (start .. end)

\* The same day a month later; a day lost to a short month stays lost.
MonthLater(d) == Clamped(MonthOf[d] + 1, DayOf(d))

\* _next_payment_in_window: the dates after start and up to end that a cursor
\* stepping by MonthLater meets.
Cursor(from, start, end) ==
    LET seen[k \in 0 .. Len(Lengths)] ==
            IF k = 0 THEN {from}
            ELSE LET past == seen[k - 1]
                     last == CHOOSE d \in past : \A e \in past : e <= d
                 IN  IF last > end THEN past ELSE past \cup {MonthLater(last)}
    IN  seen[Len(Lengths)] \cap (start + 1 .. end)
=============================================================================
