---------------------------- MODULE PayoffProofs ----------------------------
(***************************************************************************)
(* The month by month engine of the debt strategies, for any number of     *)
(* debts of any kind: it keeps its books, asks no more of the household    *)
(* than it has freed, and of loans no less either.                         *)
(***************************************************************************)
EXTENDS Payoff, DataProofs, TLAPS

-----------------------------------------------------------------------------
(* The operators of the model. *)

LEMMA QuotientIsNat ==
    ASSUME NEW a \in Nat, NEW k \in Nat \ {0}
    PROVE  a \div k \in Nat
OBVIOUS

LEMMA ProductGrows ==
    ASSUME NEW a \in Nat, NEW b \in Nat, NEW k \in Nat, a <= b
    PROVE  a * k \in Nat /\ b * k \in Nat /\ a * k <= b * k
<1>1. PICK n \in Nat : b = a + n
  <2>1. b - a \in Nat /\ b = a + (b - a)
    OBVIOUS
  <2> QED BY <2>1
<1>2. n * k \in Nat /\ a * k \in Nat /\ b * k = a * k + n * k
  BY <1>1, SMT
<1> QED BY <1>2

LEMMA AccountFields ==
    ASSUME PTypeOK, NEW d \in Debts
    PROVE  /\ accs[d].kind \in {"credit_card", "loan"}
           /\ accs[d].balance \in Nat /\ accs[d].rate \in Nat /\ accs[d].ratio \in Nat
           /\ accs[d].statement \in Nat \cup {None}
           /\ accs[d].monthly \in Nat /\ accs[d].left \in Nat
<1> DEFINE Kept == [kind : {"credit_card", "loan"}, balance : Nat, rate : Nat, ratio : Nat,
                    statement : Nat \cup {None}, monthly : Nat, left : Nat]
<1>1. accs[d] \in Kept
  BY PayoffAssumption DEF PTypeOK
<1> QED BY <1>1

LEMMA Constants ==
    /\ \A d \in Debts : d \in Nat
    /\ IsFiniteSet(Debts) /\ None \notin Nat
    /\ Cent \in Nat /\ Cent > 0 /\ Floor \in Nat /\ CardRate \in Nat /\ MaxMonths \in Nat
BY PayoffAssumption

LEMMA AccountNumbers ==
    ASSUME PTypeOK, NEW d \in Debts
    PROVE  /\ Rate(d) \in Nat /\ Ratio(d) \in 1..100 /\ Statement(d) \in Nat
           /\ FirstMinimum(d) \in Nat
<1>1. Rate(d) \in Nat /\ Ratio(d) \in 1..100 /\ Statement(d) \in Nat
  BY AccountFields, Constants DEF Rate, Ratio, KnownRatio, Statement
<1>2. (Statement(d) * Ratio(d)) \div 100 \in Nat
  <2>1. Statement(d) * Ratio(d) \in Nat
    BY <1>1, ProductGrows
  <2> QED BY <2>1, QuotientIsNat
<1>3. (accs[d].balance * 5) \div 100 \in Nat
  BY AccountFields
<1>4. accs[d].left > 0 => accs[d].balance \div accs[d].left \in Nat
  BY AccountFields, QuotientIsNat
<1>5. FirstMinimum(d) \in Nat
  BY <1>2, <1>3, <1>4, AccountFields, Constants DEF FirstMinimum, Larger
<1> QED BY <1>1, <1>5

\* A larger balance has no smaller minimum.
LEMMA MinimumGrows ==
    ASSUME PTypeOK, NEW d \in Debts, NEW b \in Nat, NEW c \in Nat, b <= c
    PROVE  MinimumOf(d, b) \in Nat /\ MinimumOf(d, c) \in Nat /\ MinimumOf(d, b) <= MinimumOf(d, c)
<1>1. /\ b * Ratio(d) \in Nat /\ c * Ratio(d) \in Nat /\ b * Ratio(d) <= c * Ratio(d)
  BY AccountNumbers, ProductGrows
<1>2. \A x, y \in Nat : x <= y => x \div 100 \in Nat /\ y \div 100 \in Nat /\ x \div 100 <= y \div 100
  OBVIOUS
<1> QED BY <1>1, <1>2, AccountNumbers, Constants DEF MinimumOf, Larger

LEMMA InterestIsNat ==
    ASSUME PTypeOK, NEW d \in Debts, NEW b \in Nat
    PROVE  Interest(b, Rate(d)) \in Nat
<1>1. b * Rate(d) \in Nat
  BY AccountNumbers, ProductGrows
<1> QED BY <1>1 DEF Interest

\* What is paid as a minimum settles the debt or is the minimum.
LEMMA MinimumPaidSettles ==
    ASSUME PTypeOK, NEW d \in Debts
    PROVE  /\ MinimumPaid(d) \in Nat /\ owed[d] \in Nat /\ MinimumPaid(d) <= owed[d]
           /\ Minimum(d) \in Nat
           /\ owed[d] - MinimumPaid(d) > 0 => MinimumPaid(d) = Minimum(d)
<1>1. owed[d] \in Nat
  BY DEF PTypeOK
<1>2. Minimum(d) \in Nat
  BY <1>1, MinimumGrows DEF Minimum
<1> HIDE DEF Minimum
<1> QED BY <1>1, <1>2, Constants DEF MinimumPaid, Settling, Smaller

\* What is paid on top settles the debt or is all there is.
LEMMA ExtraPaidSettles ==
    ASSUME PTypeOK, NEW d \in Debts, spare >= 0
    PROVE  /\ ExtraPaid(d) \in Nat /\ owed[d] \in Nat /\ ExtraPaid(d) <= owed[d]
           /\ owed[d] - ExtraPaid(d) > 0 => ExtraPaid(d) = spare
<1>1. owed[d] \in Nat /\ spare \in Int
  BY DEF PTypeOK
<1> QED BY <1>1, Constants DEF ExtraPaid, Settling, Smaller

\* Of several debts one is served first.
LEMMA FirstIsOne ==
    ASSUME PTypeOK, plan \in Plans, NEW S \in SUBSET Debts, S # {}
    PROVE  First(S) \in S
<1> DEFINE H == {T \in SUBSET S : T # {} => \E d \in T : \A e \in T \ {d} : Before(d, e)}
<1>1. \A d \in Debts : accs[d].balance \in Nat /\ Rate(d) \in Nat /\ d \in Nat
  BY AccountFields, AccountNumbers, Constants
<1>2. ASSUME NEW d \in Debts, NEW e \in Debts, d # e PROVE Before(d, e) \/ Before(e, d)
  BY <1>1, <1>2 DEF Before, ByBalance, ByRate
<1>3. ASSUME NEW d \in Debts, NEW e \in Debts, NEW f \in Debts, Before(d, e), Before(e, f)
      PROVE  Before(d, f)
  BY <1>1, <1>3 DEF Before, ByBalance, ByRate
<1> HIDE DEF H
<1>4. {} \in H
  BY DEF H
<1>5. ASSUME NEW T \in SUBSET S, NEW x \in S \ T, T \in H
      PROVE  T \cup {x} \in H
  <2>1. CASE T = {}
    BY <2>1 DEF H
  <2>2. CASE T # {}
    <3>1. PICK d \in T : \A e \in T \ {d} : Before(d, e)
      BY <1>5, <2>2 DEF H
    <3>2. CASE Before(d, x)
      <4>1. \A e \in (T \cup {x}) \ {d} : Before(d, e)
        BY <3>1, <3>2
      <4> QED BY <4>1 DEF H
    <3>3. CASE Before(x, d)
      <4>1. \A e \in (T \cup {x}) \ {x} : Before(x, e)
        BY <1>3, <3>1, <3>3
      <4> QED BY <4>1 DEF H
    <3> QED BY <1>2, <3>2, <3>3
  <2> QED BY <2>1, <2>2
<1>6. IsFiniteSet(S)
  BY Constants, FS_Subset
<1>7. S \in H
  BY <1>4, <1>5, <1>6, OneByOne
<1> QED BY <1>7 DEF H, First

-----------------------------------------------------------------------------
(* The inductive invariant. *)

\* An engine that runs has a plan, a trap a debt; before the first month nothing has accrued.
Started ==
    /\ \A p \in todo : p.kind = "trap" => p.card \in Debts
    /\ phase # "idle" => plan \in Plans
    /\ phase = "prepay" => spare >= 0 /\ month = 0 /\ accrued = Zero /\ credited = Zero

\* Debts are served while they run, and closed when nothing is left of them.
Serving ==
    /\ phase \in {"minimums", "extra"} => serve \subseteq Running /\ \A d \in closing : owed[d] = 0
    /\ phase = "close" => \A d \in serve : owed[d] = 0
    /\ phase \in {"minimums", "extra"} => closing \subseteq part
    /\ phase = "close" => serve \subseteq part

\* The debts whose minimum of this month is to be paid, and those that closed
\* and whose minimum is not yet added to the extra.
Unpaid   == IF phase = "minimums" THEN serve ELSE {}
Unrolled == IF phase = "close" THEN serve ELSE IF phase \in {"minimums", "extra"} THEN closing ELSE {}

\* The last minimum was worked out on what is owed now and that minimum, or on more.
WorkedOut(d) == MinimumOf(d, owed[d] + lastBase[d])
LastPaid ==
    phase \in {"minimums", "extra", "close", "month"} /\ month > 0 =>
        \A d \in Running \ Unpaid : lastBase[d] >= WorkedOut(d)

\* What the household was asked for at the start of the month covers the extra,
\* the minimums of the debts that run and those that closed debts have freed.
Claim == [d \in Debts |-> IF d \in Unpaid THEN Minimum(d)
                          ELSE IF d \in Running \cup Unrolled THEN lastBase[d] ELSE 0]
Covered ==
    phase \in {"minimums", "extra", "close", "month"} /\ month > 0 =>
        budget >= extra + SumFunctionOnSet(Claim, Debts)

\* A loan whose minimum has been dealt with frees its instalment.
LastFixed ==
    phase \in {"minimums", "extra", "close", "month"} /\ month > 0 =>
        \A d \in (Running \cup Unrolled) \ Unpaid : ~Card(d) => lastBase[d] = FirstMinimum(d)

\* In a plan of loans the budget is the extra and the instalments of the loans
\* that run or have closed and are not yet rolled over.
Fixed == [d \in Debts |-> IF d \in Running \cup Unrolled THEN FirstMinimum(d) ELSE 0]
Whole ==
    phase \in {"minimums", "extra", "close", "month"} /\ month > 0 /\ OnlyLoans /\ ~LeftBehind =>
        budget = extra + SumFunctionOnSet(Fixed, Debts)

PayoffInv ==
    /\ PTypeOK /\ NothingIsLost /\ Started /\ Serving
    /\ LastPaid /\ Covered /\ LastFixed /\ Whole

\* The accounts of a question stay as they were collected.
LEMMA SameAccounts ==
    ASSUME UNCHANGED request, NEW d
    PROVE  /\ Card(d)' = Card(d) /\ Rate(d)' = Rate(d) /\ Ratio(d)' = Ratio(d)
           /\ FirstMinimum(d)' = FirstMinimum(d)
           /\ Minimum(d)' = MinimumOf(d, owed'[d])
           /\ WorkedOut(d)' = MinimumOf(d, owed'[d] + lastBase'[d])
<1>1. /\ Card(d)' = Card(d) /\ Rate(d)' = Rate(d) /\ Ratio(d)' = Ratio(d)
      /\ FirstMinimum(d)' = FirstMinimum(d)
  BY DEF request, Card, Rate, Ratio, KnownRatio, FirstMinimum, Statement
<1> QED BY <1>1 DEF Minimum, WorkedOut, MinimumOf

Typed == PTypeOK /\ Started /\ Serving

\* What a step for the first of those to be served is about.
LEMMA ServedFirst ==
    ASSUME Typed, phase # "idle", serve # {}
    PROVE  /\ First(serve) \in serve /\ First(serve) \in Debts
           /\ phase \in {"minimums", "extra"} => owed[First(serve)] > Cent
<1>1. serve \subseteq Debts /\ plan \in Plans
  BY DEF Typed, PTypeOK, Started
<1>2. First(serve) \in serve
  BY <1>1, FirstIsOne DEF Typed
<1> QED BY <1>1, <1>2 DEF Typed, Serving, Running

LEMMA TypedInit == PInit => Typed
<1> SUFFICES ASSUME PInit PROVE Typed
  OBVIOUS
<1>1. Zero \in [Debts -> Nat]
  BY DEF Zero
<1>2. todo \subseteq Plans /\ \A p \in todo : p.kind = "trap" => p.card \in Debts
  <2>1. question \in {"compare", "opportunity", "trap"}
    BY PayoffAssumption DEF PInit
  <2>2. question = "compare" => todo \subseteq {PlanOf("snowball"), PlanOf("avalanche")}
    BY DEF PInit, PlansOf
  <2>3. question = "opportunity" => todo \subseteq {PlanOf("baseline"), PlanOf("prepaid")}
    BY DEF PInit, PlansOf
  <2>4. question = "trap" => todo \subseteq {[kind |-> "trap", card |-> d] : d \in Debts}
    BY DEF PInit, PlansOf, Owing
  <2> QED BY <2>1, <2>2, <2>3, <2>4 DEF PlanOf, Plans
<1>3. results \in [Plans -> Result \cup {None}]
  BY DEF PInit
<1>4. monthly \in Nat /\ amount \in Nat
  BY PayoffAssumption DEF PInit
<1> QED BY <1>1, <1>2, <1>3, <1>4 DEF PInit, Typed, PTypeOK, Started, Serving

LEMMA TypedStep == Typed /\ [PNext]_pvars => Typed'
<1> SUFFICES ASSUME Typed, [PNext]_pvars PROVE Typed'
  OBVIOUS
<1>0. PTypeOK /\ Started /\ Serving
  BY DEF Typed
<1>1. ASSUME NEW p \in Plans, StartPlan(p) PROVE Typed'
  <2>1. opening' \in [Debts -> Nat] /\ Zero \in [Debts -> Nat]
    BY <1>0, <1>1, AccountFields DEF StartPlan, Zero
  <2>2. part' \subseteq Debts /\ serve' \subseteq Debts
    BY <1>0, <1>1 DEF StartPlan, Owing, Started
  <2> QED BY <1>0, <1>1, <2>1, <2>2 DEF StartPlan, request, Typed, PTypeOK, Started, Serving
<1>2. CASE Prepay
  <2> DEFINE d == First(serve)
             pay == Smaller(spare, opening[d])
  <2>1. d \in Debts
    BY <1>0, <1>2, ServedFirst DEF Prepay, Typed
  <2>2. opening[d] \in Nat /\ spare \in Nat
    BY <1>0, <1>2, <2>1 DEF Prepay, PTypeOK, Started
  <2>3. pay \in Nat /\ opening[d] - pay \in Nat /\ spare - pay \in Nat
    BY <2>2 DEF Smaller
  <2>4. /\ opening' = [opening EXCEPT ![d] = @ - pay] /\ owed' = opening'
        /\ spare' = spare - pay /\ serve' = serve \ {d}
    BY <1>2 DEF Prepay
  <2> HIDE DEF d, pay
  <2>5. opening' \in [Debts -> Nat]
    BY <1>0, <2>1, <2>3, <2>4 DEF PTypeOK
  <2> QED BY <1>0, <1>2, <2>3, <2>4, <2>5 DEF Prepay, request, Typed, PTypeOK, Started, Serving
<1>3. CASE Prepaid
  BY <1>0, <1>3 DEF Prepaid, request, ledger, Typed, PTypeOK, Started, Serving, Running
<1>4. CASE BeginMonth
  <2>1. \A d \in Debts : owed[d] \in Nat /\ accrued[d] \in Nat /\ Interest(owed[d], Rate(d)) \in Nat
    BY <1>0, InterestIsNat DEF PTypeOK
  <2>2. owed' \in [Debts -> Nat] /\ accrued' \in [Debts -> Nat]
    BY <1>4, <2>1 DEF BeginMonth
  <2>3. Running \subseteq Debts /\ Running' = Running
    <3>1. part \subseteq Debts /\ part' = part
      BY <1>0, <1>4 DEF BeginMonth, PTypeOK
    <3>2. \A d \in part : owed'[d] > Cent <=> owed[d] > Cent
      BY <1>4, <2>1, <3>1, Constants DEF BeginMonth, Running
    <3> QED BY <3>1, <3>2 DEF Running
  <2>4. budget' \in Nat
    <3> DEFINE due == [d \in Debts |-> MinimumOf(d, owed'[d])]
    <3>1. due \in [Debts -> Nat]
      BY <1>0, <2>2, MinimumGrows
    <3>2. SumFunctionOnSet(due, Running) \in Nat
      BY <2>3, <3>1, Constants, SumOfSomeIsNat
    <3> QED BY <1>0, <1>4, <3>2 DEF BeginMonth, PTypeOK
  <2> QED BY <1>0, <1>4, <2>2, <2>3, <2>4 DEF BeginMonth, request, Typed, PTypeOK, Started, Serving
<1>5. CASE PayMinimum
  <2> DEFINE d == First(serve)
             paid == MinimumPaid(d)
  <2>1. d \in serve /\ d \in Debts
    BY <1>0, <1>5, ServedFirst DEF PayMinimum, Typed
  <2>2. /\ paid \in Nat /\ owed[d] - paid \in Nat /\ Minimum(d) \in Nat
    BY <1>0, <2>1, MinimumPaidSettles
  <2>3. /\ lastBase' = [lastBase EXCEPT ![d] = Minimum(d)] /\ serve' = serve \ {d}
        /\ owed' = [owed EXCEPT ![d] = @ - paid] /\ credited' = [credited EXCEPT ![d] = @ + paid]
        /\ Close(d)
    BY <1>5 DEF PayMinimum, Freed
  <2> HIDE DEF d, paid
  <2>4. /\ lastBase' \in [Debts -> Nat] /\ owed' \in [Debts -> Nat] /\ credited' \in [Debts -> Nat]
    BY <1>0, <2>1, <2>2, <2>3 DEF PTypeOK
  <2>5. /\ ended' \in [Debts -> Nat] /\ closing' \subseteq Debts
        /\ closing' \subseteq part' /\ \A e \in closing' : owed'[e] = 0
    <3>1. /\ d \in part /\ closing \subseteq part /\ part' = part /\ part \subseteq Debts
          /\ \A e \in closing : owed[e] = 0
      BY <1>0, <1>5, <2>1 DEF PTypeOK, Serving, Running, PayMinimum
    <3>2. /\ \A e \in Debts \ {d} : owed'[e] = owed[e]
          /\ owed[d] \in Nat /\ owed'[d] = owed[d] - paid /\ month \in Nat
      BY <1>0, <2>1, <2>3 DEF PTypeOK
    <3>3. d \notin closing
      BY <1>0, <1>5, <2>1, <3>1, Constants DEF Serving, Running, PayMinimum
    <3>4. ended' \in [Debts -> Nat]
      BY <1>0, <2>1, <2>3 DEF Close, PTypeOK
    <3> QED BY <2>1, <2>3, <3>1, <3>2, <3>3, <3>4 DEF Close
  <2>6. serve' \subseteq Running'
    BY <1>0, <1>5, <2>1, <2>3 DEF PayMinimum, Serving, Running, PTypeOK
  <2> QED BY <1>0, <1>5, <2>3, <2>4, <2>5, <2>6 DEF PayMinimum, request, Typed, PTypeOK, Started, Serving
<1>6. CASE MinimumsPaid
  BY <1>0, <1>6 DEF MinimumsPaid, request, ledger, Typed, PTypeOK, Started, Serving, Running
<1>7. CASE PayExtra
  <2> DEFINE d == First(serve)
             paid == ExtraPaid(d)
  <2>1. d \in serve /\ d \in Debts
    BY <1>0, <1>7, ServedFirst DEF PayExtra, Typed
  <2>2. paid \in Nat /\ owed[d] - paid \in Nat
    <3>1. spare >= 0
      BY <1>0, <1>7, Constants DEF PayExtra, PTypeOK
    <3> QED BY <1>0, <2>1, <3>1, ExtraPaidSettles
  <2>3. /\ spare' = spare - paid /\ serve' = serve \ {d}
        /\ owed' = [owed EXCEPT ![d] = @ - paid] /\ credited' = [credited EXCEPT ![d] = @ + paid]
        /\ Close(d)
    BY <1>7 DEF PayExtra
  <2> HIDE DEF d, paid
  <2>4. owed' \in [Debts -> Nat] /\ credited' \in [Debts -> Nat] /\ spare' \in Int
    BY <1>0, <2>1, <2>2, <2>3 DEF PTypeOK
  <2>5. /\ ended' \in [Debts -> Nat] /\ closing' \subseteq Debts
        /\ closing' \subseteq part' /\ \A e \in closing' : owed'[e] = 0
    <3>1. /\ d \in part /\ closing \subseteq part /\ part' = part /\ part \subseteq Debts
          /\ \A e \in closing : owed[e] = 0
      BY <1>0, <1>7, <2>1 DEF PTypeOK, Serving, Running, PayExtra
    <3>2. /\ \A e \in Debts \ {d} : owed'[e] = owed[e]
          /\ owed[d] \in Nat /\ owed'[d] = owed[d] - paid /\ month \in Nat
      BY <1>0, <2>1, <2>3 DEF PTypeOK
    <3>3. d \notin closing
      BY <1>0, <1>7, <2>1, <3>1, Constants DEF Serving, Running, PayExtra
    <3>4. ended' \in [Debts -> Nat]
      BY <1>0, <2>1, <2>3 DEF Close, PTypeOK
    <3> QED BY <2>1, <2>3, <3>1, <3>2, <3>3, <3>4 DEF Close
  <2>6. serve' \subseteq Running'
    BY <1>0, <1>7, <2>1, <2>3 DEF PayExtra, Serving, Running, PTypeOK
  <2> QED BY <1>0, <1>7, <2>3, <2>4, <2>5, <2>6 DEF PayExtra, request, Typed, PTypeOK, Started, Serving
<1>8. CASE ExtraPaidOut
  BY <1>0, <1>8 DEF ExtraPaidOut, request, ledger, Typed, PTypeOK, Started, Serving, Running
<1>9. CASE RollOver
  <2> DEFINE d == First(serve)
  <2>1. d \in Debts
    BY <1>0, <1>9, ServedFirst DEF RollOver, Typed
  <2>2. extra' = extra + lastBase[d] /\ serve' = serve \ {d}
    BY <1>9 DEF RollOver
  <2> HIDE DEF d
  <2> QED BY <1>0, <1>9, <2>1, <2>2 DEF RollOver, request, ledger, Typed, PTypeOK, Started, Serving
<1>10. CASE EndMonth
  BY <1>0, <1>10 DEF EndMonth, request, ledger, Typed, PTypeOK, Started, Serving
<1>11. CASE FinishPlan
  <2> DEFINE answer == [months |-> month, dated |-> month < MaxMonths, interest |-> accrued,
                        paid |-> credited, rest |-> owed, ended |-> ended]
  <2>1. answer \in Result
    BY <1>0, Constants DEF PTypeOK, Result
  <2>2. results' = [results EXCEPT ![plan] = answer]
    BY <1>11 DEF FinishPlan
  <2> HIDE DEF answer
  <2>3. results' \in [Plans -> Result \cup {None}]
    BY <1>0, <2>1, <2>2 DEF PTypeOK
  <2> QED BY <1>0, <1>11, <2>3 DEF FinishPlan, request, ledger, Typed, PTypeOK, Started, Serving
<1>12. CASE UNCHANGED pvars
  BY <1>0, <1>12 DEF pvars, request, ledger, Typed, PTypeOK, Started, Serving, Running
<1> QED BY <1>1, <1>2, <1>3, <1>4, <1>5, <1>6, <1>7, <1>8, <1>9, <1>10, <1>11, <1>12 DEF PNext

\* What was owed and the interest it drew is what was paid and what is owed.
LEMMA KeptStep == Typed /\ NothingIsLost /\ [PNext]_pvars => NothingIsLost'
<1> SUFFICES ASSUME Typed, NothingIsLost, [PNext]_pvars PROVE NothingIsLost'
  OBVIOUS
<1>0. PTypeOK /\ Started /\ Serving /\ part \subseteq Debts
  BY DEF Typed, PTypeOK
<1>1. ASSUME NEW d \in part PROVE /\ d \in Debts /\ opening[d] \in Nat /\ accrued[d] \in Nat
                                  /\ owed[d] \in Nat /\ credited[d] \in Nat
                                  /\ opening[d] + accrued[d] = owed[d] + credited[d]
  BY <1>0, <1>1 DEF PTypeOK, NothingIsLost
<1>2. ASSUME NEW p \in Plans, StartPlan(p) PROVE NothingIsLost'
  <2>1. /\ opening' \in [Debts -> Nat] /\ owed' = opening' /\ accrued' = Zero /\ credited' = Zero
        /\ part' \subseteq Debts
    BY <1>0, <1>2, AccountFields DEF StartPlan, Owing, Started
  <2> QED BY <2>1 DEF NothingIsLost, Zero
<1>3. CASE Prepay
  <2>1. /\ owed' = opening' /\ accrued' = accrued /\ credited' = credited /\ part' = part
        /\ accrued = Zero /\ credited = Zero
    BY <1>0, <1>3 DEF Prepay, Started
  <2>2. opening' \in [Debts -> Nat]
    <3>1. Typed'
      BY TypedStep
    <3> QED BY <3>1 DEF Typed, PTypeOK
  <2> QED BY <1>0, <2>1, <2>2 DEF NothingIsLost, Zero
<1>4. CASE BeginMonth
  <2>1. part' = part /\ opening' = opening /\ credited' = credited
    BY <1>4 DEF BeginMonth
  <2>2. ASSUME NEW d \in part PROVE opening[d] + accrued'[d] = owed'[d] + credited[d]
    <3>1. Interest(owed[d], Rate(d)) \in Nat
      BY <1>0, <1>1, InterestIsNat
    <3>2. /\ owed'[d] = IF d \in Running THEN owed[d] + Interest(owed[d], Rate(d)) ELSE owed[d]
          /\ accrued'[d] = IF d \in Running THEN accrued[d] + Interest(owed[d], Rate(d)) ELSE accrued[d]
      BY <1>1, <1>4 DEF BeginMonth
    <3> QED BY <1>1, <3>1, <3>2
  <2> QED BY <2>1, <2>2 DEF NothingIsLost
<1>5. ASSUME NEW e \in Debts, NEW paid \in Nat, owed[e] - paid \in Nat,
             owed' = [owed EXCEPT ![e] = @ - paid], credited' = [credited EXCEPT ![e] = @ + paid],
             UNCHANGED <<part, opening, accrued>>
      PROVE  NothingIsLost'
  <2>1. ASSUME NEW d \in part PROVE opening[d] + accrued[d] = owed'[d] + credited'[d]
    <3>1. d = e => owed'[d] = owed[d] - paid /\ credited'[d] = credited[d] + paid
      BY <1>0, <1>5 DEF PTypeOK
    <3>2. d # e => owed'[d] = owed[d] /\ credited'[d] = credited[d]
      BY <1>0, <1>5 DEF PTypeOK
    <3> QED BY <1>1, <3>1, <3>2
  <2> QED BY <1>5, <2>1 DEF NothingIsLost
<1>6. CASE PayMinimum
  <2>1. First(serve) \in Debts
    BY <1>6, ServedFirst DEF PayMinimum
  <2>2. MinimumPaid(First(serve)) \in Nat /\ owed[First(serve)] - MinimumPaid(First(serve)) \in Nat
    BY <1>0, <2>1, MinimumPaidSettles
  <2>3. /\ owed' = [owed EXCEPT ![First(serve)] = @ - MinimumPaid(First(serve))]
        /\ credited' = [credited EXCEPT ![First(serve)] = @ + MinimumPaid(First(serve))]
        /\ UNCHANGED <<part, opening, accrued>>
    BY <1>6 DEF PayMinimum
  <2> QED BY <1>5, <2>1, <2>2, <2>3
<1>7. CASE PayExtra
  <2>1. First(serve) \in Debts
    BY <1>7, ServedFirst DEF PayExtra
  <2>2. ExtraPaid(First(serve)) \in Nat /\ owed[First(serve)] - ExtraPaid(First(serve)) \in Nat
    <3>1. spare >= 0
      BY <1>0, <1>7, Constants DEF PayExtra, PTypeOK
    <3> QED BY <1>0, <2>1, <3>1, ExtraPaidSettles
  <2>3. /\ owed' = [owed EXCEPT ![First(serve)] = @ - ExtraPaid(First(serve))]
        /\ credited' = [credited EXCEPT ![First(serve)] = @ + ExtraPaid(First(serve))]
        /\ UNCHANGED <<part, opening, accrued>>
    BY <1>7 DEF PayExtra
  <2> QED BY <1>5, <2>1, <2>2, <2>3
<1>8. ASSUME UNCHANGED ledger, part' \subseteq part PROVE NothingIsLost'
  BY <1>8 DEF ledger, NothingIsLost
<1>9. CASE Prepaid
  BY <1>8, <1>9 DEF Prepaid, Running
<1>10. CASE MinimumsPaid \/ ExtraPaidOut \/ RollOver \/ EndMonth \/ FinishPlan \/ UNCHANGED pvars
  BY <1>8, <1>10 DEF MinimumsPaid, ExtraPaidOut, RollOver, EndMonth, FinishPlan, pvars
<1> QED BY <1>2, <1>3, <1>4, <1>6, <1>7, <1>9, <1>10 DEF PNext

\* A minimum that was paid once is never below what would be worked out now.
LEMMA LastPaidStep == Typed /\ LastPaid /\ [PNext]_pvars => LastPaid'
<1> SUFFICES ASSUME Typed, LastPaid, [PNext]_pvars PROVE LastPaid'
  OBVIOUS
<1>0. PTypeOK /\ Started /\ Serving /\ part \subseteq Debts
  BY DEF Typed, PTypeOK
<1>1. CASE \/ \E p \in Plans : StartPlan(p)
           \/ Prepay \/ Prepaid \/ FinishPlan
  <2>1. phase' \in {"idle", "prepay"} \/ month' = 0
    BY <1>0, <1>1 DEF StartPlan, Prepay, Prepaid, FinishPlan, Started
  <2> QED BY <2>1 DEF LastPaid
<1>2. CASE BeginMonth
  <2>1. /\ phase' = "minimums" /\ serve' = Running /\ part' = part
        /\ \A d \in part : d \notin Running => owed'[d] = owed[d]
    BY <1>0, <1>2 DEF BeginMonth
  <2>2. Running' \subseteq serve'
    BY <2>1 DEF Running
  <2> QED BY <2>1, <2>2 DEF LastPaid, Unpaid
<1>3. ASSUME UNCHANGED <<request, owed, lastBase, part>>, month' = 0 \/ month' = month,
             phase' \in {"minimums", "extra", "close", "month"} =>
                phase \in {"minimums", "extra", "close", "month"},
             Unpaid \subseteq Unpaid'
      PROVE  LastPaid'
  BY <1>3, SameAccounts DEF LastPaid, WorkedOut, Running
<1>4. CASE MinimumsPaid \/ ExtraPaidOut \/ RollOver \/ EndMonth \/ UNCHANGED pvars
  BY <1>3, <1>4 DEF MinimumsPaid, ExtraPaidOut, RollOver, EndMonth, pvars, ledger, Unpaid
<1>5. CASE PayMinimum
  <2> DEFINE d == First(serve)
             paid == MinimumPaid(d)
  <2>1. d \in serve /\ d \in Debts
    BY <1>5, ServedFirst DEF PayMinimum
  <2>2. /\ phase = "minimums" /\ phase' = "minimums" /\ serve' = serve \ {d}
        /\ UNCHANGED <<request, part, month>>
        /\ lastBase' = [lastBase EXCEPT ![d] = Minimum(d)]
        /\ owed' = [owed EXCEPT ![d] = @ - paid]
    BY <1>5 DEF PayMinimum, Freed
  <2>3. /\ paid \in Nat /\ owed[d] \in Nat /\ Minimum(d) \in Nat
        /\ owed[d] - paid > 0 => paid = Minimum(d)
    BY <1>0, <2>1, MinimumPaidSettles
  <2> HIDE DEF d, paid
  <2>4. ASSUME NEW e \in Running', e \notin serve', month > 0
        PROVE  lastBase'[e] >= WorkedOut(e)'
    <3>1. e \in Debts /\ owed'[e] > Cent
      BY <1>0, <2>2, <2>4 DEF Running
    <3>2. CASE e = d
      <4>1. owed'[e] = owed[e] - paid /\ lastBase'[e] = Minimum(e)
        BY <1>0, <2>1, <2>2, <3>2 DEF PTypeOK
      <4>2. paid = Minimum(e)
        BY <2>3, <3>1, <3>2, <4>1, Constants
      <4>3. owed'[e] + lastBase'[e] = owed[e]
        BY <2>3, <3>2, <4>1, <4>2
      <4>4. WorkedOut(e)' = MinimumOf(e, owed[e])
        BY <2>2, <4>3, SameAccounts
      <4> QED BY <2>3, <3>2, <4>1, <4>4 DEF Minimum
    <3>3. CASE e # d
      <4>1. owed'[e] = owed[e] /\ lastBase'[e] = lastBase[e] /\ e \notin serve
        BY <1>0, <2>2, <2>4, <3>1, <3>3 DEF PTypeOK
      <4>2. e \in Running
        BY <2>2, <2>4, <4>1 DEF Running
      <4>3. lastBase[e] >= WorkedOut(e)
        BY <2>2, <2>4, <4>1, <4>2 DEF LastPaid, Unpaid
      <4> QED BY <2>2, <4>1, <4>3, SameAccounts DEF WorkedOut
    <3> QED BY <3>2, <3>3
  <2> QED BY <2>2, <2>4 DEF LastPaid, Unpaid
<1>6. CASE PayExtra
  <2> DEFINE d == First(serve)
             paid == ExtraPaid(d)
  <2>1. d \in Debts
    BY <1>6, ServedFirst DEF PayExtra
  <2>2. /\ phase = "extra" /\ phase' = "extra" /\ spare \in Int /\ spare >= 0
        /\ UNCHANGED <<request, part, month, lastBase>>
        /\ owed' = [owed EXCEPT ![d] = @ - paid]
    BY <1>0, <1>6, Constants DEF PayExtra, PTypeOK
  <2>3. paid \in Nat /\ owed[d] \in Nat /\ owed[d] - paid \in Nat
    BY <1>0, <2>1, <2>2, ExtraPaidSettles
  <2> HIDE DEF d, paid
  <2>4. ASSUME NEW e \in Running', month > 0
        PROVE  lastBase'[e] >= WorkedOut(e)'
    <3>1. /\ e \in Debts /\ owed[e] \in Nat /\ owed'[e] \in Nat /\ owed'[e] <= owed[e]
          /\ lastBase[e] \in Nat
      BY <1>0, <2>1, <2>2, <2>3, <2>4 DEF Running, PTypeOK
    <3>2. e \in Running
      BY <2>2, <2>4, <3>1, Constants DEF Running
    <3>3. lastBase[e] >= WorkedOut(e)
      BY <2>2, <2>4, <3>2 DEF LastPaid, Unpaid
    <3>4. /\ MinimumOf(e, owed'[e] + lastBase[e]) <= MinimumOf(e, owed[e] + lastBase[e])
          /\ MinimumOf(e, owed'[e] + lastBase[e]) \in Nat
          /\ MinimumOf(e, owed[e] + lastBase[e]) \in Nat
      <4> DEFINE b == owed'[e] + lastBase[e]
                 c == owed[e] + lastBase[e]
      <4>1. b \in Nat /\ c \in Nat /\ b <= c
        BY <3>1
      <4> HIDE DEF b, c
      <4>2. MinimumOf(e, b) \in Nat /\ MinimumOf(e, c) \in Nat /\ MinimumOf(e, b) <= MinimumOf(e, c)
        BY <1>0, <3>1, <4>1, MinimumGrows
      <4> QED BY <4>2 DEF b, c
    <3>5. WorkedOut(e)' = MinimumOf(e, owed'[e] + lastBase[e])
      BY <2>2, SameAccounts
    <3> QED BY <2>2, <3>1, <3>3, <3>4, <3>5 DEF WorkedOut
  <2> QED BY <2>2, <2>4 DEF LastPaid, Unpaid
<1> QED BY <1>1, <1>2, <1>4, <1>5, <1>6 DEF PNext

LEMMA ClaimIsNat == Typed => Claim \in [Debts -> Nat]
<1> SUFFICES ASSUME Typed PROVE Claim \in [Debts -> Nat]
  OBVIOUS
<1>1. \A d \in Debts : Minimum(d) \in Nat /\ lastBase[d] \in Nat
  BY MinimumPaidSettles DEF Typed, PTypeOK
<1> HIDE DEF Minimum
<1> QED BY <1>1 DEF Claim

LEMMA NextClaimIsNat == Typed' => Claim' \in [Debts -> Nat]
<1>1. Typed => Claim \in [Debts -> Nat]
  BY ClaimIsNat
<1>2. (Typed => Claim \in [Debts -> Nat])'
  BY <1>1, PTL
<1> QED BY <1>2

LEMMA NextClaim ==
    ASSUME UNCHANGED request
    PROVE  \A d \in Debts : Claim'[d] = IF d \in Unpaid' THEN MinimumOf(d, owed'[d])
                                        ELSE IF d \in Running' \cup Unrolled' THEN lastBase'[d] ELSE 0
<1>1. \A d \in Debts : Minimum(d)' = MinimumOf(d, owed'[d])
  BY SameAccounts
<1> HIDE DEF Minimum
<1> QED BY <1>1 DEF Claim

LEMMA NothingMoreClaimed ==
    ASSUME Typed, Typed', UNCHANGED <<budget, extra>>, \A d \in Debts : Claim'[d] <= Claim[d],
           budget >= extra + SumFunctionOnSet(Claim, Debts)
    PROVE  budget' >= extra' + SumFunctionOnSet(Claim', Debts)
<1>1. Claim \in [Debts -> Int] /\ Claim' \in [Debts -> Int]
  <2>1. Claim \in [Debts -> Nat] /\ Claim' \in [Debts -> Nat]
    BY ClaimIsNat, NextClaimIsNat
  <2> QED BY <2>1
<1>2. /\ SumFunctionOnSet(Claim, Debts) \in Int /\ SumFunctionOnSet(Claim', Debts) \in Int
      /\ SumFunctionOnSet(Claim', Debts) <= SumFunctionOnSet(Claim, Debts)
  BY <1>1, Constants, SumIsInt, SumGrows
<1>3. budget \in Nat /\ extra \in Nat
  BY DEF Typed, PTypeOK
<1> QED BY <1>2, <1>3

\* A month asks for no more than its debts claim.
LEMMA CoveredStep == Typed /\ Covered /\ [PNext]_pvars => Covered'
<1> SUFFICES ASSUME Typed, Covered, [PNext]_pvars PROVE Covered'
  OBVIOUS
<1>0. PTypeOK /\ Started /\ Serving /\ part \subseteq Debts /\ Typed'
  BY TypedStep DEF Typed, PTypeOK
<1> DEFINE Engaged == {"minimums", "extra", "close", "month"}
<1>1. CASE \/ \E p \in Plans : StartPlan(p)
           \/ Prepay \/ Prepaid \/ FinishPlan
  <2>1. phase' \in {"idle", "prepay"} \/ month' = 0
    BY <1>0, <1>1 DEF StartPlan, Prepay, Prepaid, FinishPlan, Started
  <2> QED BY <2>1 DEF Covered
<1>2. CASE BeginMonth
  <2> DEFINE due == [d \in Debts |-> MinimumOf(d, owed'[d])]
  <2>1. /\ phase' = "minimums" /\ serve' = Running /\ closing' = {} /\ part' = part
        /\ UNCHANGED request /\ extra' = extra
        /\ \A d \in part : d \notin Running => owed'[d] = owed[d]
        /\ budget' = extra + SumFunctionOnSet(due, Running)
    BY <1>0, <1>2 DEF BeginMonth
  <2>2. due \in [Debts -> Nat]
    BY <1>0, <2>1, MinimumGrows DEF Typed, PTypeOK
  <2>3. Running' \subseteq Running /\ Unpaid' = Running /\ Unrolled' = {} /\ Running \subseteq Debts
    BY <1>0, <2>1 DEF Running, Unpaid, Unrolled
  <2>4. \A d \in Debts : Claim'[d] = IF d \in Running THEN due[d] ELSE 0
    BY <2>1, <2>3, NextClaim
  <2> HIDE DEF due
  <2>5. Claim' \in [Debts -> Int]
    BY <1>0, NextClaimIsNat
  <2>6. SumFunctionOnSet(Claim', Debts) = SumFunctionOnSet(Claim', Running)
    BY <2>3, <2>4, <2>5, Constants, SumOfSome
  <2>7. SumFunctionOnSet(Claim', Running) = SumFunctionOnSet(due, Running)
    BY <2>2, <2>3, <2>4, <2>5, Constants, FS_Subset, SumOfSameTerms
  <2>8. budget' \in Nat
    BY <1>0 DEF Typed, PTypeOK
  <2> QED BY <2>1, <2>6, <2>7, <2>8 DEF Covered
<1>3. ASSUME phase \in Engaged, UNCHANGED <<budget, extra, month>>, \A d \in Debts : Claim'[d] <= Claim[d]
      PROVE  Covered'
  BY <1>0, <1>3, NothingMoreClaimed DEF Covered
<1>4. ASSUME phase \in Engaged, UNCHANGED <<budget, extra, month, request, owed, lastBase, part>>,
             Unpaid' = Unpaid, Unrolled' = Unrolled
      PROVE  Covered'
  <2>1. Running' = Running
    BY <1>4 DEF Running
  <2>2. \A d \in Debts : Claim'[d] = Claim[d] /\ Claim[d] \in Nat
    BY <1>0, <1>4, <2>1, NextClaim, ClaimIsNat DEF Claim, Minimum
  <2> QED BY <1>3, <1>4, <2>2
<1>5. CASE MinimumsPaid \/ ExtraPaidOut \/ EndMonth
  <2>1. /\ phase \in Engaged /\ Unpaid' = Unpaid /\ Unrolled' = Unrolled
        /\ UNCHANGED <<budget, extra, month, request, owed, lastBase, part>>
    BY <1>5 DEF MinimumsPaid, ExtraPaidOut, EndMonth, ledger, Unpaid, Unrolled
  <2> QED BY <1>4, <2>1
<1>6. CASE PayMinimum
  <2>0. PICK d \in Debts : d = First(serve) /\ d \in serve
    BY <1>6, ServedFirst DEF PayMinimum
  <2>1. /\ phase = "minimums" /\ phase' = "minimums" /\ serve' = serve \ {d}
        /\ UNCHANGED <<request, part, month, extra, budget>>
        /\ lastBase' = [lastBase EXCEPT ![d] = Minimum(d)]
        /\ owed' = [owed EXCEPT ![d] = @ - MinimumPaid(d)]
        /\ closing' \subseteq closing \cup {d}
    BY <1>6, <2>0 DEF PayMinimum, Freed, Close
  <2>2. MinimumOf(d, owed[d]) \in Nat
    BY <1>0, MinimumPaidSettles DEF Minimum
  <2>3. ASSUME NEW e \in Debts PROVE Claim'[e] <= Claim[e]
    <3>1. Claim[e] \in Nat /\ Claim'[e] \in Nat
      BY <1>0, ClaimIsNat, NextClaimIsNat
    <3>2. CASE e = d
      <4>1. Claim[d] = MinimumOf(d, owed[d])
        BY <2>0, <2>1 DEF Claim, Unpaid, Minimum
      <4>2. Claim'[d] \in {MinimumOf(d, owed[d]), 0}
        BY <1>0, <2>0, <2>1, NextClaim DEF Unpaid, Minimum, PTypeOK
      <4> QED BY <2>2, <3>2, <4>1, <4>2
    <3>3. CASE e # d
      <4>1. owed'[e] = owed[e] /\ lastBase'[e] = lastBase[e]
        BY <1>0, <2>1, <3>3 DEF PTypeOK
      <4>2. /\ e \in Unpaid' <=> e \in Unpaid
            /\ e \in Running' <=> e \in Running
            /\ e \in Unrolled' => e \in Unrolled
        BY <2>1, <3>3, <4>1 DEF Unpaid, Unrolled, Running
      <4>3. lastBase[e] \in Nat
        BY <1>0 DEF PTypeOK
      <4> QED BY <2>1, <3>1, <4>1, <4>2, <4>3, NextClaim DEF Claim, Minimum
    <3> QED BY <3>2, <3>3
  <2> QED BY <1>3, <2>1, <2>3
<1>7. CASE PayExtra
  <2>0. PICK d \in Debts : d = First(serve) /\ d \in serve /\ owed[d] > Cent
    BY <1>7, ServedFirst DEF PayExtra
  <2>1. /\ phase = "extra" /\ phase' = "extra" /\ spare \in Int /\ spare >= 0
        /\ UNCHANGED <<request, part, month, extra, budget, lastBase>>
        /\ owed' = [owed EXCEPT ![d] = @ - ExtraPaid(d)]
        /\ closing' \subseteq closing \cup {d}
    BY <1>0, <1>7, <2>0, Constants DEF PayExtra, Close, PTypeOK
  <2>2. ExtraPaid(d) \in Nat /\ owed[d] - ExtraPaid(d) \in Nat
    BY <1>0, <2>1, ExtraPaidSettles
  <2>3. d \in Running
    BY <1>0, <2>0, <2>1 DEF Serving
  <2>4. ASSUME NEW e \in Debts PROVE Claim'[e] <= Claim[e]
    <3>1. lastBase[e] \in Nat /\ lastBase'[e] = lastBase[e]
      BY <1>0, <2>1 DEF PTypeOK
    <3>2. e \in Running' \cup Unrolled' => e \in Running \cup Unrolled
      <4>1. e # d => owed'[e] = owed[e]
        BY <1>0, <2>1 DEF PTypeOK
      <4> QED BY <2>1, <2>3, <4>1 DEF Unrolled, Running
    <3>3. Unpaid = {} /\ Unpaid' = {}
      BY <2>1 DEF Unpaid
    <3> QED BY <2>1, <3>1, <3>2, <3>3, NextClaim DEF Claim
  <2> QED BY <1>3, <2>1, <2>4
<1>8. CASE RollOver
  <2>0. PICK d \in Debts : d = First(serve) /\ d \in serve
    BY <1>8, ServedFirst DEF RollOver
  <2>1. /\ phase = "close" /\ phase' = "close" /\ serve' = serve \ {d}
        /\ extra' = extra + lastBase[d]
        /\ UNCHANGED <<request, part, month, budget, lastBase, owed>>
    BY <1>8, <2>0 DEF RollOver, ledger
  <2>2. d \notin Running /\ Running' = Running
    BY <1>0, <2>0, <2>1, Constants DEF Serving, Running
  <2>3. Claim \in [Debts -> Int] /\ Claim' \in [Debts -> Int]
    BY <1>0, ClaimIsNat, NextClaimIsNat
  <2>4. /\ Unpaid = {} /\ Unpaid' = {} /\ Unrolled = serve /\ Unrolled' = serve \ {d}
    BY <2>1 DEF Unpaid, Unrolled
  <2>5. /\ Claim'[d] = 0 /\ Claim[d] = lastBase[d]
        /\ \A e \in Debts \ {d} : Claim'[e] = Claim[e]
    BY <2>0, <2>1, <2>2, <2>4, NextClaim DEF Claim
  <2>6. SumFunctionOnSet(Claim', Debts) = SumFunctionOnSet(Claim, Debts) - Claim[d] + Claim'[d]
    BY <2>3, <2>5, Constants, SumWithOneChanged
  <2>7. /\ budget \in Nat /\ extra \in Nat /\ lastBase[d] \in Nat
        /\ SumFunctionOnSet(Claim, Debts) \in Int
    BY <1>0, <2>3, Constants, SumIsInt DEF PTypeOK
  <2>8. month > 0 => budget' >= extra' + SumFunctionOnSet(Claim', Debts)
    BY <2>1, <2>5, <2>6, <2>7 DEF Covered
  <2> QED BY <2>1, <2>8 DEF Covered
<1>9. CASE UNCHANGED pvars
  <2>1. /\ UNCHANGED <<phase, budget, extra, month, request, owed, lastBase, part>>
        /\ Unpaid' = Unpaid /\ Unrolled' = Unrolled
    BY <1>9 DEF pvars, ledger, Unpaid, Unrolled
  <2> QED BY <1>4, <2>1 DEF Covered
<1> QED BY <1>1, <1>2, <1>5, <1>6, <1>7, <1>8, <1>9 DEF PNext

-----------------------------------------------------------------------------
(* The rollover of loans. *)

\* The first of those to be served is paid down: it still runs, is closed, or
\* is left with a kurus at most; nothing else changes.
PaidDown(d) ==
    /\ d \in Running /\ d \notin closing
    /\ owed' \in [Debts -> Nat] /\ owed'[d] <= owed[d]
    /\ \A e \in Debts \ {d} : owed'[e] = owed[e]
    /\ closing' = IF owed'[d] = 0 THEN closing \cup {d} ELSE closing

LEMMA PayingDown ==
    ASSUME Typed, NEW d \in Debts, d \in serve, phase \in {"minimums", "extra"}, NEW paid \in Nat,
           paid <= owed[d], owed' = [owed EXCEPT ![d] = @ - paid], Close(d)
    PROVE  PaidDown(d)
<1>1. /\ owed[d] \in Nat /\ d \in Running /\ owed[d] > Cent
      /\ \A e \in closing : owed[e] = 0
  BY DEF Typed, PTypeOK, Serving, Running
<1>2. /\ owed' \in [Debts -> Nat] /\ owed'[d] = owed[d] - paid
      /\ \A e \in Debts \ {d} : owed'[e] = owed[e]
  BY <1>1 DEF Typed, PTypeOK
<1> QED BY <1>1, <1>2, Constants DEF PaidDown, Close

LEMMA MinimumPaysDown ==
    ASSUME Typed, PayMinimum
    PROVE  \E d \in Debts : /\ PaidDown(d) /\ d \in serve /\ serve' = serve \ {d}
                            /\ lastBase' = [lastBase EXCEPT ![d] = Minimum(d)]
<1>1. PICK d \in Debts : d = First(serve) /\ d \in serve
  BY ServedFirst DEF PayMinimum
<1>2. MinimumPaid(d) \in Nat /\ MinimumPaid(d) <= owed[d]
  BY <1>1, MinimumPaidSettles DEF Typed
<1>3. /\ phase = "minimums" /\ serve' = serve \ {d}
      /\ lastBase' = [lastBase EXCEPT ![d] = Minimum(d)]
      /\ owed' = [owed EXCEPT ![d] = @ - MinimumPaid(d)] /\ Close(d)
  BY <1>1 DEF PayMinimum, Freed
<1>4. PaidDown(d)
  BY <1>1, <1>2, <1>3, PayingDown
<1> QED BY <1>1, <1>3, <1>4

LEMMA ExtraPaysDown ==
    ASSUME Typed, PayExtra
    PROVE  \E d \in Debts : PaidDown(d) /\ d \in serve
<1>1. PICK d \in Debts : d = First(serve) /\ d \in serve
  BY ServedFirst DEF PayExtra
<1>2. ExtraPaid(d) \in Nat /\ ExtraPaid(d) <= owed[d]
  <2>1. spare >= 0
    BY Constants DEF PayExtra, Typed, PTypeOK
  <2> QED BY <1>1, <2>1, ExtraPaidSettles DEF Typed
<1>3. phase = "extra" /\ owed' = [owed EXCEPT ![d] = @ - ExtraPaid(d)] /\ Close(d)
  BY <1>1 DEF PayExtra
<1>4. PaidDown(d)
  BY <1>1, <1>2, <1>3, PayingDown
<1> QED BY <1>1, <1>4

\* While payments are made, nobody else starts or stops running or closing.
LEMMA PaidDownRuns ==
    ASSUME Typed, NEW d \in Debts, PaidDown(d), phase \in {"minimums", "extra"}, phase' = phase,
           UNCHANGED part
    PROVE  /\ Running' \cup Unrolled' \subseteq Running \cup Unrolled
           /\ LeftBehind \/ LeftBehind' \/ Running' \cup Unrolled' = Running \cup Unrolled
           /\ LeftBehind => LeftBehind'
<1>1. /\ part \subseteq Debts /\ owed \in [Debts -> Nat] /\ Cent \in Nat /\ Cent > 0
      /\ Unrolled = closing /\ Unrolled' = closing' /\ d \in part /\ owed[d] > Cent
  BY Constants DEF Typed, PTypeOK, Unrolled, PaidDown, Running
<1>2. /\ owed'[d] \in Nat
      /\ \A e \in part \ {d} : owed'[e] = owed[e]
      /\ d \in Running
      /\ owed'[d] = 0 => closing' = closing \cup {d}
      /\ owed'[d] # 0 => closing' = closing
  BY <1>1 DEF PaidDown
<1>3. LeftBehind => LeftBehind'
  BY <1>1, <1>2 DEF LeftBehind
<1>4. Running' \ {d} = Running \ {d} /\ (d \in Running' <=> owed'[d] > Cent)
  BY <1>1, <1>2 DEF Running
<1>5. owed'[d] \in 1 .. Cent => LeftBehind'
  BY <1>1 DEF LeftBehind
<1> QED BY <1>1, <1>2, <1>3, <1>4, <1>5

\* A loan that has been dealt with keeps its instalment as what it frees.
LEMMA LastFixedStep == Typed /\ LastFixed /\ [PNext]_pvars => LastFixed'
<1> SUFFICES ASSUME Typed, LastFixed, [PNext]_pvars PROVE LastFixed'
  OBVIOUS
<1>0. PTypeOK /\ Started /\ Serving /\ part \subseteq Debts
  BY DEF Typed, PTypeOK
<1>1. CASE \/ \E p \in Plans : StartPlan(p)
           \/ Prepay \/ Prepaid \/ FinishPlan
  <2>1. phase' \in {"idle", "prepay"} \/ month' = 0
    BY <1>0, <1>1 DEF StartPlan, Prepay, Prepaid, FinishPlan, Started
  <2> QED BY <2>1 DEF LastFixed
<1>2. CASE BeginMonth
  <2>1. /\ phase' = "minimums" /\ serve' = Running /\ part' = part /\ closing' = {}
        /\ \A d \in part : d \notin Running => owed'[d] = owed[d]
    BY <1>0, <1>2 DEF BeginMonth
  <2>2. Running' \subseteq serve'
    BY <2>1 DEF Running
  <2> QED BY <2>1, <2>2 DEF LastFixed, Unpaid, Unrolled
<1>3. ASSUME UNCHANGED <<request, lastBase, part>>, month' = month,
             phase' \in {"minimums", "extra", "close", "month"} =>
                phase \in {"minimums", "extra", "close", "month"},
             (Running' \cup Unrolled') \ Unpaid' \subseteq (Running \cup Unrolled) \ Unpaid
      PROVE  LastFixed'
  BY <1>3, SameAccounts DEF LastFixed
<1>4. CASE MinimumsPaid \/ ExtraPaidOut \/ RollOver \/ EndMonth \/ UNCHANGED pvars
  <2>1. UNCHANGED <<request, lastBase, part, owed>> /\ month' = month
    BY <1>4 DEF MinimumsPaid, ExtraPaidOut, RollOver, EndMonth, pvars, ledger
  <2>2. Running' = Running
    BY <2>1 DEF Running
  <2>3. Unrolled' \subseteq Unrolled /\ Unpaid \subseteq Unpaid' /\ Unpaid' \subseteq Unpaid
    BY <1>4 DEF MinimumsPaid, ExtraPaidOut, RollOver, EndMonth, pvars, Unpaid, Unrolled
  <2>4. phase' \in {"minimums", "extra", "close", "month"} =>
            phase \in {"minimums", "extra", "close", "month"}
    BY <1>4 DEF MinimumsPaid, ExtraPaidOut, RollOver, EndMonth, pvars
  <2> QED BY <1>3, <2>1, <2>2, <2>3, <2>4
<1>5. CASE PayExtra
  <2>1. /\ UNCHANGED <<request, lastBase, part>> /\ month' = month
        /\ phase = "extra" /\ phase' = "extra"
    BY <1>5 DEF PayExtra
  <2>2. Running' \cup Unrolled' \subseteq Running \cup Unrolled
    BY <1>5, <2>1, ExtraPaysDown, PaidDownRuns
  <2> QED BY <1>3, <2>1, <2>2 DEF Unpaid
<1>6. CASE PayMinimum
  <2>1. PICK d \in Debts : /\ PaidDown(d) /\ d \in serve /\ serve' = serve \ {d}
                          /\ lastBase' = [lastBase EXCEPT ![d] = Minimum(d)]
    BY <1>6, MinimumPaysDown
  <2>2. /\ UNCHANGED <<request, part>> /\ month' = month
        /\ phase = "minimums" /\ phase' = "minimums"
    BY <1>6 DEF PayMinimum
  <2>3. Running' \cup Unrolled' \subseteq Running \cup Unrolled
    BY <2>1, <2>2, PaidDownRuns
  <2>4. ASSUME NEW e \in Debts, e \in (Running' \cup Unrolled') \ Unpaid', month > 0, ~Card(e)
        PROVE  lastBase'[e] = FirstMinimum(e)
    <3>1. CASE e = d
      <4>1. lastBase'[e] = Minimum(e)
        BY <1>0, <2>1, <3>1 DEF PTypeOK
      <4> QED BY <2>4, <4>1 DEF Minimum, MinimumOf
    <3>2. CASE e # d
      <4>1. lastBase'[e] = lastBase[e]
        BY <1>0, <2>1, <3>2 DEF PTypeOK
      <4>2. e \in (Running \cup Unrolled) \ Unpaid
        BY <2>1, <2>2, <2>3, <2>4, <3>2 DEF Unpaid
      <4> QED BY <2>2, <2>4, <4>1, <4>2 DEF LastFixed
    <3> QED BY <3>1, <3>2
  <2>5. Running' \cup Unrolled' \subseteq Debts
    BY <1>0, <2>2, <2>1 DEF Running, Unrolled, PaidDown, PTypeOK
  <2> QED BY <2>2, <2>4, <2>5, SameAccounts DEF LastFixed
<1> QED BY <1>1, <1>2, <1>4, <1>5, <1>6 DEF PNext

LEMMA FixedIsNat == Typed => Fixed \in [Debts -> Nat] /\ SumFunctionOnSet(Fixed, Debts) \in Int
<1> SUFFICES ASSUME Typed PROVE Fixed \in [Debts -> Nat] /\ SumFunctionOnSet(Fixed, Debts) \in Int
  OBVIOUS
<1>1. \A d \in Debts : FirstMinimum(d) \in Nat
  BY AccountNumbers DEF Typed
<1>2. Fixed \in [Debts -> Nat]
  BY <1>1 DEF Fixed
<1>3. Fixed \in [Debts -> Int]
  BY <1>2
<1> QED BY <1>2, <1>3, Constants, SumIsInt

LEMMA NextFixed ==
    ASSUME UNCHANGED request
    PROVE  Fixed' = [d \in Debts |-> IF d \in Running' \cup Unrolled' THEN FirstMinimum(d) ELSE 0]
<1>1. \A d \in Debts : FirstMinimum(d)' = FirstMinimum(d)
  BY SameAccounts
<1> QED BY <1>1 DEF Fixed

\* Nothing of the budget of a plan of loans gets lost.
LEMMA WholeStep == Typed /\ LastFixed /\ Whole /\ [PNext]_pvars => Whole'
<1> SUFFICES ASSUME Typed, LastFixed, Whole, [PNext]_pvars PROVE Whole'
  OBVIOUS
<1>0. PTypeOK /\ Started /\ Serving /\ part \subseteq Debts
  BY DEF Typed, PTypeOK
<1> DEFINE Engaged == {"minimums", "extra", "close", "month"}
<1>1. CASE \/ \E p \in Plans : StartPlan(p)
           \/ Prepay \/ Prepaid \/ FinishPlan
  <2>1. phase' \in {"idle", "prepay"} \/ month' = 0
    BY <1>0, <1>1 DEF StartPlan, Prepay, Prepaid, FinishPlan, Started
  <2> QED BY <2>1 DEF Whole
<1>2. CASE BeginMonth
  <2> DEFINE due == [d \in Debts |-> MinimumOf(d, owed'[d])]
  <2>1. /\ phase' = "minimums" /\ serve' = Running /\ closing' = {} /\ part' = part
        /\ UNCHANGED request /\ extra' = extra
        /\ owed' = [d \in Debts |-> IF d \in Running THEN owed[d] + Interest(owed[d], Rate(d))
                                                      ELSE owed[d]]
        /\ budget' = extra + SumFunctionOnSet(due, Running)
    BY <1>2 DEF BeginMonth
  <2>2. Running' = Running /\ Unrolled' = {} /\ Running \subseteq Debts
    <3>1. \A d \in Debts : owed[d] \in Nat /\ Interest(owed[d], Rate(d)) \in Nat
      BY <1>0, InterestIsNat DEF PTypeOK
    <3>2. \A d \in part : owed'[d] > Cent <=> owed[d] > Cent
      BY <1>0, <2>1, <3>1, Constants DEF Running
    <3> QED BY <1>0, <2>1, <3>2 DEF Running, Unrolled
  <2>3. Fixed' = [d \in Debts |-> IF d \in Running THEN FirstMinimum(d) ELSE 0]
    BY <2>1, <2>2, NextFixed
  <2> HIDE DEF due
  <2>4. Fixed' \in [Debts -> Int]
    <3>1. \A d \in Debts : FirstMinimum(d) \in Nat
      BY <1>0, AccountNumbers
    <3> QED BY <2>3, <3>1
  <2>5. SumFunctionOnSet(Fixed', Debts) = SumFunctionOnSet(Fixed', Running)
    BY <2>2, <2>3, <2>4, Constants, SumOfSome
  <2>6. ASSUME OnlyLoans' PROVE SumFunctionOnSet(Fixed', Running) = SumFunctionOnSet(due, Running)
    <3>1. \A d \in part : ~Card(d)
      BY <2>1, <2>6, SameAccounts DEF OnlyLoans
    <3>2. \A d \in Running : due[d] = Fixed'[d]
      BY <2>2, <2>3, <3>1 DEF due, MinimumOf, Running
    <3>3. due \in [Debts -> Int]
      <4>1. owed' \in [Debts -> Nat]
        BY <1>0, <1>2, TypedStep DEF Typed, PTypeOK, PNext
      <4>2. due \in [Debts -> Nat]
        BY <1>0, <4>1, MinimumGrows DEF due
      <4> QED BY <4>2
    <3> QED BY <2>2, <2>4, <3>2, <3>3, Constants, FS_Subset, SumOfSameTerms
  <2> QED BY <2>1, <2>5, <2>6 DEF Whole
\* The steps that leave the instalments where they are.
<1>3. ASSUME phase \in Engaged, UNCHANGED <<budget, extra, month, request, part>>,
             LeftBehind => LeftBehind',
             LeftBehind \/ LeftBehind' \/ Running' \cup Unrolled' = Running \cup Unrolled
      PROVE  Whole'
  <2> SUFFICES ASSUME month > 0, OnlyLoans', ~LeftBehind'
               PROVE  budget' = extra' + SumFunctionOnSet(Fixed', Debts)
    BY <1>3 DEF Whole
  <2>1. OnlyLoans /\ ~LeftBehind
    BY <1>3, SameAccounts DEF OnlyLoans
  <2>2. Fixed' = Fixed
    BY <1>3, <2>1, NextFixed DEF Fixed
  <2>3. budget = extra + SumFunctionOnSet(Fixed, Debts)
    BY <1>3, <2>1 DEF Whole
  <2> QED BY <1>3, <2>2, <2>3
<1>4. CASE MinimumsPaid \/ ExtraPaidOut \/ EndMonth \/ UNCHANGED pvars
  <2>1. /\ UNCHANGED <<budget, extra, month, request, owed, part>> /\ Unrolled' = Unrolled
    BY <1>4 DEF MinimumsPaid, ExtraPaidOut, EndMonth, pvars, ledger, Unrolled
  <2>2. Running' = Running /\ (LeftBehind => LeftBehind')
    BY <2>1 DEF Running, LeftBehind
  <2>3. CASE phase \in Engaged
    BY <1>3, <2>1, <2>2, <2>3
  <2>4. CASE phase \notin Engaged
    BY <1>4, <2>4 DEF MinimumsPaid, ExtraPaidOut, EndMonth, pvars, Whole
  <2> QED BY <2>3, <2>4
<1>5. CASE PayMinimum \/ PayExtra
  <2>1. /\ UNCHANGED <<budget, extra, month, request, part>> /\ phase' = phase
        /\ phase \in {"minimums", "extra"}
    BY <1>5 DEF PayMinimum, PayExtra
  <2>2. PICK d \in Debts : PaidDown(d)
    BY <1>5, MinimumPaysDown, ExtraPaysDown
  <2>3. /\ LeftBehind => LeftBehind'
        /\ LeftBehind \/ LeftBehind' \/ Running' \cup Unrolled' = Running \cup Unrolled
    BY <2>1, <2>2, PaidDownRuns
  <2> QED BY <1>3, <2>1, <2>3
<1>6. CASE RollOver
  <2>1. PICK d \in Debts : d = First(serve) /\ d \in serve
    BY <1>6, ServedFirst DEF RollOver
  <2>2. /\ phase = "close" /\ phase' = "close" /\ serve' = serve \ {d}
        /\ extra' = extra + lastBase[d]
        /\ UNCHANGED <<request, part, month, budget, owed>>
    BY <1>6, <2>1 DEF RollOver, ledger
  <2> SUFFICES ASSUME month > 0, OnlyLoans', ~LeftBehind'
               PROVE  budget' = extra' + SumFunctionOnSet(Fixed', Debts)
    BY <2>2 DEF Whole
  <2>3. OnlyLoans /\ ~LeftBehind
    BY <2>2, SameAccounts DEF OnlyLoans, LeftBehind
  <2>4. d \notin Running /\ Running' = Running
    BY <1>0, <2>1, <2>2, Constants DEF Serving, Running
  <2>5. Unrolled = serve /\ Unrolled' = serve \ {d} /\ Unpaid = {}
    BY <2>2 DEF Unrolled, Unpaid
  <2>6. /\ Fixed'[d] = 0 /\ Fixed[d] = FirstMinimum(d)
        /\ \A e \in Debts \ {d} : Fixed'[e] = Fixed[e]
    BY <2>1, <2>2, <2>4, <2>5, NextFixed DEF Fixed
  <2>7. Fixed \in [Debts -> Int] /\ Fixed' \in [Debts -> Int]
    <3>1. Fixed \in [Debts -> Nat] /\ \A e \in Debts : FirstMinimum(e) \in Nat
      BY <1>0, FixedIsNat, AccountNumbers
    <3> QED BY <2>2, <3>1, NextFixed
  <2>8. SumFunctionOnSet(Fixed', Debts) = SumFunctionOnSet(Fixed, Debts) - Fixed[d] + Fixed'[d]
    BY <2>6, <2>7, Constants, SumWithOneChanged
  <2>9. lastBase[d] = FirstMinimum(d)
    <3>1. d \in part
      BY <1>0, <2>1, <2>2 DEF Serving
    <3> QED BY <2>1, <2>2, <2>3, <2>5, <3>1 DEF LastFixed, OnlyLoans
  <2>10. budget = extra + SumFunctionOnSet(Fixed, Debts)
    BY <2>2, <2>3 DEF Whole
  <2>11. /\ extra \in Nat /\ FirstMinimum(d) \in Nat /\ SumFunctionOnSet(Fixed, Debts) \in Int
    BY <1>0, FixedIsNat, AccountNumbers DEF PTypeOK
  <2> QED BY <2>2, <2>6, <2>8, <2>9, <2>10, <2>11
<1> QED BY <1>1, <1>2, <1>4, <1>5, <1>6 DEF PNext

-----------------------------------------------------------------------------
(* What the engine promises. *)

LEMMA PayoffInit == PInit => PayoffInv
<1> SUFFICES ASSUME PInit PROVE PayoffInv
  OBVIOUS
<1>1. Typed
  BY TypedInit
<1>2. phase = "idle" /\ part = {}
  BY DEF PInit
<1> QED BY <1>1, <1>2 DEF PayoffInv, Typed, NothingIsLost, LastPaid, Covered, LastFixed, Whole

LEMMA PayoffStep == PayoffInv /\ [PNext]_pvars => PayoffInv'
BY TypedStep, KeptStep, LastPaidStep, CoveredStep, LastFixedStep, WholeStep DEF PayoffInv, Typed

\* In a month in which every card's minimum covers its interest, no minimum is
\* above the one that was paid last.
LEMMA MinimumsFall ==
    ASSUME Typed, LastPaid, phase = "month", month > 0, CardsFall, NEW d \in Running
    PROVE  MinimumOf(d, owed[d] + Interest(owed[d], Rate(d))) <= lastBase[d]
<1> DEFINE b == owed[d]
           i == Interest(owed[d], Rate(d))
           l == lastBase[d]
<1>1. d \in part /\ d \in Debts /\ b \in Nat /\ l \in Nat
  BY DEF Running, Typed, PTypeOK
<1>2. i \in Nat /\ Ratio(d) \in Nat
  BY <1>1, InterestIsNat, AccountNumbers DEF Typed
<1>3. l >= MinimumOf(d, b + l)
  BY DEF LastPaid, Unpaid, WorkedOut
<1>4. CASE ~Card(d)
  BY <1>3, <1>4 DEF MinimumOf
<1>5. CASE Card(d)
  <2>1. i * 100 <= b * Ratio(d)
    BY <1>1, <1>5 DEF CardsFall
  <2>2. b * Ratio(d) \in Nat /\ (b + l) * Ratio(d) \in Nat /\ b * Ratio(d) <= (b + l) * Ratio(d)
    BY <1>1, <1>2, ProductGrows
  <2> HIDE DEF b, i, l
  <2>3. i <= ((b + l) * Ratio(d)) \div 100
    <3> DEFINE n == (b + l) * Ratio(d)
    <3>1. n \in Nat /\ i * 100 <= n
      BY <1>1, <1>2, <2>1, <2>2
    <3> HIDE DEF n
    <3>2. i <= n \div 100
      BY <1>2, <3>1
    <3> QED BY <3>2 DEF n
  <2>4. ((b + l) * Ratio(d)) \div 100 <= MinimumOf(d, b + l)
    <3>1. \A n \in Nat : n \div 100 \in Nat
      OBVIOUS
    <3>2. ((b + l) * Ratio(d)) \div 100 \in Nat
      BY <2>2, <3>1
    <3> QED BY <1>5, <3>2, Constants DEF MinimumOf, Larger
  <2>5. b + i \in Nat /\ b + l \in Nat /\ MinimumOf(d, b + l) \in Nat
    BY <1>1, <1>2, MinimumGrows DEF Typed
  <2>6. b + i <= b + l
    <3>1. ((b + l) * Ratio(d)) \div 100 \in Int
      BY <2>2
    <3> QED BY <1>1, <1>2, <1>3, <2>3, <2>4, <2>5, <3>1
  <2>7. MinimumOf(d, b + i) \in Nat /\ MinimumOf(d, b + i) <= MinimumOf(d, b + l)
    BY <1>1, <2>5, <2>6, MinimumGrows DEF Typed
  <2>8. MinimumOf(d, b + i) <= l
    BY <1>1, <1>3, <2>5, <2>7
  <2> QED BY <2>8 DEF b, i, l
<1> QED BY <1>4, <1>5

LEMMA PhantomStep ==
    PayoffInv /\ BeginMonth /\ month > 0 /\ CardsFall => budget' <= budget
<1> SUFFICES ASSUME PayoffInv, BeginMonth, month > 0, CardsFall PROVE budget' <= budget
  OBVIOUS
<1>0. Typed /\ LastPaid /\ Covered /\ phase = "month" /\ Running \subseteq Debts
  BY DEF PayoffInv, Typed, BeginMonth, Running, PTypeOK
<1> DEFINE due  == [d \in Debts |-> MinimumOf(d, owed'[d])]
           term == [d \in Debts |-> IF d \in Running THEN due[d] ELSE 0]
<1>1. budget' = extra + SumFunctionOnSet(due, Running)
  BY DEF BeginMonth
<1>2. due \in [Debts -> Nat]
  <2>1. owed' \in [Debts -> Nat] /\ PTypeOK
    <3>1. Typed'
      BY <1>0, TypedStep DEF PNext
    <3> QED BY <1>0, <3>1 DEF Typed, PTypeOK
  <2> QED BY <2>1, MinimumGrows
<1>3. \A d \in Running : due[d] <= lastBase[d]
  <2>1. \A d \in Running : owed'[d] = owed[d] + Interest(owed[d], Rate(d))
    BY <1>0 DEF BeginMonth
  <2> QED BY <1>0, <2>1, MinimumsFall
<1> HIDE DEF due
<1>4. term \in [Debts -> Int] /\ due \in [Debts -> Int] /\ Claim \in [Debts -> Int]
  BY <1>0, <1>2, ClaimIsNat
<1>5. \A d \in Debts : term[d] <= Claim[d]
  <2>1. Unpaid = {} /\ Unrolled = {}
    BY <1>0 DEF Unpaid, Unrolled
  <2>2. \A d \in Debts : Claim[d] = IF d \in Running THEN lastBase[d] ELSE 0
    BY <2>1 DEF Claim
  <2> QED BY <1>3, <2>2
<1>6. /\ \A d \in Debts \ Running : term[d] = 0
      /\ \A d \in Running : term[d] = due[d]
  BY <1>0
<1> HIDE DEF term
<1>7. SumFunctionOnSet(term, Debts) = SumFunctionOnSet(term, Running)
  BY <1>0, <1>4, <1>6, Constants, SumOfSome
<1>8. SumFunctionOnSet(term, Running) = SumFunctionOnSet(due, Running)
  BY <1>0, <1>4, <1>6, Constants, FS_Subset, SumOfSameTerms
<1>9. SumFunctionOnSet(term, Debts) <= SumFunctionOnSet(Claim, Debts)
  BY <1>4, <1>5, Constants, SumGrows
<1>10. /\ SumFunctionOnSet(term, Debts) \in Int /\ SumFunctionOnSet(Claim, Debts) \in Int
       /\ extra \in Nat /\ budget \in Nat
  BY <1>0, <1>4, Constants, SumIsInt DEF Typed, PTypeOK
<1>11. budget >= extra + SumFunctionOnSet(Claim, Debts)
  BY <1>0 DEF Covered
<1> QED BY <1>1, <1>7, <1>8, <1>9, <1>10, <1>11

\* A month that begins asks what the running loans and the extra come to.
LEMMA RolloverStep ==
    PayoffInv /\ BeginMonth /\ month > 0 /\ OnlyLoans /\ ~LeftBehind => budget' = budget
<1> SUFFICES ASSUME PayoffInv, BeginMonth, month > 0, OnlyLoans, ~LeftBehind
             PROVE  budget' = budget
  OBVIOUS
<1>1. /\ Typed /\ PayoffInv' /\ phase = "month" /\ phase' = "minimums" /\ month' > 0
      /\ UNCHANGED <<request, part, extra>> /\ closing' = {}
      /\ Running \subseteq Debts /\ part \subseteq Debts
      /\ owed' = [d \in Debts |-> IF d \in Running THEN owed[d] + Interest(owed[d], Rate(d))
                                                    ELSE owed[d]]
  <2>1. PayoffInv'
    BY PayoffStep DEF PNext
  <2> QED BY <2>1 DEF PayoffInv, Typed, BeginMonth, Running, PTypeOK
<1>2. \A d \in Debts : owed[d] \in Nat /\ Interest(owed[d], Rate(d)) \in Nat
  BY <1>1, InterestIsNat DEF Typed, PTypeOK
<1>3. Running' = Running /\ Unrolled = {} /\ Unrolled' = {}
  <2>1. \A d \in part : owed'[d] > Cent <=> owed[d] > Cent
    BY <1>1, <1>2, Constants DEF Running
  <2> QED BY <1>1, <2>1 DEF Running, Unrolled
<1>4. OnlyLoans' /\ ~LeftBehind'
  <2>1. \A d \in part : owed'[d] \in 1 .. Cent => owed[d] \in 1 .. Cent
    BY <1>1, <1>2, Constants DEF Running
  <2> QED BY <1>1, <2>1, SameAccounts DEF OnlyLoans, LeftBehind
<1>5. Fixed' = Fixed
  BY <1>1, <1>3, NextFixed DEF Fixed
<1>6. /\ budget = extra + SumFunctionOnSet(Fixed, Debts)
      /\ budget' = extra' + SumFunctionOnSet(Fixed', Debts)
  BY <1>1, <1>4 DEF PayoffInv, Whole
<1> QED BY <1>1, <1>5, <1>6

\* The engine of the strategies keeps its books (debt_strategy.py:195-327): every
\* variable keeps its type, so no debt is paid below zero; what a debt was and the
\* interest it drew is what was paid on it and what it still is; and where minimums
\* cover the interest of the cards, no month asks more than the month before.
THEOREM MoneyAlwaysAddsUp == PSpec => MoneyAddsUp
<1>1. PayoffInv => PTypeOK /\ NothingIsLost
  BY DEF PayoffInv
<1>2. PayoffInv /\ [PNext]_pvars => [BeginMonth /\ month > 0 /\ CardsFall => budget' <= budget]_pvars
  BY PhantomStep
<1> QED BY <1>1, <1>2, PayoffInit, PayoffStep, PTL DEF PSpec, MoneyAddsUp, NoPhantomMoney

\* In a plan of loans no month sets aside more or less than the month before: what a closed
\* loan cost is extra money from the next month on, to the last kurus of its instalment, with
\* any number of loans, in whichever order, whatever closed them (debt_strategy.py:239-311).
THEOREM RolloverIsAlwaysWhole == PSpec => RolloverIsWhole
<1>1. PayoffInv /\ [PNext]_pvars =>
        [BeginMonth /\ month > 0 /\ OnlyLoans /\ ~LeftBehind => budget' = budget]_pvars
  BY RolloverStep
<1> QED BY <1>1, PayoffInit, PayoffStep, PTL DEF PSpec, RolloverIsWhole

=============================================================================
