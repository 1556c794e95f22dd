----------------------------- MODULE MCPayoff -----------------------------
\* Small households for Payoff: amounts are scaled down (the floor of a
\* card's minimum is 50 units), rates and ratios are the code's.
EXTENDS Payoff

Credit(b, r, ratio, st) == [kind |-> "credit_card", balance |-> b, rate |-> r, ratio |-> ratio,
                            statement |-> st, monthly |-> 0, left |-> 0]
Loan(b, r, m, left) == [kind |-> "loan", balance |-> b, rate |-> r, ratio |-> 0,
                        statement |-> None, monthly |-> m, left |-> left]

\* Cards with and without a known ratio, statement and rate, one whose
\* minimum does not cover its interest; loans with and without an instalment.
MCAccounts ==
    {Credit(400, 0, 0, None), Credit(131, 300, 40, 0), Credit(700, 3000, 0, 90),
     Loan(240, 0, 60, 4), Loan(203, 500, 0, 3), Loan(131, 200, 50, 0), Loan(101, 0, 50, 0), Loan(0, 0, 0, 0)}
=============================================================================
