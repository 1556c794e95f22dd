-------------------------- MODULE MCActionHandlers --------------------------
(* A cash account, a card, a fund and cash held in trust; a floor that one *)
(* expense respects and two do not.                                        *)
EXTENDS ActionHandlers

MCAccounts == 1..4
MCKind     == <<"cash", "credit_card", "investment", "cash">>
MCTrust    == {4}

P(kind, account, of, with, type, amount, n, usual, auto) ==
    [kind |-> kind, account |-> account, of |-> of, with |-> with, type |-> type,
     amount |-> amount, lots |-> n, usual |-> usual, card |-> FALSE, auto |-> auto]

MCPayloads ==
    {P("update_account_balance", x, None, None, "transfer", 40, 0, FALSE, FALSE) : x \in {1, 4}}
    \cup {P("add_transaction", x, None, None, "expense", 40, 0, usual, auto) :
             x \in {None, 1}, usual \in BOOLEAN, auto \in BOOLEAN}
    \cup {P("add_transaction", 2, None, None, "income", 40, 0, FALSE, TRUE)}
    \cup {P("pay_credit_card", IF x = None THEN 2 ELSE None, x, y, "transfer", 40, 0, FALSE, FALSE) :
             x \in {None, 2}, y \in {None, 4}}
    \cup {P("sell_investment", None, 3, 1, "transfer", m, n, FALSE, FALSE) : m \in {0, 80}, n \in {1, 2}}
    \cup {P("update_fund_price", 3, None, None, "transfer", 80, 0, FALSE, FALSE),
          P("add_master_checkpoint", None, None, None, "transfer", 1, 0, FALSE, FALSE)}

MCRules ==
    {[type |-> "min_cash_floor", amount |-> 80, account |-> None],
     [type |-> "account_untouchable", amount |-> 0, account |-> 1],
     [type |-> "max_single_expense", amount |-> 20, account |-> None],
     [type |-> "max_single_expense", amount |-> 0, account |-> None]}

\* A red line with each rule, an ordinary rule, on and off.
MCDrafts ==
    {[system |-> FALSE, priority |-> 1, type |-> "red_line", active |-> TRUE, rule |-> r] :
        r \in Rules}
    \cup {[system |-> FALSE, priority |-> 2, type |-> t, active |-> b, rule |-> None] :
            t \in {"red_line", "rule"}, b \in BOOLEAN}
=============================================================================
