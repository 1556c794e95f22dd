--------------------------- MODULE ActionHandlers ---------------------------
(***************************************************************************)
(* What an approved action does to the books, and the user's own rules.    *)
(* app/action_executor.py (propose_action and the handlers),               *)
(* app/user_rules.py, app/routers/checkpoints.py, app/fund_tracker.py.     *)
(*                                                                         *)
(* Who may approve what and when is ActionLifecycle's subject, paying a    *)
(* personal debt DebtSettlement's.  Here an approval checks the rules,     *)
(* reads what its handler reads and commits what the handler wrote.        *)
(***************************************************************************)
EXTENDS Ledger

CONSTANTS
    Actions,      \* ids of pending actions
    Payloads,     \* what the coach may propose
    Checkpoints,  \* ids of master checkpoints
    Rules,        \* the structured rules a checkpoint may carry
    Drafts,       \* checkpoints as the panel sends them
    Lots, Cost,   \* the lots of a fund at the start and what one of them cost
    OpeningCash, OpeningDebt

Funds == {x \in Accounts : Kind[x] = "investment"}
Handled == {"update_account_balance", "add_transaction", "pay_credit_card", "sell_investment",
            "update_fund_price", "add_master_checkpoint"}

(* A payload: account is the value of the key account_id, of that of       *)
(* card_account_id or investment_id, with that of source_account_id or     *)
(* credit_to_account_id; usual says that the category is one the user      *)
(* marked as paid by card, card and auto are is_card_expense and           *)
(* auto_update_balance.                                                    *)
Payload == [kind : Handled, account : Accounts \cup {None}, of : Accounts \cup {None},
            with : Accounts \cup {None}, type : Types, amount : Nat, lots : Nat,
            usual : BOOLEAN, card : BOOLEAN, auto : BOOLEAN]

Rule == [type : {"min_cash_floor", "account_untouchable", "max_single_expense"},
         amount : Nat, account : Accounts \cup {None}]

Checkpoint == [system : BOOLEAN, priority : 1..3, type : {"red_line", "rule"},
               active : BOOLEAN, rule : Rules \cup {None}]

ASSUME HandlersAssumption ==
    /\ Payloads \subseteq Payload /\ Rules \subseteq Rule /\ Drafts \subseteq Checkpoint
    /\ \A p \in Payloads : p.kind = "add_transaction" => p.amount \in Amounts
    /\ {Lots, Cost, OpeningCash, OpeningDebt} \subseteq Nat
ASSUME NoneIsNoCheckpoint == None \notin Checkpoint

VARIABLES
    lots, price,  \* of the funds
    act, stage,   \* the actions' payloads and how far their approval is
    plan,         \* what a handler has read and is going to write
    cp            \* the checkpoints; None where there is none

assets == <<lots, price>>
hVars  == <<ledgerVars, assets, act, stage, plan, cp>>

Stages == {"none", "proposed", "permitted", "ready", "executed", "refused", "blocked"}

\* What a handler reads, and what it is going to write.
Picture == [balance : [Accounts -> Int], lots : [Funds -> Nat], price : [Funds -> Nat],
            row : Row \cup {None}]

HTypeOK ==
    /\ LedgerTypeOK
    /\ lots  \in [Funds -> Nat]
    /\ price \in [Funds -> Nat]
    /\ act   \in [Actions -> Payload \cup {None}]
    /\ stage \in [Actions -> Stages]
    /\ DOMAIN plan = Actions
    /\ \A a \in Actions :
          /\ stage[a] # "none"  => act[a] \in Payload
          /\ stage[a] = "ready" => plan[a] \in [seen : Picture, next : Picture]
    /\ cp    \in [Checkpoints -> Checkpoint \cup {None}]

Opening(x) ==
    CASE Kind[x] = "cash" -> OpeningCash
      [] Kind[x] = "investment" -> Lots * Cost
      [] OTHER -> OpeningDebt

\* A checkpoint every user starts with.
Seeded == [system |-> TRUE, priority |-> 2, type |-> "rule", active |-> TRUE, rule |-> None]

HInit ==
    /\ LedgerInit([x \in Accounts |-> Opening(x)])
    /\ lots    = [x \in Funds |-> Lots]
    /\ price   = [x \in Funds |-> Cost]
    /\ act     = [a \in Actions |-> None]
    /\ stage   = [a \in Actions |-> "none"]
    /\ plan    = [a \in Actions |-> None]
    /\ cp      \in [Checkpoints -> {None, Seeded}]

Approving == {a \in Actions : stage[a] \in {"permitted", "ready"}}
Quiet     == Alone => Approving = {}   \* one request at a time

-----------------------------------------------------------------------------
(* Proposing. *)

\* _normalize_transaction_payload: an entry in a category paid by card goes to
\* the default card unless the coach named an account of another kind.
Normalised(p) ==
    LET card == DefaultAccount("credit_card") IN
    IF /\ p.kind = "add_transaction" /\ p.usual /\ card # None
       /\ p.account # None => Kind[p.account] = "credit_card"
      THEN [p EXCEPT !.account = card, !.card = TRUE]
      ELSE p

Propose(a, p) ==
    /\ stage[a] = "none"
    /\ p.amount > 0 \/ p.kind \in {"update_account_balance", "sell_investment"}
    /\ act'   = [act EXCEPT ![a] = Normalised(p)]
    /\ stage' = [stage EXCEPT ![a] = "proposed"]
    /\ UNCHANGED <<ledgerVars, assets, plan, cp>>

-----------------------------------------------------------------------------
(* The user's rules. *)

\* _nakit_toplami: trust accounts count as cash here.
Cash(b) == SumFunctionOnSet(b, {x \in Accounts : Kind[x] = "cash"})

\* Mutant: only what is not booked at once counts.
OutflowUnlessAuto(p) ==
    IF p.kind = "add_transaction" /\ p.type = "expense" /\ ~p.card /\ ~p.auto THEN p.amount ELSE 0

\* _harcama_tutari: the payload's amount of an expense not paid by card.  No
\* handled action is named pay_card or pay_loan_installment, and the payload of
\* mark_debt_paid has no amount.
Outflow(p) ==
    IF p.kind = "add_transaction" /\ p.type = "expense" /\ ~p.card THEN p.amount ELSE 0

\* The parameter of a rule: the panel asks for one when a checkpoint is created, not when
\* it is amended, and an evaluator ignores a rule without.
Usable(rule) == IF rule.type = "account_untouchable" THEN rule.account # None ELSE rule.amount > 0

\* The evaluators of the three kinds of rule.
Breaks(p, rule) == Usable(rule) /\
    CASE rule.type = "min_cash_floor" ->
           Outflow(p) > 0 /\ Cash(balance) - Outflow(p) < rule.amount
      [] rule.type = "account_untouchable" -> p.account = rule.account
      [] rule.type = "max_single_expense" ->
           p.kind = "add_transaction" /\ p.type = "expense" /\ p.amount > rule.amount

Active == {c \in Checkpoints : cp[c] # None /\ cp[c].active /\ cp[c].rule # None}

(* enforce_user_rules, after the action was claimed.                       *)
Check(a) ==
    /\ stage[a] = "proposed" /\ Quiet
    /\ stage' = [stage EXCEPT ![a] =
          IF \E c \in Active : Breaks(act[a], cp[c].rule) THEN "blocked" ELSE "permitted"]
    /\ UNCHANGED <<ledgerVars, assets, act, plan, cp>>

-----------------------------------------------------------------------------
(* The handlers: what is written, or None when the action is refused. *)

Seen == [balance |-> balance, lots |-> lots, price |-> price, row |-> None]

UpdateBalance(p) ==
    IF p.account \in Trust \cup {None} THEN None ELSE [Seen EXCEPT !.balance[p.account] = p.amount]

Moved(b, x, amount) == [b EXCEPT ![x] = @ + amount]

\* The handler's own convention: what is not a card moves like cash.
ExecutorDelta(kind, type, amount) ==
    IF type = "transfer" THEN 0
    ELSE IF (type = "income") = (kind = "credit_card") THEN -amount ELSE amount

AddTransaction(p) ==
    IF p.account \in Trust THEN None
    ELSE [Seen EXCEPT
            !.row = [account |-> p.account, type |-> p.type, amount |-> p.amount],
            !.balance = IF p.auto /\ p.account # None
                          THEN Moved(@, p.account, ExecutorDelta(Kind[p.account], p.type, p.amount))
                          ELSE @]

\* Mutant: the card's debt grows.
PayCardUpwards(p) ==
    LET card   == IF p.of # None THEN p.of ELSE p.account
        source == IF p.with # None THEN p.with ELSE DefaultAccount("cash")
    IN IF card = None \/ source = None \/ Kind[card] # "credit_card" THEN None
       ELSE [Seen EXCEPT !.balance = Moved(Moved(@, card, p.amount), source, -p.amount)]

\* Both legs; a source that is named may be of any kind, and held in trust.
PayCard(p) ==
    LET card   == IF p.of # None THEN p.of ELSE p.account
        source == IF p.with # None THEN p.with ELSE DefaultAccount("cash")
    IN IF card = None \/ source = None \/ Kind[card] # "credit_card" THEN None
       ELSE [Seen EXCEPT !.balance = Moved(Moved(@, card, -p.amount), source, -p.amount)]

\* simulate_partial_sale: 17.5 per cent are withheld, of a gain only.
Withheld(gain) == IF gain > 0 THEN (gain * 7) \div 40 ELSE 0

Sellable(p) ==
    /\ p.of \in Funds \ Trust
    /\ p.lots > 0 /\ p.lots <= lots[p.of]
    /\ p.with \notin Trust \cup {None}

\* A sale at the price it was done at, by default the price of the fund; its
\* proceeds go to the account that is named.
Sell(p) ==
    IF ~Sellable(p) THEN None
    ELSE LET at   == IF p.amount > 0 THEN p.amount ELSE price[p.of]
             left == lots[p.of] - p.lots
             net  == p.lots * at - Withheld(p.lots * (at - Cost))
         IN [Seen EXCEPT
               !.lots[p.of] = left, !.price[p.of] = at,
               !.balance = Moved([@ EXCEPT ![p.of] = left * at], p.with, net)]

\* update_fund_price_manual.
UpdatePrice(p) ==
    IF p.account \notin Funds THEN None
    ELSE [Seen EXCEPT !.price[p.account] = p.amount,
                      !.balance[p.account] = lots[p.account] * p.amount]

Outcome(p) ==
    CASE p.kind = "update_account_balance" -> UpdateBalance(p)
      [] p.kind = "add_transaction"        -> AddTransaction(p)
      [] p.kind = "pay_credit_card"        -> PayCard(p)
      [] p.kind = "sell_investment"        -> Sell(p)
      [] p.kind = "update_fund_price"      -> UpdatePrice(p)
      [] p.kind = "add_master_checkpoint"  -> Seen

(* A handler loads its rows, checks and computes.                          *)
Load(a) ==
    /\ stage[a] = "permitted"
    /\ IF Outcome(act[a]) = None
         THEN /\ stage' = [stage EXCEPT ![a] = "refused"]
              /\ UNCHANGED plan
         ELSE /\ stage' = [stage EXCEPT ![a] = "ready"]
              /\ plan'  = [plan EXCEPT ![a] = [seen |-> Seen, next |-> Outcome(act[a])]]
    /\ UNCHANGED <<ledgerVars, assets, act, cp>>

\* What differs from what was loaded is written.
Written(now, seen, next) ==
    [x \in DOMAIN now |-> IF next[x] # seen[x] THEN next[x] ELSE now[x]]

NewCheckpoint == [system |-> FALSE, priority |-> 1, type |-> "red_line",
                  active |-> TRUE, rule |-> None]

(* The handler's commit.                                                   *)
Commit(a) ==
    LET seen == plan[a].seen
        next == plan[a].next
    IN
    /\ stage[a] = "ready"
    /\ balance' = Written(balance, seen.balance, next.balance)
    /\ lots'    = Written(lots, seen.lots, next.lots)
    /\ price'   = Written(price, seen.price, next.price)
    /\ IF next.row = None THEN UNCHANGED txn
       ELSE \E t \in Txns : Free(t) /\ txn' = [txn EXCEPT ![t] = next.row]
    /\ IF act[a].kind # "add_master_checkpoint" THEN UNCHANGED cp
       ELSE \E c \in Checkpoints : cp[c] = None /\ cp' = [cp EXCEPT ![c] = NewCheckpoint]
    /\ stage' = [stage EXCEPT ![a] = "executed"]
    /\ plan'  = [plan EXCEPT ![a] = None]
    /\ UNCHANGED <<typed, service, act>>

-----------------------------------------------------------------------------
(* Master checkpoints in the panel. *)

IsRedLine(c) == c.priority = 1 /\ c.type = "red_line"

(* create_checkpoint.                                                      *)
CreateCheckpoint(c, new) ==
    /\ Quiet /\ cp[c] = None /\ (new.rule # None => Usable(new.rule))
    /\ cp' = [cp EXCEPT ![c] = [new EXCEPT !.system = FALSE]]
    /\ UNCHANGED <<ledgerVars, assets, act, stage, plan>>

\* Mutant: a red line may be reclassified.
MayAmendAny(old, new) == TRUE

\* The priority and the type of a red line of priority 1 stay.
MayAmend(old, new) ==
    IsRedLine(old) => new.priority = old.priority /\ new.type = old.type

UpdateCheckpoint(c, new) ==
    /\ Quiet /\ cp[c] # None /\ MayAmend(cp[c], new)
    /\ cp' = [cp EXCEPT ![c] = [new EXCEPT !.system = cp[c].system]]
    /\ UNCHANGED <<ledgerVars, assets, act, stage, plan>>

(* delete_checkpoint: softly by default, else unless it is protected.      *)
DeleteCheckpoint(c, hard) ==
    /\ Quiet /\ cp[c] # None
    /\ hard => ~cp[c].system /\ ~IsRedLine(cp[c])
    /\ cp' = [cp EXCEPT ![c] = IF hard THEN None ELSE [@ EXCEPT !.active = FALSE]]
    /\ UNCHANGED <<ledgerVars, assets, act, stage, plan>>

-----------------------------------------------------------------------------
HNext ==
    \/ \E a \in Actions :
          \/ \E p \in Payloads : Propose(a, p)
          \/ Check(a) \/ Load(a) \/ Commit(a)
    \/ \E c \in Checkpoints :
          \/ \E new \in Drafts : CreateCheckpoint(c, new) \/ UpdateCheckpoint(c, new)
          \/ \E hard \in BOOLEAN : DeleteCheckpoint(c, hard)

HSpec == HInit /\ [][HNext]_hVars

-----------------------------------------------------------------------------
(* Properties of actions that are approved one at a time. *)

Finishing(a) == stage[a] = "ready" /\ stage'[a] = "executed"

IsFloor(rule) == rule.type = "min_cash_floor" /\ Usable(rule)

\* An expense the coach books without the card flag never takes the user's cash
\* below a floor of theirs that is active, whatever was approved
\* between the proposal and the approval.
FloorKept ==
    [][\A a \in Actions :
          Finishing(a) /\ act[a].kind = "add_transaction" /\ ~act[a].card /\ Cash(balance') < Cash(balance) =>
          \A c \in Active : IsFloor(cp[c].rule) => Cash(balance') >= cp[c].rule.amount
      ]_hVars

\* What the user owns less what the user owes.
Signed(b) == [x \in Accounts |-> IF Kind[x] \in {"cash", "investment"} THEN b[x] ELSE -b[x]]
Worth(b)  == SumFunctionOnSet(Signed(b), Accounts)

\* Paying a card from cash and selling lots at the price they are valued at move
\* money without making or losing any, except for the tax that is withheld
\* (typed plays no part here: an action may state any figure).
WorthIsConserved ==
    [][\A a \in Actions : Finishing(a) =>
        LET p == act[a] IN
        /\ p.kind = "pay_credit_card" /\ (p.with = None \/ Kind[p.with] = "cash") =>
              Worth(balance') = Worth(balance)
        /\ /\ p.kind = "sell_investment" /\ Kind[p.with] = "cash"
           /\ p.amount \in {0, price[p.of]} /\ balance[p.of] = lots[p.of] * price[p.of]
           => Worth(balance') = Worth(balance) - Withheld(p.lots * (price[p.of] - Cost))
      ]_hVars

\* What is owned stays accounted for: worth is conserved where it must be, no more lots are
\* sold than there are, and every variable keeps its type (action_executor.py:892-1060).
WorthKept == []HTypeOK /\ WorthIsConserved

\* A red line of priority 1 and a checkpoint of the system are never lost, in
\* whatever order the panel amends and deletes: at most they are switched off.
ProtectedStay ==
    [][\A c \in Checkpoints : cp[c] # None /\ (cp[c].system \/ IsRedLine(cp[c])) =>
          cp'[c] # None /\ (cp'[c].system \/ IsRedLine(cp'[c]))]_hVars
=============================================================================
