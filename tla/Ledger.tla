------------------------------- MODULE Ledger -------------------------------
(***************************************************************************)
(* Transactions and the balances they move.                                *)
(* app/routers/transactions.py, app/balance_rules.py, app/account_rules.py.*)
(*                                                                         *)
(* The accounts of one user in one workspace; creating, retiring and       *)
(* re-marking accounts is the subject of DebtSettlement.  The type of an   *)
(* account never changes: AccountUpdate has no such field.  A request      *)
(* loads the transaction, then the accounts, and commits both.             *)
(***************************************************************************)
EXTENDS Integers, FiniteSetsExt

CONSTANTS
    Accounts,   \* ids of accounts, positive integers
    Kind,       \* their types
    Trust,      \* those held in trust (is_emanet)
    Txns,       \* ids of transactions
    Amounts,    \* amounts of transactions
    Requests,   \* requests to the API; each is served once
    Alone,      \* is every request served with no other request running?
    None

Kinds == {"cash", "credit_card", "loan", "investment"}
Types == {"income", "expense", "transfer"}

ASSUME AccountsKnown ==
    /\ Accounts \subseteq Nat \ {0} /\ IsFiniteSet(Accounts)
    /\ Kind \in [Accounts -> Kinds] /\ Trust \subseteq Accounts
ASSUME AmountsPositive == Amounts \subseteq Nat \ {0}
ASSUME FinitelyManyTxns == IsFiniteSet(Txns)

VARIABLES
    txn,       \* the rows of transactions; None where there is none
    balance,   \* the balances of the accounts
    typed,     \* ghost: the part of a balance that the user stated as a figure
    pc,        \* where a request is
    job,       \* its transaction: id, the row as loaded, the row it will be, auto
    writes     \* the balances it is going to write

books   == <<txn, balance, typed>>
service == <<pc, job, writes>>
ledgerVars == <<books, service>>

Row == [account : Accounts \cup {None}, type : Types, amount : Amounts]
Job == [id : Txns, old : Row \cup {None}, new : Row \cup {None}, auto : BOOLEAN]

ASSUME NoneIsNothing ==
    /\ \A S \in {Accounts, Txns, Amounts, Types} : None \notin S
    /\ None \notin Row /\ None \notin Job

LedgerTypeOK ==
    /\ txn     \in [Txns -> Row \cup {None}]
    /\ balance \in [Accounts -> Int]
    /\ typed   \in [Accounts -> Int]
    /\ pc      \in [Requests -> {"idle", "loaded", "ready", "created", "done"}]
    /\ job     \in [Requests -> Job \cup {None}]
    /\ DOMAIN writes = Requests
    /\ \A r \in Requests :
          /\ DOMAIN writes[r] \subseteq Accounts
          /\ \A x \in DOMAIN writes[r] : writes[r][x] \in Int

NoWrites == [x \in {} |-> 0]

NoRequests ==
    /\ pc      = [r \in Requests |-> "idle"]
    /\ job     = [r \in Requests |-> None]
    /\ writes  = [r \in Requests |-> NoWrites]

\* The user opened the accounts with these figures and entered nothing yet.
LedgerInit(opening) ==
    /\ txn     = [t \in Txns |-> None]
    /\ balance = opening
    /\ typed   = opening
    /\ NoRequests

MayBegin == Alone => \A r \in Requests : pc[r] \in {"idle", "done"}

-----------------------------------------------------------------------------
(* What is computed. *)

\* balance_delta: cash grows by income and shrinks by expense; a card's balance
\* is a debt and moves the other way; an expense on a loan is an instalment.
\* Nothing else moves a balance.
BalanceDelta(kind, type, amount) ==
    CASE kind = "cash"        /\ type = "income"  ->  amount
      [] kind = "cash"        /\ type = "expense" -> -amount
      [] kind = "credit_card" /\ type = "expense" ->  amount
      [] kind = "credit_card" /\ type = "income"  -> -amount
      [] kind = "loan"        /\ type = "expense" -> -amount
      [] OTHER -> 0

\* The effect of a row on the balance of x.
Effect(row, x) ==
    IF row # None /\ row.account = x THEN BalanceDelta(Kind[x], row.type, row.amount) ELSE 0

\* varsayilan_hesap: the smallest id of that kind that is not held in trust.
DefaultAccount(kind) ==
    LET eligible == {x \in Accounts : Kind[x] = kind /\ x \notin Trust}
    IN IF eligible = {} THEN None ELSE Min(eligible)

\* Mutant: only the new effect is applied when a transaction is amended.
ChangeOfNew(j, x) == Effect(j.new, x) - (IF j.new = None THEN Effect(j.old, x) ELSE 0)

\* _apply_to_balance, reversed for the old row and forward for the new one.
Change(j, x) == Effect(j.new, x) - Effect(j.old, x)

\* What the ORM writes: the columns that differ from what was loaded.
Merge(row, old, new) ==
    IF old = None \/ new = None THEN new
    ELSE [account |-> IF new.account # old.account THEN new.account ELSE row.account,
          type    |-> IF new.type    # old.type    THEN new.type    ELSE row.type,
          amount  |-> IF new.amount  # old.amount  THEN new.amount  ELSE row.amount]

-----------------------------------------------------------------------------
(* The requests. *)

Free(t) == txn[t] = None /\ \A q \in Requests : job[q] # None => job[q].id # t

\* A structured or quick entry: no account stands for "choose one", which is a
\* card when the entry or its category says so, else cash.  Zero is a figure a
\* user may send and the code refuses.
Entry == [account : Accounts \cup {None}, type : Types, amount : Amounts \cup {0}, card : BOOLEAN]

EntryAccount(e) ==
    IF e.account # None THEN e.account
    ELSE DefaultAccount(IF e.card THEN "credit_card" ELSE "cash")

(* create_transaction: 400 for an amount that is not positive or when no    *)
(* account is found; the account is read and the new balance computed.     *)
BeginCreate(r, t, e, auto) ==
    LET x == EntryAccount(e)
        j == [id |-> t, old |-> None, auto |-> auto,
              new |-> [account |-> x, type |-> e.type, amount |-> e.amount]]
    IN
    /\ pc[r] = "idle" /\ MayBegin
    /\ Free(t)
    /\ e.amount > 0 /\ x # None
    /\ job' = [job EXCEPT ![r] = j]
    /\ writes' = [writes EXCEPT ![r] =
          IF auto /\ Change(j, x) # 0 THEN [y \in {x} |-> balance[x] + Change(j, x)] ELSE NoWrites]
    /\ pc' = [pc EXCEPT ![r] = "ready"]
    /\ UNCHANGED books

\* The rows update_transaction may be asked for: every field may be sent or not.
Amended == Row

(* update_transaction and delete_transaction load the row (404 without).   *)
LoadTxn(r, t, new, auto) ==
    /\ pc[r] = "idle" /\ MayBegin
    /\ txn[t] # None
    /\ new \in Amended \cup {None}
    /\ job' = [job EXCEPT ![r] = [id |-> t, old |-> txn[t], new |-> new, auto |-> auto]]
    /\ pc'  = [pc EXCEPT ![r] = "loaded"]
    /\ UNCHANGED <<books, writes>>

(* They load the accounts of the old and of the new row and compute.       *)
ReadAccounts(r) ==
    LET j == job[r] IN
    /\ pc[r] = "loaded"
    /\ writes' = [writes EXCEPT ![r] =
          [x \in {y \in Accounts : j.auto /\ Change(j, y) # 0} |-> balance[x] + Change(j, x)]]
    /\ pc' = [pc EXCEPT ![r] = "ready"]
    /\ UNCHANGED <<books, job>>

\* Changing a row that is gone fails; deleting it again is no error.
Lands(j) == j.old # None /\ j.new # None /\ j.old # j.new => txn[j.id] # None

(* One transaction writes the row and the balances, or nothing.            *)
CommitTxn(r) ==
    LET j == job[r] IN
    /\ pc[r] = "ready"
    /\ IF Lands(j)
         THEN /\ txn' = [txn EXCEPT ![j.id] =
                    IF @ = None /\ j.old # None THEN None ELSE Merge(@, j.old, j.new)]
              /\ balance' = [x \in Accounts |->
                    IF x \in DOMAIN writes[r] THEN writes[r][x] ELSE balance[x]]
         ELSE UNCHANGED <<txn, balance>>
    /\ pc' = [pc EXCEPT ![r] = IF j.old = None THEN "created" ELSE "done"]
    /\ job' = IF j.old = None THEN job ELSE [job EXCEPT ![r] = None]
    /\ writes' = [writes EXCEPT ![r] = NoWrites]
    /\ UNCHANGED typed

(* The answer to create_transaction.                                       *)
AnswerCreate(r) ==
    /\ pc[r] = "created"
    /\ pc'  = [pc EXCEPT ![r] = "done"]
    /\ job' = [job EXCEPT ![r] = None]
    /\ UNCHANGED <<books, writes>>

TxnStep(r, autos) ==
    \/ \E t \in Txns, auto \in autos :
          \/ \E e \in Entry : BeginCreate(r, t, e, auto)
          \/ txn[t] # None /\ \E new \in Amended \cup {None} : LoadTxn(r, t, new, auto)
    \/ ReadAccounts(r) \/ CommitTxn(r)

-----------------------------------------------------------------------------

\* What the rows say of the balance of x.
EffectsOn(x) == [t \in Txns |-> Effect(txn[t], x)]
RowsOn(x)    == SumFunctionOnSet(EffectsOn(x), Txns)

\* With the effect of every row on its balance, a balance is the user's figure
\* plus the effects of the rows that now exist.
BalancesExplained == \A x \in Accounts : balance[x] = typed[x] + RowsOn(x)
=============================================================================
