--------------------------- MODULE DebtSettlement ---------------------------
(***************************************************************************)
(* The cash leg of settling a debt or a receivable.                        *)
(* app/services/debt_settlement.py, app/account_rules.py,                  *)
(* app/routers/debts.py, and the debt handler of app/action_executor.py.   *)
(*                                                                         *)
(* A request loads the debt, then the account it settles into, and commits *)
(* both in one transaction; the ORM writes back only the columns it        *)
(* changed, each with the value it computed from what it had loaded.       *)
(***************************************************************************)
EXTENDS Integers, FiniteSetsExt

CONSTANTS
    Debts,       \* ids of personal_debts rows
    Receivable,  \* those whose direction is receivable; the others are payable
    Accounts,    \* ids of the user's cash accounts, positive integers
    Amounts,     \* the amounts a debt may have
    Figures,     \* the balances a user may type in
    Requests,    \* requests about debts
    Alone,       \* is every request served with no other request running?
    ForeignKeys, \* does the database enforce settlement_account_id -> accounts.id?
                 \* TRUE on PostgreSQL; the migration does not create it on SQLite
    None

ASSUME AccountIds == Accounts \subseteq Nat \ {0} /\ IsFiniteSet(Accounts)
ASSUME AmountsPositive == Amounts \subseteq Nat \ {0} /\ Figures \subseteq Int
ASSUME NoneIsNothing == None \notin Accounts \cup Debts \cup Amounts
ASSUME FinitelyManyDebts == IsFiniteSet(Debts)
ASSUME SetsKnown == Receivable \subseteq Debts /\ {Alone, ForeignKeys} \subseteq BOOLEAN

VARIABLES
    debt,        \* the rows of personal_debts
    live,        \* the accounts that exist
    lastId,      \* the highest id an account was ever given
    balance, emanet,   \* their columns
    external,    \* ghost: what users typed, as the balance it leaves without debts
    pc, about, before, after,   \* a request: its place, its debt, the row as
                                \* loaded and as it will be written
    writes       \* the balances a request is going to write

ledger  == <<live, lastId, balance, emanet, external>>
service == <<pc, about, before, after, writes>>
vars    == <<debt, ledger, service>>

\* A row: does it exist, what it is about, is it paid, and the account its
\* cash leg was booked on (settlement_account_id).  paid_date is set exactly
\* when is_paid is (app/butunluk.py) and carries no further information.
Row == [exists : BOOLEAN, amount : Amounts, paid : BOOLEAN, trace : Accounts \cup {None}]

DTypeOK ==
    /\ debt     \in [Debts -> Row]
    /\ live     \in SUBSET Accounts
    /\ lastId   \in Accounts \cup {0}
    /\ balance  \in [Accounts -> Int]
    /\ emanet   \in [Accounts -> BOOLEAN]
    /\ external \in [Accounts -> Int]
    /\ pc       \in [Requests -> {"idle", "loaded", "synced", "done"}]
    /\ about    \in [Requests -> Debts \cup {None}]
    /\ before   \in [Requests -> Row \cup {None}]
    /\ after    \in [Requests -> Row \cup {None}]
    /\ DOMAIN writes = Requests
    /\ \A r \in Requests :
          /\ DOMAIN writes[r] \subseteq Accounts
          /\ \A x \in DOMAIN writes[r] : writes[r][x] \in Int

NoWrites == [x \in {} |-> 0]

Init ==
    /\ debt \in [Debts -> [exists : {FALSE}, amount : Amounts, paid : {FALSE}, trace : {None}]]
    /\ live     = {}
    /\ lastId   = 0
    /\ balance  = [x \in Accounts |-> 0]
    /\ emanet   = [x \in Accounts |-> FALSE]
    /\ external = [x \in Accounts |-> 0]
    /\ pc       = [r \in Requests |-> "idle"]
    /\ about    = [r \in Requests |-> None]
    /\ before   = [r \in Requests |-> None]
    /\ after    = [r \in Requests |-> None]
    /\ writes   = [r \in Requests |-> NoWrites]

Running == {r \in Requests : pc[r] \in {"loaded", "synced"}}
MayBegin == Alone => Running = {}

-----------------------------------------------------------------------------
(* What is computed. *)

\* kapanis_delta: collecting a receivable brings cash in, paying a debt takes it out.
Delta(d, amount) == IF d \in Receivable THEN amount ELSE -amount

\* varsayilan_nakit_hesap: the smallest id among the accounts not in trust.
Eligible == {x \in live : ~emanet[x]}

DefaultCash == IF Eligible = {} THEN None ELSE Min(Eligible)

\* The effect a row has on cash now, provided its leg was booked.
Booked(d, row) == IF row.paid /\ row.trace # None THEN Delta(d, row.amount) ELSE 0

\* The account that carries the leg of the new row: the one it is on already,
\* else the default; none when nothing is to be carried.
Carrier(old, new) ==
    IF ~new.paid THEN None
    ELSE IF old.trace \in live THEN old.trace ELSE DefaultCash

\* Mutant: the new effect is applied in full instead of the difference.
ChangeInFull(d, old, new, x) ==
    LET to == Carrier(old, new) IN
      (IF x = to THEN Delta(d, new.amount) ELSE 0)
        - (IF old.paid /\ x = old.trace /\ ~new.paid THEN Booked(d, old) ELSE 0)

\* senkronize_nakit: the change of each balance ...
Change(d, old, new, x) ==
    LET to == Carrier(old, new) IN
      (IF x = to THEN Delta(d, new.amount) ELSE 0)
        - (IF old.paid /\ x = old.trace THEN Booked(d, old) ELSE 0)

\* ... the balances that change ...
NewBalances(d, old, new) ==
    [x \in {y \in live : Change(d, old, new, y) # 0} |-> balance[x] + Change(d, old, new, x)]

\* ... and the row with its trace.
Settled(old, new) == [new EXCEPT !.trace = Carrier(old, new)]

\* What the ORM writes: the columns that differ from what was loaded.
Merge(row, old, new) ==
    [exists |-> IF new.exists # old.exists THEN new.exists ELSE row.exists,
     amount |-> IF new.amount # old.amount THEN new.amount ELSE row.amount,
     paid   |-> IF new.paid   # old.paid   THEN new.paid   ELSE row.paid,
     trace  |-> IF new.trace  # old.trace  THEN new.trace  ELSE row.trace]

-----------------------------------------------------------------------------
(* The requests. *)

(* create_debt: unpaid, without a cash leg. *)
CreateDebt(d, amount) ==
    /\ MayBegin
    /\ ~debt[d].exists
    /\ debt' = [debt EXCEPT ![d] = [exists |-> TRUE, amount |-> amount, paid |-> FALSE, trace |-> None]]
    /\ UNCHANGED <<ledger, service>>

\* The row a request asks for, from the one it loaded.
Asked(old) ==
    {row \in Row : row.exists = old.exists /\ row.trace = old.trace}          \* update_debt
        \cup {[old EXCEPT !.paid = FALSE, !.exists = FALSE]}                  \* delete_debt

(* update_debt and delete_debt load the row; so does mark_debt_paid, which *)
(* refuses a paid one and asks for nothing that update_debt may not.       *)
LoadDebt(r, d) ==
    /\ pc[r] = "idle" /\ MayBegin
    /\ debt[d].exists
    /\ \E row \in Asked(debt[d]) : after' = [after EXCEPT ![r] = row]
    /\ before' = [before EXCEPT ![r] = debt[d]]
    /\ about'  = [about EXCEPT ![r] = d]
    /\ pc'     = [pc EXCEPT ![r] = "loaded"]
    /\ UNCHANGED <<debt, ledger, writes>>

(* senkronize_nakit loads the accounts and computes their new balances.    *)
SyncCash(r) ==
    /\ pc[r] = "loaded"
    /\ writes' = [writes EXCEPT ![r] = NewBalances(about[r], before[r], after[r])]
    /\ after'  = [after EXCEPT ![r] = Settled(before[r], after[r])]
    /\ pc' = [pc EXCEPT ![r] = "synced"]
    /\ UNCHANGED <<debt, ledger, about, before>>

\* The transaction lands unless it updates a row that is gone (deleting a row
\* that is gone is no error) or refers to an account that is gone.
Lands(r) ==
    /\ before[r] # after[r] /\ after[r].exists => debt[about[r]].exists
    /\ DOMAIN writes[r] \subseteq live
    /\ ForeignKeys /\ after[r].trace # before[r].trace => after[r].trace \in live \cup {None}

(* One transaction writes the debt and the balances, or nothing.           *)
CommitDebt(r) ==
    LET d == about[r] IN
    /\ pc[r] = "synced"
    /\ IF Lands(r)
         THEN /\ debt' = [debt EXCEPT ![d] = Merge(@, before[r], after[r])]
              /\ balance' = [x \in Accounts |->
                    IF x \in DOMAIN writes[r] THEN writes[r][x] ELSE balance[x]]
         ELSE UNCHANGED <<debt, balance>>
    /\ pc'     = [pc EXCEPT ![r] = "done"]
    /\ about'  = [about EXCEPT ![r] = None]
    /\ before' = [before EXCEPT ![r] = None]
    /\ after'  = [after EXCEPT ![r] = None]
    /\ writes' = [writes EXCEPT ![r] = NoWrites]
    /\ UNCHANGED <<live, lastId, emanet, external>>

(* create_account.  An id is above those of the rows that exist; SQLite,   *)
(* without AUTOINCREMENT, may give out again the id of a deleted row,      *)
(* PostgreSQL's sequence does not.                                         *)
CreateAccount(x, held) ==
    /\ MayBegin
    /\ \A y \in live : x > y
    /\ ForeignKeys => x > lastId
    /\ live'     = live \cup {x}
    /\ lastId'   = IF x > lastId THEN x ELSE lastId
    /\ balance'  = [balance EXCEPT ![x] = 0]
    /\ external' = [external EXCEPT ![x] = 0]
    /\ emanet'   = [emanet EXCEPT ![x] = held]
    /\ UNCHANGED <<debt, service>>

(* update_account: the user types a balance, or marks an account as held   *)
(* in trust or no longer so.                                               *)
TypeBalance(x, v) ==
    /\ MayBegin /\ x \in live
    /\ balance'  = [balance EXCEPT ![x] = v]
    /\ external' = [external EXCEPT ![x] = @ + v - balance[x]]
    /\ UNCHANGED <<debt, live, lastId, emanet, service>>

ToggleEmanet(x) ==
    /\ MayBegin /\ x \in live
    /\ emanet' = [emanet EXCEPT ![x] = ~@]
    /\ UNCHANGED <<debt, live, lastId, balance, external, service>>

Unreferenced(x) == ForeignKeys => \A d \in Debts : debt[d].exists => debt[d].trace # x

(* delete_account: refused for an account in trust, and by the foreign     *)
(* key, where there is one, for an account that a debt was settled on.     *)

DeleteAccount(x) ==
    /\ MayBegin /\ x \in live
    /\ ~emanet[x]
    /\ Unreferenced(x)
    /\ live' = live \ {x}
    /\ UNCHANGED <<debt, lastId, balance, emanet, external, service>>

Next ==
    \/ \E d \in Debts, m \in Amounts : CreateDebt(d, m)
    \/ \E r \in Requests :
          \/ \E d \in Debts : LoadDebt(r, d)
          \/ SyncCash(r) \/ CommitDebt(r)
    \/ \E x \in Accounts :
          \/ \E v \in Figures : TypeBalance(x, v)
          \/ ToggleEmanet(x) \/ DeleteAccount(x)
          \/ \E held \in BOOLEAN : CreateAccount(x, held)

Spec == Init /\ [][Next]_vars

-----------------------------------------------------------------------------

\* The leg of a row on account x, and those of all debts.
LegOn(d, row, x) == IF row.exists /\ row.trace = x THEN Booked(d, row) ELSE 0
LegsOn(x) == [d \in Debts |-> LegOn(d, debt[d], x)]

\* A balance is what the user typed plus the legs of the debts now settled on
\* the account: none is counted twice, none stays behind when a settlement is
\* withdrawn, amended or deleted ("cift-sayim imkansiz", senkronize_nakit).
BalanceExplained ==
    \A x \in live :
        balance[x] = external[x] + SumFunctionOnSet(LegsOn(x), Debts)

\* Only a paid debt has a cash leg, on an account that still exists.
TraceIsLive ==
    \A d \in Debts :
        debt[d].exists /\ debt[d].trace # None => debt[d].paid /\ debt[d].trace \in live

\* Settlements leave the money where it belongs, whatever is paid, amended, withdrawn and
\* deleted in between; and every variable keeps its type (debt_settlement.py:74-135).
SettlementsAddUp == DTypeOK /\ BalanceExplained /\ TraceIsLive

\* No debt is newly settled on an account held in trust.
SettlesOutsideTrust ==
    [][\A d \in Debts :
        debt'[d].trace # debt[d].trace /\ debt'[d].trace # None
            => ~emanet[debt'[d].trace]]_vars
=============================================================================
