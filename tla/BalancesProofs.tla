---------------------------- MODULE BalancesProofs ----------------------------
(***************************************************************************)
(* What writes to the balances.  First transactions and goals: types and   *)
(* allocations whatever overlaps, balances and allocations by hand when    *)
(* requests come one at a time, and what "achieved" is worth.  Then the    *)
(* handlers of approved actions: types whatever overlaps, floors and worth *)
(* when approvals come one at a time, and checkpoints that stay.  For any  *)
(* number of accounts, transactions, goals, rules, actions, checkpoints.   *)
(***************************************************************************)
EXTENDS Goals, ActionHandlers, DataProofs, TLAPS

-----------------------------------------------------------------------------
(* Transactions and goals: the operators of the model. *)

LEMMA LedgerNumbers ==
    /\ \A m \in Amounts : m \in Nat /\ m > 0
    /\ \A x \in Accounts : x \in Int
    /\ \A row \in Row : row.amount \in Nat /\ row.amount > 0
<1>1. (\A m \in Amounts : m \in Nat /\ m > 0) /\ (\A x \in Accounts : x \in Int)
  BY AmountsPositive, AccountsKnown
<1> QED BY <1>1 DEF Row

LEMMA GoalNumbers ==
    /\ \A m \in Shares : m \in Int /\ m # 0
    /\ \A m \in Targets : m \in Nat /\ m > 0
    /\ \A row \in GoalRow : row.target \in Nat /\ row.target > 0 /\ row.baseline \in Nat
    /\ \A k \in Ask : k.amount \in Int /\ k.goal \in Goals /\ k.txn \in Txns
<1>1. (\A m \in Shares : m \in Int /\ m # 0) /\ (\A m \in Targets : m \in Nat /\ m > 0)
  BY GoalsAssumption
<1> QED BY <1>1 DEF GoalRow, Ask

LEMMA EffectIsInt ==
    ASSUME NEW row \in Row \cup {None}, NEW x
    PROVE  Effect(row, x) \in Int
<1>1. CASE row = None
  BY <1>1 DEF Effect
<1>2. CASE row \in Row
  <2>1. row.amount \in Int
    BY <1>2, LedgerNumbers
  <2> QED BY <2>1 DEF Effect, BalanceDelta
<1> QED BY <1>1, <1>2

LEMMA JobChanges ==
    ASSUME NEW j \in Job, NEW x
    PROVE  Change(j, x) \in Int
<1>1. j.old \in Row \cup {None} /\ j.new \in Row \cup {None}
  BY DEF Job
<1> QED BY <1>1, EffectIsInt DEF Change

\* An entry is booked on an account of the user.
LEMMA EntriesHaveAccounts ==
    ASSUME NEW e \in Entry
    PROVE  EntryAccount(e) \in Accounts \cup {None}
<1>1. \A kind : DefaultAccount(kind) \in Accounts \cup {None}
  <2> SUFFICES ASSUME NEW kind PROVE DefaultAccount(kind) \in Accounts \cup {None}
    OBVIOUS
  <2> DEFINE eligible == {x \in Accounts : Kind[x] = kind /\ x \notin Trust}
  <2>1. eligible \in SUBSET Accounts /\ eligible \in SUBSET Int /\ IsFiniteSet(eligible)
    BY LedgerNumbers, AccountsKnown, FS_Subset
  <2>2. eligible # {} => Min(eligible) \in eligible
    BY <2>1, LeastExists
  <2> QED BY <2>1, <2>2 DEF DefaultAccount
<1> QED BY <1>1 DEF EntryAccount, Entry

LEMMA MergedIsRow ==
    ASSUME NEW row \in Row, NEW old \in Row \cup {None}, NEW new \in Row \cup {None}
    PROVE  Merge(row, old, new) \in Row \cup {None}
<1>1. CASE old = None \/ new = None
  BY <1>1 DEF Merge
<1>2. CASE old \in Row /\ new \in Row
  <2> DEFINE Kept(f, g, h) == IF g # f THEN g ELSE h
  <2>1. /\ Kept(old.account, new.account, row.account) \in Accounts \cup {None}
        /\ Kept(old.type, new.type, row.type) \in Types
        /\ Kept(old.amount, new.amount, row.amount) \in Amounts
    BY <1>2 DEF Row
  <2>2. old # None /\ new # None
    BY <1>2, NoneIsNothing
  <2> QED BY <2>1, <2>2 DEF Merge, Row
<1> QED BY <1>1, <1>2

\* The row as loaded, merged with the row it shall be, is the row it shall be.
LEMMA NothingToMerge ==
    ASSUME NEW old \in Row, NEW new \in Row \cup {None}
    PROVE  Merge(old, old, new) = new
<1>1. CASE new = None
  BY <1>1 DEF Merge
<1>2. CASE new \in Row
  <2>1. old # None /\ new # None
    BY <1>2, NoneIsNothing
  <2>2. new = [account |-> new.account, type |-> new.type, amount |-> new.amount]
    BY <1>2 DEF Row
  <2>3. Merge(old, old, new) = [account |-> new.account, type |-> new.type, amount |-> new.amount]
    BY <2>1 DEF Merge
  <2> QED BY <2>2, <2>3
<1> QED BY <1>1, <1>2

-----------------------------------------------------------------------------
(* Progress. *)

LEMMA Dividing ==
    ASSUME NEW n \in Int, NEW d \in Nat, d > 0
    PROVE  /\ n \div d \in Int /\ n % d \in Int
           /\ n = d * (n \div d) + (n % d) /\ 0 <= n % d /\ n % d < d
BY SMT

\* Rounded to hundredths of a per cent, a goal lacks at most half a hundredth.
LEMMA RoundedIsNear ==
    ASSUME NEW n \in Int, NEW d \in Nat, d > 0
    PROVE  /\ Hundredths(n, d) \in Int
           /\ Hundredths(n, d) >= 10000 => 20000 * n >= 19999 * d
<1> DEFINE a == n * 10000
           q == a \div d
           m == a % d
<1>1. a \in Int
  OBVIOUS
<1> HIDE DEF a
<1>2. q \in Int /\ m \in Int /\ a = d * q + m /\ 0 <= m /\ m < d
  BY <1>1, Dividing
<1>3. Hundredths(n, d) = IF 2 * m > d \/ (2 * m = d /\ q % 2 = 1) THEN q + 1 ELSE q
  BY DEF Hundredths, a
<1> HIDE DEF q, m
<1>4. Hundredths(n, d) \in Int
  BY <1>2, <1>3
<1>5. ASSUME Hundredths(n, d) >= 10000 PROVE 20000 * n >= 19999 * d
  <2>1. CASE q >= 10000
    <3>1. d * q >= d * 10000
      BY <1>2, <2>1
    <3>2. a >= d * 10000
      BY <1>1, <1>2, <3>1
    <3> QED BY <3>2 DEF a
  <2>2. CASE q < 10000
    <3>1. q = 9999 /\ 2 * m >= d
      BY <1>2, <1>3, <1>5, <2>2
    <3>2. a = 9999 * d + m
      BY <1>2, <3>1
    <3> QED BY <1>2, <3>1, <3>2 DEF a
  <2> QED BY <1>2, <2>1, <2>2
<1> QED BY <1>4, <1>5

LEMMA DebtIsNat ==
    ASSUME NEW b \in [Accounts -> Int]
    PROVE  Debt(b) \in Nat
<1> DEFINE owed == [x \in Accounts |-> IF Kind[x] \in {"loan", "credit_card"} THEN Positive(b[x]) ELSE 0]
<1>1. owed \in [Accounts -> Nat]
  BY DEF Positive
<1> HIDE DEF owed
<1>2. SumFunctionOnSet(owed, Accounts) \in Nat
  BY <1>1, AccountsKnown, SumIsNat
<1> QED BY <1>2 DEF Debt, owed

LEMMA SavedIsInt ==
    ASSUME NEW a \in [Txns -> Int]
    PROVE  Saved(a) \in Int
BY FinitelyManyTxns, SumIsInt DEF Saved

LEMMA RefreshedIsRow ==
    ASSUME NEW row \in GoalRow, NEW a \in [Txns -> Int], NEW b \in [Accounts -> Int]
    PROVE  /\ Current(row, a, b) \in Nat /\ Progress(row, a, b) \in Degrees
           /\ Refreshed(row, a, b) \in GoalRow
<1>1. /\ Saved(a) \in Int /\ Debt(b) \in Nat
      /\ row.target \in Nat /\ row.target > 0 /\ row.baseline \in Nat
  BY SavedIsInt, DebtIsNat, GoalNumbers
<1>2. Current(row, a, b) \in Nat
  BY <1>1 DEF Current, Positive
<1>3. Progress(row, a, b) \in Degrees
  <2> DEFINE whole == IF row.type = "cash_target" THEN row.target ELSE row.baseline
             h == Hundredths(Current(row, a, b), whole)
  <2>1. whole \in Nat
    BY <1>1
  <2>2. Progress(row, a, b) = IF whole = 0 THEN 0 ELSE Positive(AtMost(h, 10000))
    BY DEF Progress
  <2>3. CASE whole = 0
    BY <2>2, <2>3 DEF Degrees
  <2>4. CASE whole # 0
    <3>1. h \in Int
      <4>1. whole > 0
        BY <2>1, <2>4
      <4> HIDE DEF whole
      <4> QED BY <1>2, <2>1, <4>1, RoundedIsNear
    <3> HIDE DEF h
    <3>2. Positive(AtMost(h, 10000)) \in Degrees
      BY <3>1 DEF Positive, AtMost, Degrees
    <3> QED BY <2>2, <2>4, <3>2
  <2> QED BY <2>3, <2>4
<1>4. PICK c, p, s : /\ c = Current(row, a, b) /\ p = Progress(row, a, b)
                     /\ s = IF row.status = "active" /\ p = 10000 THEN "achieved" ELSE row.status
  OBVIOUS
<1>5. c \in Nat /\ p \in Degrees /\ s \in Statuses
  BY <1>2, <1>3, <1>4 DEF GoalRow, Statuses
<1>6. Refreshed(row, a, b) = [row EXCEPT !.current = c, !.progress = p, !.status = s]
  BY <1>4 DEF Refreshed, GoalRow
<1>7. [row EXCEPT !.current = c, !.progress = p, !.status = s] \in GoalRow
  BY <1>5 DEF GoalRow
<1> QED BY <1>2, <1>3, <1>6, <1>7

\* refresh_goal declares nothing achieved that is further away than rounding, so
\* nothing that is not reached where a rounding is worth less than one unit.
LEMMA AchievedByRefresh ==
    ASSUME NEW row \in GoalRow, NEW a \in [Txns -> Int], NEW b \in [Accounts -> Int],
           row.status # "achieved", Refreshed(row, a, b).status = "achieved",
           row.target < 20000, row.baseline < 20000
    PROVE  Reached(row, a, b)
<1>1. /\ Saved(a) \in Int /\ Debt(b) \in Nat /\ Current(row, a, b) \in Nat
      /\ row.target \in Nat /\ row.target > 0 /\ row.baseline \in Nat
  BY SavedIsInt, DebtIsNat, GoalNumbers, RefreshedIsRow
<1>2. Progress(row, a, b) = 10000
  BY DEF Refreshed, GoalRow
<1> DEFINE whole == IF row.type = "cash_target" THEN row.target ELSE row.baseline
           n == Current(row, a, b)
           h == Hundredths(n, whole)
<1>3. whole # 0 /\ Positive(AtMost(h, 10000)) = 10000
  BY <1>2 DEF Progress
<1>4. whole \in Nat /\ whole > 0
  BY <1>1, <1>3
<1>5. h \in Int /\ (h >= 10000 => 20000 * n >= 19999 * whole)
  <2>1. n \in Int
    BY <1>1
  <2> HIDE DEF n, whole
  <2> QED BY <1>4, <2>1, RoundedIsNear
<1>6. h >= 10000
  BY <1>3, <1>5 DEF Positive, AtMost
<1>7. 20000 * n >= 19999 * whole /\ n > 0
  BY <1>1, <1>4, <1>5, <1>6
<1>8. n >= whole
  <2>1. n \in Nat /\ whole \in Nat /\ whole < 20000
    BY <1>1, <1>4
  <2> HIDE DEF n, whole
  <2> QED BY <1>7, <2>1
<1>9. CASE row.type = "cash_target"
  BY <1>1, <1>7, <1>8, <1>9 DEF Current, Positive, Reached
<1>10. CASE row.type # "cash_target"
  BY <1>1, <1>3, <1>7, <1>8, <1>10 DEF Current, Positive, Reached
<1> QED BY <1>9, <1>10

-----------------------------------------------------------------------------
(* Types are kept, and allocations live, whatever overlaps. *)

\* A request that runs holds its transaction, and moves the balances.
JobsHeld ==
    \A r \in Requests : pc[r] \in {"loaded", "ready", "created"} => job[r] \in Job /\ job[r].auto

TypesAndLife == GTypeOK /\ JobsHeld /\ AllocationsLive

LEMMA LifeInit == GInit => TypesAndLife
<1> SUFFICES ASSUME GInit PROVE TypesAndLife
  OBVIOUS
<1>1. \A r \in Requests : writes[r] = NoWrites
  BY DEF GInit, LedgerInit, NoRequests
<1>2. \A r \in Requests : DOMAIN writes[r] = {}
  BY <1>1 DEF NoWrites
<1>3. LedgerTypeOK
  BY <1>2 DEF GInit, LedgerInit, NoRequests, LedgerTypeOK
<1>4. GTypeOK
  BY <1>3 DEF GInit, GTypeOK
<1>5. JobsHeld /\ AllocationsLive
  BY DEF GInit, LedgerInit, NoRequests, JobsHeld, AllocationsLive
<1> QED BY <1>4, <1>5 DEF TypesAndLife

\* The balances a request is going to write, replaced by others of that type.
LEMMA WritesReplaced ==
    ASSUME LedgerTypeOK, NEW r \in Requests, NEW new, writes' = [writes EXCEPT ![r] = new],
           DOMAIN new \subseteq Accounts, \A x \in DOMAIN new : new[x] \in Int
    PROVE  /\ DOMAIN writes' = Requests /\ writes'[r] = new
           /\ \A q \in Requests :
                 /\ DOMAIN writes'[q] \subseteq Accounts
                 /\ \A x \in DOMAIN writes'[q] : writes'[q][x] \in Int
<1>1. DOMAIN writes' = Requests /\ writes'[r] = new
  BY DEF LedgerTypeOK
<1>2. ASSUME NEW q \in Requests
      PROVE  DOMAIN writes'[q] \subseteq Accounts /\ \A x \in DOMAIN writes'[q] : writes'[q][x] \in Int
  <2>1. CASE q = r
    BY <1>1, <2>1
  <2>2. CASE q # r
    <3>1. writes'[q] = writes[q]
      BY <2>2 DEF LedgerTypeOK
    <3> QED BY <3>1 DEF LedgerTypeOK
  <2> QED BY <2>1, <2>2
<1> QED BY <1>1, <1>2

LEMMA BookTypes ==
    ASSUME LedgerTypeOK, JobsHeld, NEW r \in Requests, TxnStep(r, {TRUE})
    PROVE  LedgerTypeOK' /\ JobsHeld'
<1> USE DEF books, service
<1>1. ASSUME NEW t \in Txns, NEW e \in Entry, BeginCreate(r, t, e, TRUE)
      PROVE  LedgerTypeOK' /\ JobsHeld'
  <2> DEFINE x == EntryAccount(e)
             j == [id |-> t, old |-> None, auto |-> TRUE,
                   new |-> [account |-> x, type |-> e.type, amount |-> e.amount]]
             new == IF TRUE /\ Change(j, x) # 0 THEN [y \in {x} |-> balance[x] + Change(j, x)] ELSE NoWrites
  <2>1. x \in Accounts
    BY <1>1, EntriesHaveAccounts DEF BeginCreate
  <2>2. e.type \in Types /\ e.amount \in Amounts
    BY <1>1 DEF BeginCreate, Entry
  <2> HIDE DEF x
  <2>3. j \in Job
    BY <2>1, <2>2 DEF Job, Row
  <2>4. writes' = [writes EXCEPT ![r] = new] /\ job' = [job EXCEPT ![r] = j]
    BY <1>1 DEF BeginCreate, x
  <2>5. j.auto
    OBVIOUS
  <2> HIDE DEF j
  <2>6. balance[x] + Change(j, x) \in Int
    BY <2>1, <2>3, JobChanges DEF LedgerTypeOK
  <2>7. DOMAIN new \subseteq Accounts /\ \A y \in DOMAIN new : new[y] \in Int
    BY <2>1, <2>6 DEF NoWrites
  <2> HIDE DEF new
  <2>8. /\ DOMAIN writes' = Requests
        /\ \A q \in Requests :
              /\ DOMAIN writes'[q] \subseteq Accounts
              /\ \A y \in DOMAIN writes'[q] : writes'[q][y] \in Int
    BY <2>4, <2>7, WritesReplaced
  <2>9. UNCHANGED books /\ pc' = [pc EXCEPT ![r] = "ready"]
    BY <1>1 DEF BeginCreate
  <2>10. LedgerTypeOK'
    BY <2>3, <2>4, <2>8, <2>9 DEF LedgerTypeOK
  <2>11. JobsHeld'
    BY <2>3, <2>4, <2>5, <2>9 DEF LedgerTypeOK, JobsHeld
  <2> QED BY <2>10, <2>11
<1>2. ASSUME NEW t \in Txns, NEW new \in Amended \cup {None}, LoadTxn(r, t, new, TRUE)
      PROVE  LedgerTypeOK' /\ JobsHeld'
  <2> DEFINE j == [id |-> t, old |-> txn[t], new |-> new, auto |-> TRUE]
  <2>1. j \in Job /\ j.auto
    BY DEF Job, Amended, LedgerTypeOK
  <2>2. job' = [job EXCEPT ![r] = j] /\ pc' = [pc EXCEPT ![r] = "loaded"] /\ UNCHANGED <<books, writes>>
    BY <1>2 DEF LoadTxn
  <2> HIDE DEF j
  <2> QED BY <2>1, <2>2 DEF LedgerTypeOK, JobsHeld
<1>3. ASSUME ReadAccounts(r) PROVE LedgerTypeOK' /\ JobsHeld'
  <2> DEFINE j == job[r]
             new == [x \in {y \in Accounts : j.auto /\ Change(j, y) # 0} |-> balance[x] + Change(j, x)]
  <2>1. j \in Job
    BY <1>3 DEF ReadAccounts, JobsHeld
  <2>2. writes' = [writes EXCEPT ![r] = new] /\ pc' = [pc EXCEPT ![r] = "ready"] /\ UNCHANGED <<books, job>>
    BY <1>3 DEF ReadAccounts
  <2>3. DOMAIN new \subseteq Accounts /\ \A x \in DOMAIN new : new[x] \in Int
    <3> SUFFICES ASSUME NEW x \in Accounts PROVE balance[x] + Change(j, x) \in Int
      OBVIOUS
    <3>1. Change(j, x) \in Int /\ balance[x] \in Int
      BY <2>1, JobChanges DEF LedgerTypeOK
    <3> QED BY <3>1
  <2> HIDE DEF new
  <2>4. /\ DOMAIN writes' = Requests
        /\ \A q \in Requests :
              /\ DOMAIN writes'[q] \subseteq Accounts
              /\ \A y \in DOMAIN writes'[q] : writes'[q][y] \in Int
    BY <2>2, <2>3, WritesReplaced
  <2>5. pc' \in [Requests -> {"idle", "loaded", "ready", "created", "done"}]
    BY <2>2 DEF LedgerTypeOK
  <2>6. LedgerTypeOK'
    BY <2>2, <2>4, <2>5 DEF LedgerTypeOK
  <2>7. JobsHeld'
    BY <1>3, <2>2 DEF ReadAccounts, LedgerTypeOK, JobsHeld
  <2> QED BY <2>6, <2>7
<1>4. ASSUME CommitTxn(r) PROVE LedgerTypeOK' /\ JobsHeld'
  <2> DEFINE j == job[r]
  <2>1. j \in Job /\ j.id \in Txns /\ j.old \in Row \cup {None} /\ j.new \in Row \cup {None}
    BY <1>4 DEF CommitTxn, JobsHeld, Job
  <2>2. txn' \in [Txns -> Row \cup {None}]
    <3>1. CASE txn' = txn
      BY <3>1 DEF LedgerTypeOK
    <3>2. CASE txn' = [txn EXCEPT ![j.id] =
                          IF @ = None /\ j.old # None THEN None ELSE Merge(@, j.old, j.new)]
      <4>1. txn[j.id] \in Row => Merge(txn[j.id], j.old, j.new) \in Row \cup {None}
        BY <2>1, MergedIsRow
      <4>2. j.old = None => Merge(txn[j.id], j.old, j.new) \in Row \cup {None}
        BY <2>1 DEF Merge
      <4>3. txn[j.id] \in Row \cup {None}
        BY <2>1 DEF LedgerTypeOK
      <4>4. (IF txn[j.id] = None /\ j.old # None THEN None ELSE Merge(txn[j.id], j.old, j.new)) \in Row \cup {None}
        BY <4>1, <4>2, <4>3
      <4> QED BY <3>2, <4>4 DEF LedgerTypeOK
    <3> QED BY <1>4, <3>1, <3>2 DEF CommitTxn
  <2>3. balance' \in [Accounts -> Int]
    BY <1>4 DEF CommitTxn, LedgerTypeOK
  <2>4. writes' = [writes EXCEPT ![r] = NoWrites] /\ DOMAIN NoWrites = {}
    BY <1>4 DEF CommitTxn, NoWrites
  <2>5. /\ DOMAIN writes' = Requests
        /\ \A q \in Requests :
              /\ DOMAIN writes'[q] \subseteq Accounts
              /\ \A y \in DOMAIN writes'[q] : writes'[q][y] \in Int
    BY <2>4, WritesReplaced
  <2>6. /\ job' = IF j.old = None THEN job ELSE [job EXCEPT ![r] = None]
        /\ pc' = [pc EXCEPT ![r] = IF j.old = None THEN "created" ELSE "done"]
        /\ typed' = typed
    BY <1>4 DEF CommitTxn
  <2>7. LedgerTypeOK'
    BY <2>2, <2>3, <2>5, <2>6 DEF LedgerTypeOK
  <2>8. JobsHeld'
    <3> SUFFICES ASSUME NEW q \in Requests, pc'[q] \in {"loaded", "ready", "created"}
                 PROVE  job'[q] \in Job /\ job'[q].auto
      BY DEF JobsHeld
    <3>1. CASE q # r
      BY <2>6, <3>1 DEF JobsHeld, LedgerTypeOK
    <3>2. CASE q = r
      <4>1. j.old = None /\ job' = job
        BY <2>6, <3>2 DEF LedgerTypeOK
      <4> QED BY <1>4, <3>2, <4>1 DEF CommitTxn, JobsHeld
    <3> QED BY <3>1, <3>2
  <2> QED BY <2>7, <2>8
<1> QED BY <1>1, <1>2, <1>3, <1>4 DEF TxnStep

\* What the rules take of a transaction is a number.
LEMMA SharesAreInt ==
    ASSUME NEW row \in Row, NEW q \in RuleRow
    PROVE  Share(row, q) \in Int
<1>1. row.amount \in Nat /\ q.value \in Nat
  BY LedgerNumbers DEF RuleRow
<1>2. row.amount * q.value + 50 \in Int
  BY <1>1
<1>3. (row.amount * q.value + 50) \div 100 \in Int
  BY <1>2, Dividing
<1>4. q.share = "full" \/ q.share = "percent" \/ q.share = "fixed"
  BY DEF RuleRow
<1> QED BY <1>1, <1>3, <1>4 DEF Share

LEMMA ByRulesIsInt ==
    ASSUME GTypeOK, NEW t \in Txns, NEW g \in Goals
    PROVE  ByRules(t, g) \in Int
<1>1. alloc[g][t] \in Int
  BY DEF GTypeOK
<1>2. ASSUME txn[t] # None, Taking(txn[t], g) # {}
      PROVE  Share(txn[t], rule[Min(Taking(txn[t], g))]) \in Int
  <2> DEFINE those == Taking(txn[t], g)
  <2>1. those \in SUBSET GoalRules /\ those \in SUBSET Int /\ IsFiniteSet(those)
    <3>1. those \in SUBSET GoalRules
      BY DEF Taking
    <3>2. IsFiniteSet(GoalRules) /\ \A q \in GoalRules : q \in Int
      BY GoalsAssumption
    <3> HIDE DEF those
    <3> QED BY <3>1, <3>2, FS_Subset
  <2>2. Min(those) \in those
    BY <1>2, <2>1, LeastExists
  <2>3. rule[Min(those)] \in RuleRow /\ txn[t] \in Row
    BY <1>2, <2>1, <2>2 DEF Taking, GTypeOK, LedgerTypeOK
  <2> QED BY <2>3, SharesAreInt
<1> QED BY <1>1, <1>2 DEF ByRules

LEMMA LifeStep == TypesAndLife /\ [GNext]_gVars => TypesAndLife'
<1> SUFFICES ASSUME TypesAndLife, [GNext]_gVars PROVE TypesAndLife'
  OBVIOUS
<1> USE DEF TypesAndLife
<1>u. ASSUME UNCHANGED ledgerVars PROVE LedgerTypeOK' /\ JobsHeld'
  BY <1>u DEF ledgerVars, books, service, GTypeOK, LedgerTypeOK, JobsHeld
<1>r. ASSUME NEW g \in Goals, goal[g] # None PROVE goal[g] \in GoalRow
  BY <1>r DEF GTypeOK
<1>b. balance \in [Accounts -> Int] /\ alloc \in [Goals -> [Txns -> Int]]
  BY DEF GTypeOK, LedgerTypeOK
<1>1. ASSUME NEW r \in Requests, Book(r) PROVE TypesAndLife'
  <2>1. LedgerTypeOK' /\ JobsHeld'
    BY <1>1, BookTypes DEF Book, GTypeOK
  <2>2. alloc' = [g \in Goals |-> [t \in Txns |-> Cascade(alloc[g], t)[t]]]
    BY <1>1 DEF Book
  <2>3. ASSUME NEW g \in Goals, NEW t \in Txns
        PROVE  Cascade(alloc[g], t)[t] = IF txn'[t] = None THEN 0 ELSE alloc[g][t]
    BY <1>b DEF Cascade
  <2>4. alloc' \in [Goals -> [Txns -> Int]]
    BY <1>b, <2>2, <2>3
  <2>5. GTypeOK'
    BY <1>1, <2>1, <2>4 DEF Book, GTypeOK
  <2>6. ASSUME NEW g \in Goals, NEW t \in Txns, alloc'[g][t] # 0
        PROVE  goal'[g] # None /\ txn'[t] # None
    <3>1. alloc'[g][t] = IF txn'[t] = None THEN 0 ELSE alloc[g][t]
      BY <2>2, <2>3
    <3>2. txn'[t] # None /\ alloc[g][t] # 0
      BY <2>6, <3>1
    <3> QED BY <1>1, <3>2 DEF Book, AllocationsLive
  <2> QED BY <2>1, <2>5, <2>6 DEF AllocationsLive
<1>2. ASSUME NEW r \in Requests, EvaluateRules(r) PROVE TypesAndLife'
  <2> DEFINE t == job[r].id
  <2>1. pc[r] = "created" /\ t \in Txns
    BY <1>2 DEF EvaluateRules, AnswerCreate, JobsHeld, Job
  <2>2. /\ pc' = [pc EXCEPT ![r] = "done"] /\ job' = [job EXCEPT ![r] = None]
        /\ UNCHANGED <<txn, balance, typed, writes>> /\ UNCHANGED <<goal, rule, ask, dialect>>
    BY <1>2 DEF EvaluateRules, AnswerCreate, books
  <2>3. LedgerTypeOK' /\ JobsHeld'
    BY <2>2 DEF GTypeOK, LedgerTypeOK, JobsHeld
  <2>4. alloc' = IF dialect = "sqlite" THEN [g \in Goals |-> [alloc[g] EXCEPT ![t] = ByRules(t, g)]]
                 ELSE alloc
    BY <1>2 DEF EvaluateRules
  <2>5. \A g \in Goals : ByRules(t, g) \in Int
    BY <2>1, ByRulesIsInt
  <2>6. \A g \in Goals : ByRules(t, g) # alloc[g][t] => goal[g] # None /\ txn[t] # None
    BY DEF ByRules
  <2> HIDE DEF t
  <2>7. alloc' \in [Goals -> [Txns -> Int]]
    BY <1>b, <2>1, <2>4, <2>5
  <2>8. ASSUME NEW g \in Goals, NEW u \in Txns, alloc'[g][u] # 0
        PROVE  goal'[g] # None /\ txn'[u] # None
    <3>1. alloc'[g][u] = alloc[g][u] \/ (u = t /\ alloc'[g][u] = ByRules(t, g))
      BY <1>b, <2>1, <2>4
    <3>2. goal[g] # None /\ txn[u] # None
      BY <2>6, <2>8, <3>1 DEF AllocationsLive
    <3> QED BY <2>2, <3>2
  <2>9. GTypeOK'
    BY <2>2, <2>3, <2>7 DEF GTypeOK
  <2> QED BY <2>3, <2>8, <2>9 DEF AllocationsLive
<1>3. ASSUME NEW g \in Goals, NEW target \in Targets, NEW type \in GoalTypes,
             CreateGoal(g, type, target)
      PROVE  TypesAndLife'
  <2> DEFINE row == [type |-> type, target |-> target, status |-> "active", current |-> 0, progress |-> 0,
                     baseline |-> IF type = "debt_freedom" THEN Debt(balance) ELSE 0]
  <2>1. row \in GoalRow
    <3>1. Debt(balance) \in Nat
      BY <1>b, DebtIsNat
    <3>2. 0 \in Degrees
      BY DEF Degrees
    <3> QED BY <3>1, <3>2 DEF GoalRow, Statuses
  <2>2. goal' = [goal EXCEPT ![g] = Refreshed(row, alloc[g], balance)]
        /\ UNCHANGED <<ledgerVars, rule, alloc, ask, dialect>>
    BY <1>3 DEF CreateGoal
  <2> HIDE DEF row
  <2>3. Refreshed(row, alloc[g], balance) \in GoalRow
    BY <1>b, <2>1, RefreshedIsRow
  <2>4. GTypeOK'
    BY <1>u, <2>2, <2>3 DEF GTypeOK
  <2>5. AllocationsLive'
    BY <2>2, <2>3, NoneIsNoGoal DEF AllocationsLive, GTypeOK, ledgerVars, books
  <2> QED BY <1>u, <2>2, <2>4, <2>5
<1>4. ASSUME NEW g \in Goals, NEW target \in Targets, NEW status \in Statuses,
             UpdateGoal(g, target, status)
      PROVE  TypesAndLife'
  <2> DEFINE row == [goal[g] EXCEPT !.target = target, !.status = status]
  <2>1. goal[g] \in GoalRow
    BY <1>4, <1>r DEF UpdateGoal
  <2>2. row \in GoalRow
    BY <2>1 DEF GoalRow
  <2>3. goal' = [goal EXCEPT ![g] = Refreshed(row, alloc[g], balance)]
        /\ UNCHANGED <<ledgerVars, rule, alloc, ask, dialect>>
    BY <1>4 DEF UpdateGoal, GTypeOK
  <2> HIDE DEF row
  <2>4. Refreshed(row, alloc[g], balance) \in GoalRow
    BY <1>b, <2>2, RefreshedIsRow
  <2>5. GTypeOK'
    BY <1>u, <2>3, <2>4 DEF GTypeOK
  <2>6. AllocationsLive'
    BY <2>3, <2>4, NoneIsNoGoal DEF AllocationsLive, GTypeOK, ledgerVars, books
  <2> QED BY <1>u, <2>3, <2>5, <2>6
<1>5. ASSUME NEW g \in Goals, RefreshGoal(g) PROVE TypesAndLife'
  <2>1. goal[g] \in GoalRow
    BY <1>5, <1>r DEF RefreshGoal
  <2>2. goal' = [goal EXCEPT ![g] = Refreshed(goal[g], alloc[g], balance)]
        /\ UNCHANGED <<ledgerVars, rule, alloc, ask, dialect>>
    BY <1>5 DEF RefreshGoal, GTypeOK
  <2>3. Refreshed(goal[g], alloc[g], balance) \in GoalRow
    BY <1>b, <2>1, RefreshedIsRow
  <2>4. GTypeOK'
    BY <1>u, <2>2, <2>3 DEF GTypeOK
  <2>5. AllocationsLive'
    BY <2>2, <2>3, NoneIsNoGoal DEF AllocationsLive, GTypeOK, ledgerVars, books
  <2> QED BY <1>u, <2>2, <2>4, <2>5
<1>6. ASSUME NEW g \in Goals, DeleteGoal(g) PROVE TypesAndLife'
  <2>1. NoGoal \in [Txns -> Int] /\ \A t \in Txns : NoGoal[t] = 0
    BY DEF NoGoal
  <2>2. /\ goal' = [goal EXCEPT ![g] = None] /\ alloc' = [alloc EXCEPT ![g] = NoGoal]
        /\ rule' = [q \in GoalRules |-> IF rule[q] # None /\ rule[q].goal = g THEN None ELSE rule[q]]
        /\ UNCHANGED <<ledgerVars, ask, dialect>>
    BY <1>6 DEF DeleteGoal
  <2>3. GTypeOK'
    BY <1>u, <2>1, <2>2 DEF GTypeOK
  <2>4. AllocationsLive'
    BY <2>1, <2>2 DEF AllocationsLive, GTypeOK, ledgerVars, books
  <2> QED BY <1>u, <2>2, <2>3, <2>4
<1>7. ASSUME NEW g \in Goals, NEW t \in Txns, DeleteAllocation(g, t) PROVE TypesAndLife'
  <2>1. goal[g] # None
    BY <1>7 DEF DeleteAllocation, AllocationsLive
  <2>2. alloc' = [alloc EXCEPT ![g][t] = 0] /\ UNCHANGED <<ledgerVars, rule, ask, dialect>>
    BY <1>7 DEF DeleteAllocation
  <2>3. alloc' \in [Goals -> [Txns -> Int]]
    BY <1>b, <2>2
  <2>4. goal' = [goal EXCEPT ![g] = Refreshed(goal[g], alloc'[g], balance)]
    BY <1>7 DEF DeleteAllocation, GTypeOK
  <2>5. Refreshed(goal[g], alloc'[g], balance) \in GoalRow
    BY <1>b, <1>r, <2>1, <2>3, RefreshedIsRow
  <2>6. GTypeOK'
    BY <1>u, <2>2, <2>3, <2>4, <2>5 DEF GTypeOK
  <2>7. \A h \in Goals, u \in Txns : alloc'[h][u] # 0 => alloc[h][u] # 0
    BY <1>b, <2>2
  <2>8. AllocationsLive'
    BY <2>2, <2>4, <2>5, <2>7, NoneIsNoGoal DEF AllocationsLive, GTypeOK, ledgerVars, books
  <2> QED BY <1>u, <2>2, <2>6, <2>8
<1>8. ASSUME NEW g \in Goals, NEW t \in Txns, NEW c \in Clerks, NEW amount \in Shares,
             CheckAllocation(c, g, t, amount)
      PROVE  TypesAndLife'
  <2>1. [goal |-> g, txn |-> t, amount |-> amount] \in Ask
    BY DEF Ask
  <2>2. ask' \in [Clerks -> Ask \cup {None}] /\ UNCHANGED <<ledgerVars, goal, rule, alloc, dialect>>
    BY <1>8, <2>1 DEF CheckAllocation, GTypeOK
  <2> QED BY <1>u, <2>2 DEF GTypeOK, AllocationsLive, ledgerVars, books
<1>9. ASSUME NEW c \in Clerks, WriteAllocation(c) PROVE TypesAndLife'
  <2> DEFINE k == ask[c]
  <2>1. k \in Ask /\ k.goal \in Goals /\ k.txn \in Txns /\ k.amount \in Int
    BY <1>9, GoalNumbers DEF WriteAllocation, GTypeOK
  <2>2. ask' = [ask EXCEPT ![c] = None] /\ UNCHANGED <<ledgerVars, rule, dialect>>
    BY <1>9 DEF WriteAllocation
  <2>3. CASE ~Insertable(k.goal, k.txn)
    <3>1. UNCHANGED <<alloc, goal>>
      BY <1>9, <2>3 DEF WriteAllocation
    <3> QED BY <1>u, <2>2, <3>1 DEF GTypeOK, AllocationsLive, ledgerVars, books
  <2>4. CASE Insertable(k.goal, k.txn)
    <3>1. /\ alloc' = [alloc EXCEPT ![k.goal][k.txn] = k.amount]
          /\ goal' = [goal EXCEPT ![k.goal] = Refreshed(goal[k.goal], alloc'[k.goal], balance)]
      BY <1>9, <2>4 DEF WriteAllocation, GTypeOK
    <3> HIDE DEF k
    <3>2. alloc' \in [Goals -> [Txns -> Int]]
      BY <1>b, <2>1, <3>1
    <3>3. goal[k.goal] # None /\ txn[k.txn] # None
      BY <2>4 DEF Insertable
    <3>4. Refreshed(goal[k.goal], alloc'[k.goal], balance) \in GoalRow
      BY <1>b, <1>r, <2>1, <3>2, <3>3, RefreshedIsRow
    <3>5. GTypeOK'
      BY <1>u, <2>2, <3>1, <3>2, <3>4 DEF GTypeOK
    <3>6. \A h \in Goals, u \in Txns : alloc'[h][u] # 0 => alloc[h][u] # 0 \/ (h = k.goal /\ u = k.txn)
      BY <1>b, <3>1
    <3>7. \A h \in Goals : goal[h] # None => goal'[h] # None
      BY <2>1, <3>1, <3>4, NoneIsNoGoal DEF GTypeOK
    <3>8. AllocationsLive'
      BY <2>2, <3>3, <3>6, <3>7 DEF AllocationsLive, ledgerVars, books
    <3> QED BY <1>u, <2>2, <3>5, <3>8
  <2> QED BY <2>3, <2>4
<1>10. ASSUME NEW q \in GoalRules, NEW row \in RuleDrafts, CreateRule(q, row) PROVE TypesAndLife'
  <2>1. row \in RuleRow
    BY GoalsAssumption
  <2>2. rule' = [rule EXCEPT ![q] = row] /\ UNCHANGED <<ledgerVars, goal, alloc, ask, dialect>>
    BY <1>10 DEF CreateRule
  <2> QED BY <1>u, <2>1, <2>2 DEF GTypeOK, AllocationsLive, ledgerVars, books
<1>11. ASSUME NEW q \in GoalRules, NEW row \in RuleDrafts, UpdateRule(q, row) PROVE TypesAndLife'
  <2>1. row \in RuleRow /\ rule[q] \in RuleRow
    BY <1>11, GoalsAssumption DEF UpdateRule, GTypeOK
  <2>2. UNCHANGED <<ledgerVars, goal, alloc, ask, dialect>>
    BY <1>11 DEF UpdateRule
  <2>3. [row EXCEPT !.goal = rule[q].goal] \in RuleRow
    BY <2>1 DEF RuleRow
  <2>4. [rule[q] EXCEPT !.value = row.value, !.active = row.active] \in RuleRow
    BY <2>1 DEF RuleRow
  <2>5. \/ rule' = [rule EXCEPT ![q] = [row EXCEPT !.goal = rule[q].goal]]
        \/ rule' = [rule EXCEPT ![q] = [rule[q] EXCEPT !.value = row.value, !.active = row.active]]
    BY <1>11 DEF UpdateRule, GTypeOK
  <2>6. rule' \in [GoalRules -> RuleRow \cup {None}]
    BY <2>3, <2>4, <2>5 DEF GTypeOK
  <2> QED BY <1>u, <2>2, <2>6 DEF GTypeOK, AllocationsLive, ledgerVars, books
<1>12. ASSUME NEW q \in GoalRules, DeleteRule(q) PROVE TypesAndLife'
  BY <1>12, <1>u DEF DeleteRule, GTypeOK, AllocationsLive, ledgerVars, books
<1>13. CASE UNCHANGED gVars
  BY <1>13, <1>u DEF gVars, goalVars, GTypeOK, AllocationsLive, ledgerVars, books
<1> QED BY <1>1, <1>2, <1>3, <1>4, <1>5, <1>6, <1>7, <1>8, <1>9, <1>10, <1>11, <1>12, <1>13 DEF GNext

\* An allocation lives no longer than its goal and its transaction, and every
\* variable keeps its type, though requests overlap (goals.py, goal_rules.py,
\* transactions.py; the cascades of models.py:1069-1105).
THEOREM AllocationsEndInTime == GSpec => [](GTypeOK /\ AllocationsLive)
<1>1. TypesAndLife => GTypeOK /\ AllocationsLive
  BY DEF TypesAndLife
<1> QED BY <1>1, LifeInit, LifeStep, PTL DEF GSpec

-----------------------------------------------------------------------------
(* Achieved. *)

\* refresh_goal keeps what the user asked for.
LEMMA RefreshedKeeps ==
    ASSUME NEW row \in GoalRow, NEW a, NEW b
    PROVE  /\ Refreshed(row, a, b).target = row.target
           /\ Refreshed(row, a, b).type = row.type /\ Refreshed(row, a, b).baseline = row.baseline
BY DEF Refreshed, GoalRow

\* A goal as update_goal amends it is a goal.
AsSent(old, target, status) == [old EXCEPT !.target = target, !.status = status]
LEMMA AmendedIsRow ==
    ASSUME NEW old \in GoalRow, NEW target \in Targets, NEW status \in Statuses
    PROVE  AsSent(old, target, status) \in GoalRow /\ AsSent(old, target, status).status = status
BY DEF GoalRow, AsSent

\* What "achieved" is worth after a step.
There(g) == Reached(goal'[g], alloc'[g], balance')

\* A step that refreshes a goal earns what it declares.
LEMMA RefreshEarns ==
    ASSUME NEW g \in Goals, NEW row \in GoalRow,
           alloc'[g] \in [Txns -> Int], balance' \in [Accounts -> Int],
           goal'[g] = Refreshed(row, alloc'[g], balance'),
           row.status # "achieved", goal'[g].status = "achieved",
           goal'[g] # None, SmallGoals'
    PROVE  There(g)
<1>1. Refreshed(row, alloc'[g], balance').status = "achieved"
  OBVIOUS
<1>2. /\ goal'[g].target = row.target /\ goal'[g].type = row.type
      /\ goal'[g].baseline = row.baseline
  BY RefreshedKeeps
<1>3. row.target < 20000 /\ row.baseline < 20000
  BY <1>2 DEF SmallGoals
<1>4. Reached(row, alloc'[g], balance')
  BY <1>1, <1>3, AchievedByRefresh
<1> QED BY <1>2, <1>4 DEF Reached, There

LEMMA EarnedStep ==
    ASSUME TypesAndLife, [GNext]_gVars, NEW g \in Goals, goal[g] # None, goal'[g] # None,
           goal[g].status # "achieved", goal'[g].status = "achieved", SmallGoals'
    PROVE  There(g)
<1>g. goal'[g] # goal[g]
  OBVIOUS
<1>r. \A h \in Goals : goal[h] # None => goal[h] \in GoalRow
  BY DEF TypesAndLife, GTypeOK
<1>t. goal \in [Goals -> GoalRow \cup {None}] /\ ask \in [Clerks -> Ask \cup {None}]
  BY DEF TypesAndLife, GTypeOK
<1>a. alloc'[g] \in [Txns -> Int] /\ balance' \in [Accounts -> Int]
  BY LifeStep DEF TypesAndLife, GTypeOK, LedgerTypeOK
<1>1. ASSUME NEW h \in Goals, NEW target \in Targets, NEW type \in GoalTypes,
             CreateGoal(h, type, target)
      PROVE  FALSE
  BY <1>1, <1>g, <1>t DEF CreateGoal
<1>2. ASSUME NEW h \in Goals, NEW target \in Targets, NEW status \in Statuses,
             UpdateGoal(h, target, status)
      PROVE  There(g)
  <2>1. h = g
    BY <1>2, <1>g, <1>t DEF UpdateGoal
  <2>2. AsSent(goal[g], target, status) \in GoalRow /\ AsSent(goal[g], target, status).status = status
    BY <1>r, AmendedIsRow
  <2>3. status # "achieved"
    BY <1>2, <2>1 DEF UpdateGoal
  <2>4. goal'[g] = Refreshed(AsSent(goal[g], target, status), alloc'[g], balance')
    BY <1>2, <1>t, <2>1 DEF UpdateGoal, AsSent, ledgerVars, books
  <2> QED BY <1>a, <2>2, <2>3, <2>4, RefreshEarns
<1>3. ASSUME goal'[g] = Refreshed(goal[g], alloc'[g], balance') PROVE There(g)
  <2>1. goal[g] \in GoalRow
    BY <1>r
  <2> QED BY <1>a, <1>3, <2>1, RefreshEarns
<1>4. ASSUME NEW h \in Goals, RefreshGoal(h) PROVE There(g)
  <2>1. h = g /\ alloc' = alloc /\ balance' = balance
    BY <1>4, <1>g, <1>t DEF RefreshGoal, ledgerVars, books
  <2> QED BY <1>3, <1>4, <1>t, <2>1 DEF RefreshGoal
<1>5. ASSUME NEW h \in Goals, NEW t \in Txns, DeleteAllocation(h, t) PROVE There(g)
  <2>1. h = g /\ balance' = balance
    BY <1>5, <1>g, <1>t DEF DeleteAllocation, ledgerVars, books
  <2> QED BY <1>3, <1>5, <1>t, <2>1 DEF DeleteAllocation
<1>6. ASSUME NEW c \in Clerks, WriteAllocation(c) PROVE There(g)
  <2>1. /\ goal' = [goal EXCEPT ![ask[c].goal] = Refreshed(@, alloc'[ask[c].goal], balance)]
        /\ balance' = balance
    BY <1>6, <1>g DEF WriteAllocation, ledgerVars, books
  <2>2. ask[c].goal = g
    BY <1>g, <1>t, <2>1
  <2> QED BY <1>3, <1>t, <2>1, <2>2
<1>7. ASSUME NEW h \in Goals, DeleteGoal(h) PROVE FALSE
  BY <1>7, <1>g, <1>t DEF DeleteGoal
<1>8. ASSUME goal' = goal PROVE FALSE
  BY <1>8, <1>g
<1>9. CASE GNext
  <2>1. ASSUME NEW r \in Requests, Book(r) \/ EvaluateRules(r) PROVE FALSE
    BY <1>8, <2>1 DEF Book, EvaluateRules
  <2>2. ASSUME NEW h \in Goals, NEW t \in Txns, NEW c \in Clerks, NEW amount \in Shares,
               CheckAllocation(c, h, t, amount)
        PROVE  FALSE
    BY <1>8, <2>2 DEF CheckAllocation
  <2>3. ASSUME NEW q \in GoalRules, NEW row \in RuleDrafts,
               CreateRule(q, row) \/ UpdateRule(q, row) \/ DeleteRule(q)
        PROVE  FALSE
    BY <1>8, <2>3 DEF CreateRule, UpdateRule, DeleteRule
  <2>4. ASSUME NEW q \in GoalRules, DeleteRule(q) PROVE FALSE
    BY <1>8, <2>4 DEF DeleteRule
  <2> QED BY <1>1, <1>2, <1>4, <1>5, <1>6, <1>7, <1>9, <2>1, <2>2, <2>3, <2>4 DEF GNext
<1>10. CASE UNCHANGED gVars
  BY <1>8, <1>10 DEF gVars, goalVars
<1> QED BY <1>9, <1>10

\* As long as no goal asks for 20 000 units or more, a goal is marked as achieved only
\* when what it asks for has been contributed, whatever overlaps (goal_engine.py:60-145,
\* 292).  Above that size the progress is rounded up to a hundred per cent too soon.
THEOREM AchievedIsEarned == GSpec /\ []SmallGoals => AchievedIsReached
<1> DEFINE Step == \A g \in Goals :
      goal[g] # None /\ goal'[g] # None /\ goal[g].status # "achieved" /\ goal'[g].status = "achieved"
        => Reached(goal'[g], alloc'[g], balance')
<1>1. TypesAndLife /\ SmallGoals' /\ [GNext]_gVars => [Step]_gVars
  <2>1. ASSUME TypesAndLife, SmallGoals', [GNext]_gVars, NEW g \in Goals, goal[g] # None, goal'[g] # None,
               goal[g].status # "achieved", goal'[g].status = "achieved"
        PROVE  Reached(goal'[g], alloc'[g], balance')
    <3>1. There(g)
      BY <2>1, EarnedStep
    <3> QED BY <3>1 DEF There
  <2> QED BY <2>1
<1> QED BY <1>1, LifeInit, LifeStep, PTL DEF GSpec, AchievedIsReached

-----------------------------------------------------------------------------
(* The effects of one transaction against the balances. *)

LEMMA EffectsAreInt ==
    ASSUME LedgerTypeOK, NEW x
    PROVE  EffectsOn(x) \in [Txns -> Int]
<1> SUFFICES ASSUME NEW t \in Txns PROVE Effect(txn[t], x) \in Int
  BY DEF EffectsOn
<1>1. txn[t] \in Row \cup {None}
  BY DEF LedgerTypeOK
<1> QED BY <1>1, EffectIsInt

LEMMA EffectsAreIntNext ==
    ASSUME LedgerTypeOK', NEW x
    PROVE  EffectsOn(x)' \in [Txns -> Int]
<1> SUFFICES ASSUME NEW t \in Txns PROVE Effect(txn'[t], x) \in Int
  BY DEF EffectsOn
<1>1. txn'[t] \in Row \cup {None}
  BY DEF LedgerTypeOK
<1> QED BY <1>1, EffectIsInt

\* When one transaction changes, the rows' word on a balance changes by it.
LEMMA OneTxnMoves ==
    ASSUME LedgerTypeOK, LedgerTypeOK', NEW t \in Txns,
           \A u \in Txns \ {t} : txn'[u] = txn[u], NEW x
    PROVE  RowsOn(x)' = RowsOn(x) - Effect(txn[t], x) + Effect(txn'[t], x)
<1>1. EffectsOn(x) \in [Txns -> Int] /\ EffectsOn(x)' \in [Txns -> Int]
  BY EffectsAreInt, EffectsAreIntNext
<1>2. \A u \in Txns \ {t} : EffectsOn(x)'[u] = EffectsOn(x)[u]
  BY DEF EffectsOn
<1>3. EffectsOn(x)[t] = Effect(txn[t], x) /\ EffectsOn(x)'[t] = Effect(txn'[t], x)
  BY DEF EffectsOn
<1>4. SumFunctionOnSet(EffectsOn(x)', Txns)
        = SumFunctionOnSet(EffectsOn(x), Txns) - EffectsOn(x)[t] + EffectsOn(x)'[t]
  BY <1>1, <1>2, FinitelyManyTxns, SumWithOneChanged
<1> QED BY <1>3, <1>4 DEF RowsOn

LEMMA NoTxnMoves ==
    ASSUME txn' = txn, balance' = balance, typed' = typed, BalancesExplained
    PROVE  BalancesExplained'
<1> SUFFICES ASSUME NEW x \in Accounts PROVE balance[x] = typed[x] + RowsOn(x)'
  BY DEF BalancesExplained
<1>1. RowsOn(x)' = RowsOn(x)
  BY DEF RowsOn, EffectsOn
<1> QED BY <1>1 DEF BalancesExplained

-----------------------------------------------------------------------------
(* The inductive invariant of requests served one at a time. *)

Busy(r) == pc[r] \in {"loaded", "ready", "created"}

\* The balance of x once request r has written.
WillBe(r, x) == IF x \in DOMAIN writes[r] THEN writes[r][x] ELSE balance[x]

\* Nothing moves while a request runs: the row it loaded is the row there is, and
\* the balances it will write are those there are, each with its change.
Undisturbed(r) ==
    /\ \A q \in Requests : Busy(q) => q = r
    /\ \A c \in Clerks : ask[c] = None
    /\ pc[r] # "created" => txn[job[r].id] = job[r].old
    /\ pc[r] = "ready" => \A x \in Accounts : WillBe(r, x) = balance[x] + Change(job[r], x)
NothingMoves == \A r \in Requests : Busy(r) => Undisturbed(r)

\* What a clerk has checked stays true until it is written.
AsksFit ==
    \A c \in Clerks : ask[c] # None =>
        /\ \A d \in Clerks : ask[d] # None => d = c
        /\ Fits(ask[c].txn, ask[c].amount)

GInv == TypesAndLife /\ BalancesExplained /\ NothingMoves /\ AsksFit

LEMMA BooksInit == GInit => GInv
<1> SUFFICES ASSUME GInit PROVE GInv
  OBVIOUS
<1>1. TypesAndLife
  BY LifeInit
<1>2. NothingMoves /\ AsksFit
  BY DEF GInit, LedgerInit, NoRequests, NothingMoves, Busy, AsksFit
<1>3. BalancesExplained
  <2> SUFFICES ASSUME NEW x \in Accounts PROVE balance[x] = typed[x] + RowsOn(x)
    BY DEF BalancesExplained
  <2>1. EffectsOn(x) \in [Txns -> Int]
    BY <1>1, EffectsAreInt DEF TypesAndLife, GTypeOK
  <2>2. \A t \in Txns : EffectsOn(x)[t] = 0
    BY DEF GInit, LedgerInit, EffectsOn, Effect
  <2>3. RowsOn(x) = 0
    BY <2>1, <2>2, FinitelyManyTxns, SumOfZeros DEF RowsOn
  <2> QED BY <2>3 DEF GInit, LedgerInit
<1> QED BY <1>1, <1>2, <1>3 DEF GInv

LEMMA BookStep ==
    ASSUME Alone, GInv, NEW r \in Requests, Book(r), TypesAndLife'
    PROVE  BalancesExplained' /\ NothingMoves' /\ AsksFit'
<1> USE DEF books, service
<1>t. LedgerTypeOK /\ LedgerTypeOK' /\ JobsHeld
  BY DEF GInv, TypesAndLife, GTypeOK
<1>a. (\A c \in Clerks : ask[c] = None) /\ ask' = ask
  BY DEF Book
<1>b. AsksFit'
  BY <1>a DEF AsksFit
<1>1. ASSUME NEW t \in Txns, NEW e \in Entry, BeginCreate(r, t, e, TRUE)
      PROVE  BalancesExplained' /\ NothingMoves'
  <2> DEFINE x == EntryAccount(e)
             row == [account |-> x, type |-> e.type, amount |-> e.amount]
             j == [id |-> t, old |-> None, auto |-> TRUE, new |-> row]
             new == IF TRUE /\ Change(j, x) # 0 THEN [y \in {x} |-> balance[x] + Change(j, x)] ELSE NoWrites
  <2>1. x \in Accounts
    BY <1>1, EntriesHaveAccounts DEF BeginCreate
  <2>2. e.type \in Types /\ e.amount \in Amounts
    BY <1>1 DEF BeginCreate, Entry
  <2> HIDE DEF x
  <2>3. row \in Row /\ row # None /\ row.account = x
    BY <2>1, <2>2, NoneIsNothing DEF Row
  <2> HIDE DEF row
  <2>4. j \in Job /\ j.id = t /\ j.old = None /\ j.new = row
    BY <2>3 DEF Job
  <2>5. writes' = [writes EXCEPT ![r] = new] /\ job' = [job EXCEPT ![r] = j]
    BY <1>1 DEF BeginCreate, x, row
  <2>6. /\ UNCHANGED <<txn, balance, typed>> /\ pc' = [pc EXCEPT ![r] = "ready"]
        /\ txn[t] = None /\ \A q \in Requests : ~Busy(q)
    BY <1>1 DEF BeginCreate, Free, MayBegin, Busy
  <2> HIDE DEF j
  <2>7. \A y \in Accounts : Change(j, y) \in Int /\ (y # x => Change(j, y) = 0)
    BY <2>3, <2>4, JobChanges DEF Change, Effect
  <2>8. writes'[r] = new /\ job'[r] = j
    BY <1>t, <2>5 DEF LedgerTypeOK
  <2>9. ASSUME NEW y \in Accounts
        PROVE  (IF y \in DOMAIN new THEN new[y] ELSE balance[y]) = balance[y] + Change(j, y)
    <3>1. balance[y] \in Int
      BY <1>t DEF LedgerTypeOK
    <3>2. CASE Change(j, x) # 0
      BY <2>7, <3>1, <3>2
    <3>3. CASE Change(j, x) = 0
      <4>1. DOMAIN new = {} /\ Change(j, y) = 0
        BY <2>7, <3>3 DEF NoWrites
      <4> QED BY <3>1, <4>1
    <3> QED BY <3>2, <3>3
  <2> HIDE DEF new
  <2>10. \A q \in Requests : Busy(q)' => q = r
    BY <1>t, <2>6 DEF Busy, LedgerTypeOK
  <2>11. \A y \in Accounts : WillBe(r, y)' = balance'[y] + Change(job'[r], y)
    BY <2>6, <2>8, <2>9 DEF WillBe
  <2>12. txn'[job'[r].id] = job'[r].old
    BY <2>4, <2>6, <2>8
  <2>13. NothingMoves'
    BY <1>a, <2>10, <2>11, <2>12 DEF NothingMoves, Undisturbed
  <2> QED BY <2>6, <2>13, NoTxnMoves DEF GInv
<1>2. ASSUME NEW t \in Txns, NEW new \in Amended \cup {None}, LoadTxn(r, t, new, TRUE)
      PROVE  BalancesExplained' /\ NothingMoves'
  <2>1. /\ UNCHANGED <<txn, balance, typed>> /\ \A q \in Requests : ~Busy(q)
        /\ pc' = [pc EXCEPT ![r] = "loaded"]
        /\ job' = [job EXCEPT ![r] = [id |-> t, old |-> txn[t], new |-> new, auto |-> TRUE]]
    BY <1>2 DEF LoadTxn, MayBegin, Busy
  <2>2. pc'[r] = "loaded" /\ \A q \in Requests : Busy(q)' => q = r
    BY <1>t, <2>1 DEF Busy, LedgerTypeOK
  <2>3. txn'[job'[r].id] = job'[r].old
    BY <1>t, <2>1 DEF LedgerTypeOK
  <2>4. NothingMoves'
    BY <1>a, <2>2, <2>3 DEF NothingMoves, Undisturbed
  <2> QED BY <2>1, <2>4, NoTxnMoves DEF GInv
<1>3. ASSUME ReadAccounts(r)
      PROVE  BalancesExplained' /\ NothingMoves'
  <2> DEFINE j == job[r]
             new == [x \in {y \in Accounts : j.auto /\ Change(j, y) # 0} |-> balance[x] + Change(j, x)]
  <2>1. pc[r] = "loaded" /\ Busy(r) /\ j \in Job /\ j.auto /\ Undisturbed(r)
    BY <1>3, <1>t DEF ReadAccounts, Busy, GInv, NothingMoves, JobsHeld
  <2>2. /\ UNCHANGED <<txn, balance, typed, job>>
        /\ pc' = [pc EXCEPT ![r] = "ready"] /\ writes' = [writes EXCEPT ![r] = new]
    BY <1>3 DEF ReadAccounts
  <2>3. \A x \in Accounts : Change(j, x) \in Int /\ balance[x] \in Int
    BY <1>t, <2>1, JobChanges DEF LedgerTypeOK
  <2>4. \A x \in Accounts :
           (IF x \in DOMAIN new THEN new[x] ELSE balance[x]) = balance[x] + Change(j, x)
    BY <2>1, <2>3
  <2> HIDE DEF new
  <2>5. writes'[r] = new /\ pc'[r] = "ready" /\ job'[r] = j
    BY <1>t, <2>2 DEF LedgerTypeOK
  <2>6. \A x \in Accounts : WillBe(r, x)' = balance'[x] + Change(job'[r], x)
    BY <2>2, <2>4, <2>5 DEF WillBe
  <2>7. txn'[job'[r].id] = job'[r].old
    BY <2>1, <2>2, <2>5 DEF Undisturbed
  <2>8. \A q \in Requests : Busy(q)' => q = r
    BY <1>t, <2>1, <2>2 DEF Busy, Undisturbed, LedgerTypeOK
  <2>9. NothingMoves'
    BY <1>a, <2>6, <2>7, <2>8 DEF NothingMoves, Undisturbed
  <2> QED BY <2>2, <2>9, NoTxnMoves DEF GInv
<1>4. ASSUME CommitTxn(r)
      PROVE  BalancesExplained' /\ NothingMoves'
  <2> DEFINE j == job[r]
  <2>1. /\ pc[r] = "ready" /\ Undisturbed(r) /\ j \in Job
        /\ txn[j.id] = j.old /\ \A x \in Accounts : WillBe(r, x) = balance[x] + Change(j, x)
    BY <1>4, <1>t DEF CommitTxn, Busy, GInv, NothingMoves, JobsHeld, Undisturbed
  <2>2. j.id \in Txns /\ j.old \in Row \cup {None} /\ j.new \in Row \cup {None}
    BY <2>1 DEF Job
  <2>3. Lands(j)
    BY <2>1 DEF Lands
  <2>4. /\ txn' = [txn EXCEPT ![j.id] =
              IF txn[j.id] = None /\ j.old # None THEN None ELSE Merge(txn[j.id], j.old, j.new)]
        /\ balance' = [x \in Accounts |-> WillBe(r, x)]
        /\ typed' = typed
    BY <1>4, <1>t, <2>2, <2>3 DEF CommitTxn, LedgerTypeOK, WillBe
  <2>5. (IF txn[j.id] = None /\ j.old # None THEN None ELSE Merge(txn[j.id], j.old, j.new)) = j.new
    <3>1. CASE j.old = None
      BY <3>1 DEF Merge
    <3>2. CASE j.old \in Row
      BY <2>1, <2>2, <3>2, NothingToMerge, NoneIsNothing
    <3> QED BY <2>2, <3>1, <3>2
  <2> HIDE DEF j
  <2>6. txn'[j.id] = j.new /\ \A u \in Txns \ {j.id} : txn'[u] = txn[u]
    BY <1>t, <2>2, <2>4, <2>5 DEF LedgerTypeOK
  <2>7. BalancesExplained'
    <3> SUFFICES ASSUME NEW x \in Accounts PROVE balance'[x] = typed'[x] + RowsOn(x)'
      BY DEF BalancesExplained
    <3>1. RowsOn(x)' = RowsOn(x) - Effect(txn[j.id], x) + Effect(txn'[j.id], x)
      BY <1>t, <2>2, <2>6, OneTxnMoves
    <3>2. balance'[x] = balance[x] + (Effect(j.new, x) - Effect(j.old, x))
      BY <2>1, <2>4 DEF Change
    <3>3. /\ Effect(j.new, x) \in Int /\ Effect(j.old, x) \in Int
          /\ balance[x] \in Int /\ typed[x] \in Int
      BY <1>t, <2>2, EffectIsInt DEF LedgerTypeOK
    <3>4. RowsOn(x) \in Int
      BY <1>t, EffectsAreInt, FinitelyManyTxns, SumIsInt DEF RowsOn
    <3>5. balance[x] = typed[x] + RowsOn(x) /\ typed'[x] = typed[x]
      BY <2>4 DEF GInv, BalancesExplained
    <3>6. RowsOn(x)' = RowsOn(x) - Effect(j.old, x) + Effect(j.new, x)
      BY <2>1, <2>6, <3>1
    <3> QED BY <3>2, <3>3, <3>4, <3>5, <3>6
  <2>8. pc'[r] \in {"created", "done"} /\ \A q \in Requests : q # r => pc'[q] = pc[q]
    BY <1>4, <1>t DEF CommitTxn, LedgerTypeOK
  <2>9. \A q \in Requests : Busy(q)' => q = r
    BY <2>1, <2>8 DEF Busy, Undisturbed
  <2>10. NothingMoves'
    BY <1>a, <2>8, <2>9 DEF NothingMoves, Undisturbed, Busy
  <2> QED BY <2>7, <2>10
<1> QED BY <1>b, <1>1, <1>2, <1>3, <1>4 DEF Book, TxnStep

\* The requests about goals and rules leave transactions and balances alone ...
LEMMA NoBooksMove ==
    ASSUME Alone, GInv, UNCHANGED ledgerVars, \A r \in Requests : ~Busy(r)
    PROVE  BalancesExplained' /\ NothingMoves'
<1>1. BalancesExplained'
  BY NoTxnMoves DEF GInv, ledgerVars, books
<1>2. \A r \in Requests : ~Busy(r)'
  BY DEF Busy, ledgerVars, service
<1> QED BY <1>1, <1>2 DEF NothingMoves

\* ... and begin when nothing runs.
LEMMA QuietIsIdle ==
    ASSUME Alone, GQuiet
    PROVE  (\A r \in Requests : ~Busy(r)) /\ (\A c \in Clerks : ask[c] = None)
BY DEF GQuiet, MayBegin, Busy

LEMMA BooksStep ==
    ASSUME Alone, GInv, [GNext]_gVars
    PROVE  GInv'
<1>0. TypesAndLife'
  BY LifeStep DEF GInv
<1>t. ask \in [Clerks -> Ask \cup {None}]
  BY DEF GInv, TypesAndLife, GTypeOK
<1>q. ASSUME GQuiet, UNCHANGED <<ledgerVars, ask>> PROVE GInv'
  <2>1. (\A r \in Requests : ~Busy(r)) /\ (\A c \in Clerks : ask'[c] = None)
    BY <1>q, QuietIsIdle
  <2>2. BalancesExplained' /\ NothingMoves'
    BY <1>q, <2>1, NoBooksMove
  <2>3. AsksFit'
    BY <2>1 DEF AsksFit
  <2> QED BY <1>0, <2>2, <2>3 DEF GInv
<1>1. ASSUME NEW r \in Requests, Book(r) PROVE GInv'
  BY <1>0, <1>1, BookStep DEF GInv
<1>2. ASSUME NEW r \in Requests, EvaluateRules(r) PROVE GInv'
  <2>1. /\ pc[r] = "created" /\ pc' = [pc EXCEPT ![r] = "done"]
        /\ UNCHANGED <<txn, balance, typed, ask>>
    BY <1>2 DEF EvaluateRules, AnswerCreate, books
  <2>2. Undisturbed(r)
    BY <2>1 DEF Busy, GInv, NothingMoves
  <2>3. \A q \in Requests : ~Busy(q)'
    BY <2>1, <2>2 DEF Busy, Undisturbed, GInv, TypesAndLife, GTypeOK, LedgerTypeOK
  <2>4. AsksFit' /\ NothingMoves'
    BY <2>1, <2>2, <2>3 DEF Undisturbed, AsksFit, NothingMoves
  <2>5. BalancesExplained'
    BY <2>1, NoTxnMoves DEF GInv
  <2> QED BY <1>0, <2>4, <2>5 DEF GInv
<1>3. ASSUME NEW g \in Goals, NEW t \in Txns, NEW c \in Clerks, NEW amount \in Shares,
             CheckAllocation(c, g, t, amount)
      PROVE  GInv'
  <2>1. (\A r \in Requests : ~Busy(r)) /\ (\A d \in Clerks : ask[d] = None)
    BY <1>3, QuietIsIdle DEF CheckAllocation
  <2>2. /\ ask' = [ask EXCEPT ![c] = [goal |-> g, txn |-> t, amount |-> amount]]
        /\ Fits(t, amount) /\ UNCHANGED <<ledgerVars, alloc>>
    BY <1>3 DEF CheckAllocation
  <2>3. Fits(t, amount)'
    BY <2>2 DEF Fits, Allocated, ledgerVars, books
  <2>4. \A d \in Clerks : ask'[d] # None => d = c
    BY <1>t, <2>1, <2>2
  <2>5. ask'[c].txn = t /\ ask'[c].amount = amount
    BY <1>t, <2>2
  <2>6. Fits(ask[c].txn, ask[c].amount)'
    BY <2>3, <2>5 DEF Fits
  <2>7. AsksFit'
    BY <2>4, <2>6 DEF AsksFit
  <2> QED BY <1>0, <2>1, <2>2, <2>7, NoBooksMove DEF GInv
<1>4. ASSUME NEW c \in Clerks, WriteAllocation(c) PROVE GInv'
  <2>1. ask[c] # None /\ ask' = [ask EXCEPT ![c] = None] /\ UNCHANGED ledgerVars
    BY <1>4 DEF WriteAllocation
  <2>2. \A d \in Clerks : ask'[d] = None
    BY <1>t, <2>1 DEF GInv, AsksFit
  <2>3. \A r \in Requests : ~Busy(r)
    BY <2>1 DEF GInv, NothingMoves, Undisturbed
  <2>4. AsksFit'
    BY <2>2 DEF AsksFit
  <2> QED BY <1>0, <2>1, <2>3, <2>4, NoBooksMove DEF GInv
<1>5. CASE UNCHANGED gVars
  <2>1. UNCHANGED ledgerVars /\ UNCHANGED <<ask, alloc>>
    BY <1>5 DEF gVars, goalVars
  <2>2. BalancesExplained'
    BY <2>1, NoTxnMoves DEF GInv, ledgerVars, books
  <2>3. NothingMoves'
    BY <2>1 DEF GInv, NothingMoves, Undisturbed, Busy, WillBe, ledgerVars, books, service
  <2>4. AsksFit'
    BY <2>1 DEF GInv, AsksFit, Fits, Allocated, ledgerVars, books
  <2> QED BY <1>0, <2>2, <2>3, <2>4 DEF GInv
<1>6. ASSUME NEW g \in Goals, NEW target \in Targets, NEW type \in GoalTypes,
             CreateGoal(g, type, target)
      PROVE  GInv'
  BY <1>6, <1>q DEF CreateGoal
<1>7. ASSUME NEW g \in Goals, NEW target \in Targets, NEW status \in Statuses,
             UpdateGoal(g, target, status)
      PROVE  GInv'
  BY <1>7, <1>q DEF UpdateGoal
<1>8. ASSUME NEW g \in Goals, RefreshGoal(g) \/ DeleteGoal(g) PROVE GInv'
  BY <1>8, <1>q DEF RefreshGoal, DeleteGoal
<1>9. ASSUME NEW g \in Goals, NEW t \in Txns, DeleteAllocation(g, t) PROVE GInv'
  BY <1>9, <1>q DEF DeleteAllocation
<1>10. ASSUME NEW q \in GoalRules, NEW row \in RuleDrafts, CreateRule(q, row) \/ UpdateRule(q, row)
       PROVE  GInv'
  BY <1>10, <1>q DEF CreateRule, UpdateRule
<1>11. ASSUME NEW q \in GoalRules, DeleteRule(q) PROVE GInv'
  BY <1>11, <1>q DEF DeleteRule
<1> QED BY <1>1, <1>2, <1>3, <1>4, <1>5, <1>6, <1>7, <1>8, <1>9, <1>10, <1>11 DEF GNext

\* With requests served one at a time every balance is what the user stated plus
\* the effects of the transactions there are, however they were entered, amended
\* and deleted (_apply_to_balance, transactions.py:98-117).
THEOREM BooksHoldAlone ==
    ASSUME Alone
    PROVE  GSpec => []BooksHold
<1>1. GInit => GInv
  BY BooksInit
<1>2. GInv /\ [GNext]_gVars => GInv'
  BY BooksStep
<1>3. GInv => BooksHold
  BY DEF GInv, TypesAndLife, BooksHold
<1> QED BY <1>1, <1>2, <1>3, PTL DEF GSpec

-----------------------------------------------------------------------------
(* Allocating by hand. *)

\* Of a transaction the goals take what they took, and what is written.
LEMMA AllocatedAfterWrite ==
    ASSUME alloc \in [Goals -> [Txns -> Int]], NEW g \in Goals, NEW t \in Txns, NEW m \in Int,
           alloc[g][t] = 0, alloc' = [alloc EXCEPT ![g][t] = m]
    PROVE  Allocated(alloc', t) = Allocated(alloc, t) + Magnitude(m)
<1> DEFINE v == [h \in Goals |-> Magnitude(alloc'[h][t])]
           w == [h \in Goals |-> Magnitude(alloc[h][t])]
<1>1. alloc' \in [Goals -> [Txns -> Int]] /\ alloc'[g][t] = m
      /\ \A h \in Goals \ {g} : alloc'[h][t] = alloc[h][t]
  OBVIOUS
<1>2. \A n \in Int : Magnitude(n) \in Int
  BY DEF Magnitude
<1>3. v \in [Goals -> Int] /\ w \in [Goals -> Int]
  BY <1>1, <1>2
<1>4. v[g] = Magnitude(m) /\ w[g] = 0 /\ \A h \in Goals \ {g} : v[h] = w[h]
  BY <1>1 DEF Magnitude
<1>5. Allocated(alloc', t) = SumFunctionOnSet(v, Goals) /\ Allocated(alloc, t) = SumFunctionOnSet(w, Goals)
  BY DEF Allocated
<1> HIDE DEF v, w
<1>6. SumFunctionOnSet(v, Goals) = SumFunctionOnSet(w, Goals) - w[g] + v[g]
  <2>1. IsFiniteSet(Goals) /\ \A h \in Goals \ {g} : v[h] = w[h]
    BY <1>4, GoalsAssumption
  <2> QED BY <1>3, <2>1, SumWithOneChanged
<1>7. SumFunctionOnSet(w, Goals) \in Int
  BY <1>3, GoalsAssumption, SumIsInt
<1>8. Magnitude(m) \in Int
  BY <1>2
<1> QED BY <1>4, <1>5, <1>6, <1>7, <1>8

LEMMA ManualStep ==
    ASSUME Alone, GInv, [GNext]_gVars, NEW c \in Clerks,
           ask[c] # None, alloc' # alloc, ask'[c] = None
    PROVE  Allocated(alloc', ask[c].txn) <= txn[ask[c].txn].amount
<1> DEFINE k == ask[c]
<1>1. ~GQuiet /\ \A r \in Requests : ~Busy(r)
  BY QuietIsIdle DEF GInv, NothingMoves, Undisturbed
<1>2. ASSUME NEW d \in Clerks, WriteAllocation(d)
      PROVE  Allocated(alloc', k.txn) <= txn[k.txn].amount
  <2>1. d = c
    BY <1>2 DEF WriteAllocation, GInv, AsksFit
  <2>2. alloc[k.goal][k.txn] = 0 /\ txn[k.txn] # None /\ alloc' = [alloc EXCEPT ![k.goal][k.txn] = k.amount]
    BY <1>2, <2>1 DEF WriteAllocation, Insertable
  <2>3. k \in Ask
    BY DEF GInv, TypesAndLife, GTypeOK
  <2> HIDE DEF k
  <2>4. k.goal \in Goals /\ k.txn \in Txns /\ k.amount \in Int
    BY <2>3, GoalNumbers
  <2>5. Allocated(alloc', k.txn) = Allocated(alloc, k.txn) + Magnitude(k.amount)
    BY <2>2, <2>4, AllocatedAfterWrite DEF GInv, TypesAndLife, GTypeOK
  <2>6. Magnitude(k.amount) + Allocated(alloc, k.txn) <= txn[k.txn].amount
    BY DEF GInv, AsksFit, Fits, k
  <2>7. Magnitude(k.amount) \in Int /\ Allocated(alloc, k.txn) \in Int
    <3> DEFINE w == [h \in Goals |-> Magnitude(alloc[h][k.txn])]
    <3>1. \A n \in Int : Magnitude(n) \in Int
      BY DEF Magnitude
    <3>2. w \in [Goals -> Int]
      BY <2>4, <3>1 DEF GInv, TypesAndLife, GTypeOK
    <3>3. Allocated(alloc, k.txn) = SumFunctionOnSet(w, Goals)
      BY DEF Allocated
    <3> HIDE DEF w
    <3> QED BY <2>4, <3>1, <3>2, <3>3, GoalsAssumption, SumIsInt
  <2> QED BY <2>5, <2>6, <2>7
<1>3. ASSUME NEW r \in Requests, Book(r) \/ EvaluateRules(r) PROVE FALSE
  BY <1>1, <1>3 DEF Book, EvaluateRules, AnswerCreate, Busy
<1>4. CASE UNCHANGED gVars
  BY <1>4 DEF gVars, goalVars
<1>5. CASE GNext
  BY <1>1, <1>2, <1>3, <1>5 DEF GNext, CreateGoal, UpdateGoal, RefreshGoal, DeleteGoal,
     DeleteAllocation, CheckAllocation, CreateRule, UpdateRule, DeleteRule
<1> QED BY <1>4, <1>5

\* Requests one at a time, what users allocate by hand never takes more of a
\* transaction than it has, the part of the rules counted in (goals.py:213-260).
THEOREM ManualFitsAlone ==
    ASSUME Alone
    PROVE  GSpec => ManualFits
<1>1. GInit => GInv
  BY BooksInit
<1>2. GInv /\ [GNext]_gVars => GInv'
  BY BooksStep
<1>3. GInv /\ [GNext]_gVars =>
        [\A c \in Clerks : ask[c] # None /\ alloc' # alloc /\ ask'[c] = None =>
            Allocated(alloc', ask[c].txn) <= txn[ask[c].txn].amount]_gVars
  BY ManualStep
<1> QED BY <1>1, <1>2, <1>3, PTL DEF GSpec, ManualFits

-----------------------------------------------------------------------------
(* The handlers of approved actions: payloads and accounts. *)

LEMMA PayloadFields ==
    ASSUME NEW p \in Payload
    PROVE  /\ p.kind \in Handled /\ p.type \in Types
           /\ p.amount \in Nat /\ p.lots \in Nat
           /\ {p.account, p.of, p.with} \subseteq Accounts \cup {None}
           /\ {p.usual, p.card, p.auto} \subseteq BOOLEAN
BY DEF Payload

LEMMA OwnAccounts ==
    /\ Accounts \subseteq Int /\ IsFiniteSet(Accounts) /\ None \notin Accounts
    /\ Kind \in [Accounts -> Kinds] /\ Trust \subseteq Accounts
    /\ Funds \subseteq Accounts
BY AccountsKnown, NoneIsNothing DEF Funds

\* A default account is of the kind it stands in for.
LEMMA DefaultIsOfKind ==
    ASSUME NEW kind
    PROVE  /\ DefaultAccount(kind) \in Accounts \cup {None}
           /\ DefaultAccount(kind) # None => Kind[DefaultAccount(kind)] = kind
<1> DEFINE eligible == {x \in Accounts : Kind[x] = kind /\ x \notin Trust}
<1>1. eligible \in SUBSET Accounts /\ eligible \in SUBSET Int /\ IsFiniteSet(eligible)
  BY OwnAccounts, FS_Subset
<1>2. eligible # {} => Min(eligible) \in eligible
  BY <1>1, LeastExists
<1> QED BY <1>1, <1>2 DEF DefaultAccount

LEMMA NormalisedIsPayload ==
    ASSUME NEW p \in Payload
    PROVE  /\ Normalised(p) \in Payload
           /\ Normalised(p).kind = p.kind /\ Normalised(p).amount = p.amount
<1> DEFINE card == DefaultAccount("credit_card")
<1>1. CASE Normalised(p) = p
  BY <1>1
<1>2. CASE Normalised(p) = [p EXCEPT !.account = card, !.card = TRUE] /\ card # None
  <2>1. card \in Accounts
    BY <1>2, DefaultIsOfKind
  <2> HIDE DEF card
  <2> QED BY <1>2, <2>1 DEF Payload
<1> QED BY <1>1, <1>2 DEF Normalised

LEMMA WithheldIsInt ==
    ASSUME NEW gain \in Int
    PROVE  Withheld(gain) \in Int
BY DEF Withheld

-----------------------------------------------------------------------------
(* Sums of balances. *)

LEMMA CashIsInt ==
    ASSUME NEW b \in [Accounts -> Int]
    PROVE  Cash(b) \in Int
<1> DEFINE S == {y \in Accounts : Kind[y] = "cash"}
<1>1. S \in SUBSET Accounts /\ IsFiniteSet(S)
  BY OwnAccounts, FS_Subset
<1> QED BY <1>1, SumIsInt DEF Cash

LEMMA CashMoves ==
    ASSUME NEW b \in [Accounts -> Int], NEW x \in Accounts, NEW d \in Int
    PROVE  Cash(Moved(b, x, d)) = Cash(b) + (IF Kind[x] = "cash" THEN d ELSE 0)
<1> DEFINE S == {y \in Accounts : Kind[y] = "cash"}
           c == Moved(b, x, d)
<1> USE DEF Moved
<1>1. S \in SUBSET Accounts /\ IsFiniteSet(S) /\ c \in [Accounts -> Int]
  BY OwnAccounts, FS_Subset
<1>2. SumFunctionOnSet(b, S) \in Int
  BY CashIsInt DEF Cash
<1>3. CASE x \in S
  <2> DEFINE R == S \ {x}
  <2>1. IsFiniteSet(R) /\ R \in SUBSET Accounts /\ \A y \in R : c[y] = b[y]
    BY <1>1, FS_RemoveElement
  <2>2. SumFunctionOnSet(c, R) = SumFunctionOnSet(b, R)
    <3> HIDE DEF c, R
    <3> QED BY <1>1, <2>1, SumOfSameTerms
  <2>3. /\ SumFunctionOnSet(b, S) = SumFunctionOnSet(b, R) + b[x]
        /\ SumFunctionOnSet(c, S) = SumFunctionOnSet(c, R) + c[x]
    <3> HIDE DEF c, S
    <3> QED BY <1>1, <1>3, SumWithoutOne
  <2>4. SumFunctionOnSet(b, R) \in Int
    BY <2>1, SumIsInt
  <2>5. b[x] \in Int /\ c[x] = b[x] + d /\ Kind[x] = "cash"
    BY <1>3
  <2> HIDE DEF c, R, S
  <2>6. SumFunctionOnSet(c, S) = SumFunctionOnSet(b, S) + d
    BY <2>2, <2>3, <2>4, <2>5
  <2> QED BY <1>2, <2>5, <2>6 DEF Cash, c, S
<1>4. CASE x \notin S
  <2>1. \A y \in S : c[y] = b[y]
    BY <1>4
  <2>2. SumFunctionOnSet(c, S) = SumFunctionOnSet(b, S)
    <3> HIDE DEF c, S
    <3> QED BY <1>1, <2>1, SumOfSameTerms
  <2>3. Kind[x] # "cash"
    BY <1>4
  <2> QED BY <1>2, <2>2, <2>3 DEF Cash
<1> QED BY <1>3, <1>4

Owned(x) == Kind[x] \in {"cash", "investment"}

LEMMA WorthMoves ==
    ASSUME NEW b \in [Accounts -> Int], NEW x \in Accounts, NEW n \in Int
    PROVE  /\ Worth(b) \in Int
           /\ Worth([b EXCEPT ![x] = n]) =
                IF Owned(x) THEN Worth(b) - b[x] + n ELSE Worth(b) + b[x] - n
<1> DEFINE c == [b EXCEPT ![x] = n]
           v == Signed(c)
           w == Signed(b)
<1>1. /\ v \in [Accounts -> Int] /\ w \in [Accounts -> Int]
      /\ \A y \in Accounts \ {x} : v[y] = w[y]
      /\ w[x] = (IF Owned(x) THEN b[x] ELSE -b[x]) /\ v[x] = (IF Owned(x) THEN n ELSE -n)
  BY DEF Signed, Owned
<1>2. IsFiniteSet(Accounts) /\ b[x] \in Int
  BY OwnAccounts
<1> HIDE DEF v, w
<1>3. SumFunctionOnSet(v, Accounts) = SumFunctionOnSet(w, Accounts) - w[x] + v[x]
  BY <1>1, <1>2, SumWithOneChanged
<1>4. SumFunctionOnSet(w, Accounts) \in Int
  BY <1>1, <1>2, SumIsInt
<1>5. Worth(b) = SumFunctionOnSet(w, Accounts) /\ Worth(c) = SumFunctionOnSet(v, Accounts)
  BY DEF Worth, v, w
<1> HIDE DEF c
<1>6. Worth(c) = IF Owned(x) THEN Worth(b) - b[x] + n ELSE Worth(b) + b[x] - n
  BY <1>1, <1>2, <1>3, <1>4, <1>5
<1> QED BY <1>4, <1>5, <1>6 DEF c

-----------------------------------------------------------------------------
(* What a handler computes. *)

\* What is proposed as a transaction has the amount of one.
Entered == \A a \in Actions :
    stage[a] # "none" /\ act[a].kind = "add_transaction" => act[a].amount \in Amounts

LEMMA MovedIsTyped ==
    ASSUME NEW b \in [Accounts -> Int], NEW x \in Accounts, NEW d \in Int
    PROVE  Moved(b, x, d) \in [Accounts -> Int]
BY DEF Moved

LEMMA SeenIsPicture == HTypeOK => Seen \in Picture
BY DEF HTypeOK, LedgerTypeOK, Seen, Picture

LEMMA UpdatedBalance ==
    ASSUME HTypeOK, NEW p \in Payload, UpdateBalance(p) # None
    PROVE  UpdateBalance(p) \in Picture
BY PayloadFields, OwnAccounts DEF HTypeOK, LedgerTypeOK, UpdateBalance, Seen, Picture

LEMMA AddedTransaction ==
    ASSUME HTypeOK, NEW p \in Payload, p.amount \in Amounts, AddTransaction(p) # None
    PROVE  AddTransaction(p) \in Picture
<1> DEFINE delta == ExecutorDelta(Kind[p.account], p.type, p.amount)
           moved == Moved(balance, p.account, delta)
           row == [account |-> p.account, type |-> p.type, amount |-> p.amount]
<1>1. row \in Row
  BY PayloadFields DEF Row
<1>2. delta \in Int
  BY PayloadFields DEF ExecutorDelta
<1>5. AddTransaction(p) = [balance |-> IF p.auto /\ p.account # None THEN moved ELSE balance,
                           lots |-> lots, price |-> price, row |-> row]
  BY DEF AddTransaction, Seen
<1> HIDE DEF delta
<1>3. balance \in [Accounts -> Int] /\ (p.account # None => moved \in [Accounts -> Int])
  <2>1. balance \in [Accounts -> Int]
    BY DEF HTypeOK, LedgerTypeOK
  <2> QED BY <1>2, <2>1, PayloadFields, MovedIsTyped
<1>4. lots \in [Funds -> Nat] /\ price \in [Funds -> Nat]
  BY DEF HTypeOK
<1> HIDE DEF moved, row
<1> QED BY <1>1, <1>3, <1>4, <1>5 DEF Picture

LEMMA CardPaid ==
    ASSUME HTypeOK, NEW p \in Payload, PayCard(p) # None
    PROVE  PayCard(p) \in Picture
<1> DEFINE card   == IF p.of # None THEN p.of ELSE p.account
           source == IF p.with # None THEN p.with ELSE DefaultAccount("cash")
           once  == Moved(balance, card, -p.amount)
           twice == Moved(once, source, -p.amount)
<1>1. card \in Accounts /\ source \in Accounts /\ p.amount \in Int
  BY PayloadFields, DefaultIsOfKind DEF PayCard
<1>2. /\ balance \in [Accounts -> Int] /\ lots \in [Funds -> Nat] /\ price \in [Funds -> Nat]
  BY DEF HTypeOK, LedgerTypeOK
<1>3. PayCard(p) = [balance |-> twice, lots |-> lots, price |-> price, row |-> None]
  BY DEF PayCard, Seen
<1> HIDE DEF card, source
<1>4. once \in [Accounts -> Int]
  BY <1>1, <1>2, MovedIsTyped
<1> HIDE DEF once
<1>5. twice \in [Accounts -> Int]
  BY <1>1, <1>4, MovedIsTyped
<1> HIDE DEF twice
<1> QED BY <1>2, <1>3, <1>5 DEF Picture

LEMMA LotsSold ==
    ASSUME HTypeOK, NEW p \in Payload, Sell(p) # None
    PROVE  Sell(p) \in Picture
<1> DEFINE at   == IF p.amount > 0 THEN p.amount ELSE price[p.of]
           left == lots[p.of] - p.lots
           net  == p.lots * at - Withheld(p.lots * (at - Cost))
           sold == [lots EXCEPT ![p.of] = left]
           rated == [price EXCEPT ![p.of] = at]
           once  == [balance EXCEPT ![p.of] = left * at]
           twice == Moved(once, p.with, net)
<1>1. /\ p.of \in Funds /\ p.with \in Accounts /\ p.lots \in Nat /\ p.amount \in Nat
      /\ p.lots <= lots[p.of]
  BY PayloadFields DEF Sell, Sellable
<1>2. balance \in [Accounts -> Int] /\ lots \in [Funds -> Nat] /\ price \in [Funds -> Nat]
  BY DEF HTypeOK, LedgerTypeOK
<1>3. at \in Nat /\ left \in Nat /\ Cost \in Nat
  BY <1>1, <1>2, HandlersAssumption
<1> HIDE DEF at, left
<1>4. net \in Int
  <2>1. p.lots * at \in Int /\ p.lots * (at - Cost) \in Int
    BY <1>1, <1>3
  <2> QED BY <2>1, WithheldIsInt
<1>5. left * at \in Int
  BY <1>3
<1> HIDE DEF net
<1>6. sold \in [Funds -> Nat] /\ rated \in [Funds -> Nat]
  BY <1>2, <1>3
<1>7. twice \in [Accounts -> Int]
  <2>1. once \in [Accounts -> Int]
    BY <1>2, <1>5
  <2> HIDE DEF once
  <2> QED BY <1>1, <1>4, <2>1, MovedIsTyped
<1>8. Sell(p) = [balance |-> twice, lots |-> sold, price |-> rated, row |-> None]
  BY DEF Sell, Seen, at, left, net
<1> HIDE DEF once, twice, sold, rated
<1> QED BY <1>6, <1>7, <1>8 DEF Picture

LEMMA PriceTyped ==
    ASSUME HTypeOK, NEW p \in Payload, UpdatePrice(p) # None
    PROVE  UpdatePrice(p) \in Picture
<1> DEFINE rated == [price EXCEPT ![p.account] = p.amount]
           valued == [balance EXCEPT ![p.account] = lots[p.account] * p.amount]
<1>1. p.account \in Funds /\ p.amount \in Nat
  BY PayloadFields DEF UpdatePrice
<1>2. balance \in [Accounts -> Int] /\ lots \in [Funds -> Nat] /\ price \in [Funds -> Nat]
  BY DEF HTypeOK, LedgerTypeOK
<1>3. lots[p.account] * p.amount \in Int
  BY <1>1, <1>2
<1>4. rated \in [Funds -> Nat] /\ valued \in [Accounts -> Int]
  BY <1>1, <1>2, <1>3
<1>5. UpdatePrice(p) = [balance |-> valued, lots |-> lots, price |-> rated, row |-> None]
  BY DEF UpdatePrice, Seen
<1> HIDE DEF rated, valued
<1> QED BY <1>2, <1>4, <1>5 DEF Picture

LEMMA OutcomeIsPicture ==
    ASSUME HTypeOK, NEW p \in Payload, p.kind = "add_transaction" => p.amount \in Amounts,
           Outcome(p) # None
    PROVE  Outcome(p) \in Picture
<1>1. p.kind \in Handled
  BY PayloadFields
<1>2. CASE p.kind = "update_account_balance"
  BY <1>2, UpdatedBalance DEF Outcome
<1>3. CASE p.kind = "add_transaction"
  BY <1>3, AddedTransaction DEF Outcome
<1>4. CASE p.kind = "pay_credit_card"
  BY <1>4, CardPaid DEF Outcome
<1>5. CASE p.kind = "sell_investment"
  BY <1>5, LotsSold DEF Outcome
<1>6. CASE p.kind = "update_fund_price"
  BY <1>6, PriceTyped DEF Outcome
<1>7. CASE p.kind = "add_master_checkpoint"
  BY <1>7, SeenIsPicture DEF Outcome
<1> QED BY <1>1, <1>2, <1>3, <1>4, <1>5, <1>6, <1>7 DEF Handled

-----------------------------------------------------------------------------
(* Types, whatever overlaps. *)

\* What is not different is kept; and on rows nobody else has written, the
\* commit leaves what the handler computed.
LEMMA WrittenIsTyped ==
    ASSUME NEW D, NEW R, NEW now \in [D -> R], NEW seen \in [D -> R], NEW next \in [D -> R]
    PROVE  /\ Written(now, seen, next) \in [D -> R]
           /\ now = seen => Written(now, seen, next) = next
BY DEF Written

HTypes == HTypeOK /\ Entered

LEMMA ProposeTypes ==
    ASSUME HTypes, NEW a \in Actions, NEW p \in Payloads, Propose(a, p)
    PROVE  HTypes'
<1>1. /\ Normalised(p) \in Payload
      /\ Normalised(p).kind = "add_transaction" => Normalised(p).amount \in Amounts
  BY NormalisedIsPayload, HandlersAssumption
<1> DEFINE q == Normalised(p)
<1>2. /\ act' = [act EXCEPT ![a] = q] /\ stage' = [stage EXCEPT ![a] = "proposed"]
      /\ UNCHANGED <<ledgerVars, assets, plan, cp>> /\ stage[a] = "none"
  BY DEF Propose
<1>3. LedgerTypeOK'
  BY <1>2 DEF HTypes, HTypeOK, LedgerTypeOK, ledgerVars, books, service
<1> HIDE DEF q
<1>4. /\ act' \in [Actions -> Payload \cup {None}] /\ stage' \in [Actions -> Stages]
  BY <1>1, <1>2 DEF HTypes, HTypeOK, Stages, q
<1>5. \A b \in Actions :
         /\ stage'[b] # "none" => act'[b] \in Payload
         /\ stage'[b] = "ready" => plan'[b] \in [seen : Picture, next : Picture]
  BY <1>1, <1>2 DEF HTypes, HTypeOK, q
<1>6. Entered'
  BY <1>1, <1>2 DEF HTypes, HTypeOK, Entered, q
<1> QED BY <1>2, <1>3, <1>4, <1>5, <1>6 DEF HTypes, HTypeOK, assets

LEMMA CheckTypes ==
    ASSUME HTypes, NEW a \in Actions, Check(a)
    PROVE  HTypes'
<1>1. PICK verdict \in {"blocked", "permitted"} :
         /\ stage' = [stage EXCEPT ![a] = verdict] /\ stage[a] = "proposed"
         /\ UNCHANGED <<ledgerVars, assets, act, plan, cp>>
  BY DEF Check
<1>2. LedgerTypeOK'
  BY <1>1 DEF HTypes, HTypeOK, LedgerTypeOK, ledgerVars, books, service
<1> QED BY <1>1, <1>2 DEF HTypes, HTypeOK, Entered, Stages, assets

LEMMA LoadTypes ==
    ASSUME HTypes, NEW a \in Actions, Load(a)
    PROVE  HTypes'
<1> DEFINE next == Outcome(act[a])
<1>1. /\ stage[a] = "permitted" /\ UNCHANGED <<ledgerVars, assets, act, cp>>
      /\ \/ stage' = [stage EXCEPT ![a] = "refused"] /\ plan' = plan
         \/ /\ next # None
            /\ stage' = [stage EXCEPT ![a] = "ready"]
            /\ plan'  = [plan EXCEPT ![a] = [seen |-> Seen, next |-> next]]
  BY DEF Load
<1>2. LedgerTypeOK'
  BY <1>1 DEF HTypes, HTypeOK, LedgerTypeOK, ledgerVars, books, service
<1>3. Seen \in Picture /\ (next # None => next \in Picture)
  <2>1. act[a] \in Payload /\ (act[a].kind = "add_transaction" => act[a].amount \in Amounts)
    BY <1>1 DEF HTypes, HTypeOK, Entered
  <2> QED BY <2>1, SeenIsPicture, OutcomeIsPicture DEF HTypes
<1> DEFINE seen == Seen
<1> HIDE DEF next, seen
<1>4. stage' \in [Actions -> Stages] /\ DOMAIN plan' = Actions
  BY <1>1 DEF HTypes, HTypeOK, Stages
<1>5. \A b \in Actions :
         /\ stage'[b] # "none" => act'[b] \in Payload
         /\ stage'[b] = "ready" => plan'[b] \in [seen : Picture, next : Picture]
  BY <1>1, <1>3 DEF HTypes, HTypeOK, seen
<1>6. Entered'
  BY <1>1 DEF HTypes, HTypeOK, Entered
<1> QED BY <1>1, <1>2, <1>4, <1>5, <1>6 DEF HTypes, HTypeOK, assets

LEMMA CommitTypes ==
    ASSUME HTypes, NEW a \in Actions, Commit(a)
    PROVE  HTypes'
<1> DEFINE seen == plan[a].seen
           next == plan[a].next
<1>1. /\ stage[a] = "ready" /\ seen \in Picture /\ next \in Picture
      /\ balance' = Written(balance, seen.balance, next.balance)
      /\ lots'    = Written(lots, seen.lots, next.lots)
      /\ price'   = Written(price, seen.price, next.price)
      /\ stage' = [stage EXCEPT ![a] = "executed"] /\ plan' = [plan EXCEPT ![a] = None]
      /\ UNCHANGED <<typed, service, act>>
  BY DEF Commit, HTypes, HTypeOK
<1>2. /\ balance' \in [Accounts -> Int] /\ lots' \in [Funds -> Nat] /\ price' \in [Funds -> Nat]
  BY <1>1, WrittenIsTyped DEF HTypes, HTypeOK, LedgerTypeOK, Picture
<1>3. txn' \in [Txns -> Row \cup {None}]
  <2>1. next.row \in Row \cup {None} /\ txn \in [Txns -> Row \cup {None}]
    BY <1>1 DEF HTypes, HTypeOK, LedgerTypeOK, Picture
  <2>2. UNCHANGED txn \/ \E t \in Txns : txn' = [txn EXCEPT ![t] = next.row]
    BY DEF Commit
  <2> HIDE DEF next
  <2> QED BY <2>1, <2>2
<1>4. cp' \in [Checkpoints -> Checkpoint \cup {None}]
  <2>1. NewCheckpoint \in Checkpoint
    BY DEF NewCheckpoint, Checkpoint
  <2>2. UNCHANGED cp \/ \E c \in Checkpoints : cp' = [cp EXCEPT ![c] = NewCheckpoint]
    BY DEF Commit
  <2> QED BY <2>1, <2>2 DEF HTypes, HTypeOK
<1>5. LedgerTypeOK'
  BY <1>1, <1>2, <1>3 DEF HTypes, HTypeOK, LedgerTypeOK, service
<1>6. /\ stage' \in [Actions -> Stages] /\ DOMAIN plan' = Actions
      /\ \A b \in Actions :
            /\ stage'[b] # "none" => act'[b] \in Payload
            /\ stage'[b] = "ready" => plan'[b] \in [seen : Picture, next : Picture]
  BY <1>1 DEF HTypes, HTypeOK, Stages
<1>7. Entered'
  BY <1>1 DEF HTypes, HTypeOK, Entered
<1> QED BY <1>1, <1>2, <1>4, <1>5, <1>6, <1>7 DEF HTypes, HTypeOK

\* A checkpoint as the panel leaves it.
LEMMA PanelTypes ==
    ASSUME HTypes, NEW c \in Checkpoints,
           \/ \E new \in Drafts : CreateCheckpoint(c, new) \/ UpdateCheckpoint(c, new)
           \/ \E hard \in BOOLEAN : DeleteCheckpoint(c, hard)
    PROVE  HTypes'
<1>1. PICK row : /\ row \in Checkpoint \cup {None} /\ cp' = [cp EXCEPT ![c] = row]
                 /\ UNCHANGED <<ledgerVars, assets, act, stage, plan>>
  <2>1. CASE \E new \in Drafts : CreateCheckpoint(c, new)
    <3>1. PICK new \in Drafts : CreateCheckpoint(c, new)
      BY <2>1
    <3>2. [new EXCEPT !.system = FALSE] \in Checkpoint
      BY HandlersAssumption DEF Checkpoint
    <3> QED BY <3>1, <3>2 DEF CreateCheckpoint
  <2>2. CASE \E new \in Drafts : UpdateCheckpoint(c, new)
    <3>1. PICK new \in Drafts : UpdateCheckpoint(c, new)
      BY <2>2
    <3>2. cp[c] \in Checkpoint
      BY <3>1 DEF UpdateCheckpoint, HTypes, HTypeOK
    <3>3. [new EXCEPT !.system = cp[c].system] \in Checkpoint
      BY <3>2, HandlersAssumption DEF Checkpoint
    <3> QED BY <3>1, <3>3 DEF UpdateCheckpoint
  <2>3. CASE \E hard \in BOOLEAN : DeleteCheckpoint(c, hard)
    <3>1. PICK hard \in BOOLEAN : DeleteCheckpoint(c, hard)
      BY <2>3
    <3>2. cp[c] \in Checkpoint
      BY <3>1 DEF DeleteCheckpoint, HTypes, HTypeOK
    <3>3. [cp[c] EXCEPT !.active = FALSE] \in Checkpoint
      BY <3>2 DEF Checkpoint
    <3>4. cp' = [cp EXCEPT ![c] = IF hard THEN None ELSE [cp[c] EXCEPT !.active = FALSE]]
      BY <3>1 DEF DeleteCheckpoint
    <3> QED BY <3>1, <3>3, <3>4 DEF DeleteCheckpoint
  <2> QED BY <2>1, <2>2, <2>3
<1>2. LedgerTypeOK'
  BY <1>1 DEF HTypes, HTypeOK, LedgerTypeOK, ledgerVars, books, service
<1> QED BY <1>1, <1>2 DEF HTypes, HTypeOK, Entered, assets

LEMMA TypesStep == HTypes /\ [HNext]_hVars => HTypes'
<1> SUFFICES ASSUME HTypes, [HNext]_hVars PROVE HTypes'
  OBVIOUS
<1>1. CASE \E a \in Actions, p \in Payloads : Propose(a, p)
  BY <1>1, ProposeTypes
<1>2. CASE \E a \in Actions : Check(a)
  BY <1>2, CheckTypes
<1>3. CASE \E a \in Actions : Load(a)
  BY <1>3, LoadTypes
<1>4. CASE \E a \in Actions : Commit(a)
  BY <1>4, CommitTypes
<1>5. CASE \E c \in Checkpoints :
             \/ \E new \in Drafts : CreateCheckpoint(c, new) \/ UpdateCheckpoint(c, new)
             \/ \E hard \in BOOLEAN : DeleteCheckpoint(c, hard)
  BY <1>5, PanelTypes
<1>6. CASE UNCHANGED hVars
  BY <1>6 DEF HTypes, HTypeOK, Entered, LedgerTypeOK, hVars, ledgerVars, books, service, assets
<1> QED BY <1>1, <1>2, <1>3, <1>4, <1>5, <1>6 DEF HNext

LEMMA TypesInit == HInit => HTypes
<1> SUFFICES ASSUME HInit PROVE HTypes
  OBVIOUS
<1> DEFINE opening == [x \in Accounts |-> Opening(x)]
<1>1. opening \in [Accounts -> Int]
  <2>1. Lots * Cost \in Int /\ OpeningCash \in Int /\ OpeningDebt \in Int
    BY HandlersAssumption
  <2> QED BY <2>1 DEF Opening
<1>2. LedgerInit(opening)
  BY DEF HInit
<1> HIDE DEF opening
<1>3. LedgerTypeOK
  BY <1>1, <1>2 DEF LedgerInit, NoRequests, NoWrites, LedgerTypeOK
<1>4. lots \in [Funds -> Nat] /\ price \in [Funds -> Nat]
  BY HandlersAssumption DEF HInit
<1>5. /\ act \in [Actions -> Payload \cup {None}] /\ stage \in [Actions -> Stages]
      /\ DOMAIN plan = Actions /\ \A a \in Actions : stage[a] = "none"
  BY DEF HInit, Stages
<1>6. cp \in [Checkpoints -> Checkpoint \cup {None}]
  <2>1. Seeded \in Checkpoint
    BY DEF Seeded, Checkpoint
  <2> QED BY <2>1 DEF HInit
<1> QED BY <1>3, <1>4, <1>5, <1>6 DEF HTypes, HTypeOK, Entered

-----------------------------------------------------------------------------
(* One approval at a time. *)

\* No rule of the user stands against the action as the books are now.
Passes(a) == \A c \in Active : ~Breaks(act[a], cp[c].rule)

\* A handler is about to write what it would compute now.
PlanIsFresh(a) == plan[a].seen = Seen /\ plan[a].next = Outcome(act[a]) /\ plan[a].next # None

OnlyOne == \A a, b \in Approving : a = b

\* The verdict of the rules and what the handler has read still hold.
StillTrue ==
    /\ OnlyOne
    /\ \A a \in Approving : Passes(a) /\ (stage[a] = "ready" => PlanIsFresh(a))

HInv == HTypes /\ StillTrue

LEMMA SameVerdict ==
    ASSUME UNCHANGED <<balance, cp>>, NEW a, act'[a] = act[a], Passes(a)
    PROVE  Passes(a)'
BY DEF Passes, Active, Breaks, Usable, Outflow, Cash

LEMMA SameOutcome ==
    ASSUME UNCHANGED <<balance, lots, price>>, NEW a, act'[a] = act[a]
    PROVE  Seen' = Seen /\ Outcome(act[a])' = Outcome(act[a])
BY DEF Seen, Outcome, UpdateBalance, AddTransaction, PayCard, Sell, Sellable, UpdatePrice

LEMMA StillTrueStep == HInv /\ Alone /\ HNext => StillTrue'
<1> SUFFICES ASSUME HInv, Alone, HNext PROVE StillTrue'
  OBVIOUS
<1>1. ASSUME NEW a \in Actions, NEW p \in Payloads, Propose(a, p) PROVE StillTrue'
  <2>1. /\ UNCHANGED <<ledgerVars, assets, plan, cp>> /\ stage[a] = "none"
        /\ act' = [act EXCEPT ![a] = Normalised(p)]
        /\ stage' = [stage EXCEPT ![a] = "proposed"]
    BY <1>1 DEF Propose
  <2>2. Approving' = Approving /\ \A b \in Approving : act'[b] = act[b] /\ stage'[b] = stage[b]
    BY <2>1 DEF Approving, HInv, HTypes, HTypeOK
  <2>3. UNCHANGED <<balance, lots, price>>
    BY <2>1 DEF ledgerVars, books, assets
  <2>4. ASSUME NEW b \in Approving
        PROVE  Passes(b)' /\ (stage'[b] = "ready" => PlanIsFresh(b)')
    <3>1. Passes(b)'
      BY <2>1, <2>2, <2>3, SameVerdict DEF HInv, StillTrue
    <3>2. Seen' = Seen /\ Outcome(act[b])' = Outcome(act[b])
      BY <2>2, <2>3, SameOutcome
    <3> QED BY <2>1, <2>2, <3>1, <3>2 DEF HInv, StillTrue, PlanIsFresh
  <2>5. OnlyOne'
    BY <2>2 DEF HInv, StillTrue, OnlyOne
  <2> QED BY <2>2, <2>4, <2>5 DEF StillTrue
<1>2. ASSUME NEW a \in Actions, Check(a) PROVE StillTrue'
  <2>1. Approving = {} /\ UNCHANGED <<ledgerVars, assets, act, plan, cp>>
    BY <1>2 DEF Check, Quiet
  <2>2. stage' = [stage EXCEPT ![a] =
            IF \E c \in Active : Breaks(act[a], cp[c].rule) THEN "blocked" ELSE "permitted"]
    BY <1>2 DEF Check
  <2>3. \A b \in Approving' : b = a /\ stage'[b] = "permitted" /\ Passes(b)
    BY <2>1, <2>2 DEF Approving, Passes, HInv, HTypes, HTypeOK
  <2>4. \A b \in Approving' : Passes(b)'
    BY <2>1, <2>3, SameVerdict DEF ledgerVars, books
  <2> QED BY <2>3, <2>4 DEF StillTrue, OnlyOne
<1>3. ASSUME NEW a \in Actions, Load(a) PROVE StillTrue'
  <2>1. stage[a] = "permitted" /\ UNCHANGED <<ledgerVars, assets, act, cp>>
    BY <1>3 DEF Load
  <2>2. a \in Approving /\ \A b \in Approving : b = a
    BY <2>1 DEF Approving, HInv, StillTrue, OnlyOne
  <2>3. /\ Passes(a)' /\ Seen' = Seen /\ Outcome(act[a])' = Outcome(act[a])
    BY <2>1, <2>2, SameVerdict, SameOutcome DEF HInv, StillTrue, ledgerVars, books, assets
  <2>4. \/ stage' = [stage EXCEPT ![a] = "refused"]
        \/ /\ Outcome(act[a]) # None
           /\ stage' = [stage EXCEPT ![a] = "ready"]
           /\ plan'  = [plan EXCEPT ![a] = [seen |-> Seen, next |-> Outcome(act[a])]]
    BY <1>3 DEF Load
  <2>5. \A b \in Approving' : b = a
    BY <2>1, <2>2, <2>4 DEF Approving, HInv, HTypes, HTypeOK
  <2>6. stage'[a] = "ready" => PlanIsFresh(a)'
    <3>1. stage'[a] = "ready" =>
             /\ plan'[a] = [seen |-> Seen, next |-> Outcome(act[a])]
             /\ Outcome(act[a]) # None
      BY <2>4 DEF HInv, HTypes, HTypeOK
    <3> QED BY <2>3, <3>1 DEF PlanIsFresh
  <2> QED BY <2>3, <2>5, <2>6 DEF StillTrue, OnlyOne
<1>4. ASSUME NEW a \in Actions, Commit(a) PROVE StillTrue'
  <2>1. stage[a] = "ready" /\ stage' = [stage EXCEPT ![a] = "executed"]
    BY <1>4 DEF Commit
  <2>2. \A b \in Approving : b = a
    BY <2>1 DEF Approving, HInv, StillTrue, OnlyOne
  <2>3. Approving' = {}
    BY <2>1, <2>2 DEF Approving, HInv, HTypes, HTypeOK
  <2> QED BY <2>3 DEF StillTrue, OnlyOne
<1>5. ASSUME NEW c \in Checkpoints,
             \/ \E new \in Drafts : CreateCheckpoint(c, new) \/ UpdateCheckpoint(c, new)
             \/ \E hard \in BOOLEAN : DeleteCheckpoint(c, hard)
      PROVE  StillTrue'
  <2>1. Approving = {} /\ UNCHANGED stage
    BY <1>5 DEF CreateCheckpoint, UpdateCheckpoint, DeleteCheckpoint, Quiet
  <2>2. Approving' = {}
    BY <2>1 DEF Approving
  <2> QED BY <2>2 DEF StillTrue, OnlyOne
<1> QED BY <1>1, <1>2, <1>3, <1>4, <1>5 DEF HNext

LEMMA HInvStep == Alone /\ HInv /\ [HNext]_hVars => HInv'
<1> SUFFICES ASSUME Alone, HInv, [HNext]_hVars PROVE HInv'
  OBVIOUS
<1>1. HTypes'
  BY TypesStep DEF HInv
<1>2. CASE HNext
  BY <1>1, <1>2, StillTrueStep DEF HInv
<1>3. CASE UNCHANGED hVars
  <2>1. UNCHANGED <<balance, lots, price, act, stage, plan, cp>>
    BY <1>3 DEF hVars, ledgerVars, books, assets
  <2>2. Approving' = Approving
    BY <2>1 DEF Approving
  <2>3. \A a \in Approving : Passes(a)' /\ (stage'[a] = "ready" => PlanIsFresh(a)')
    BY <2>1, SameVerdict, SameOutcome DEF HInv, StillTrue, PlanIsFresh
  <2>4. OnlyOne'
    BY <2>2 DEF HInv, StillTrue, OnlyOne
  <2>5. StillTrue'
    BY <2>2, <2>3, <2>4 DEF StillTrue
  <2> QED BY <1>1, <2>5 DEF HInv
<1> QED BY <1>2, <1>3

LEMMA HInvInit == HInit => HInv
<1> SUFFICES ASSUME HInit PROVE HInv
  OBVIOUS
<1>1. Approving = {}
  BY DEF HInit, Approving
<1> QED BY <1>1, TypesInit DEF HInv, StillTrue, OnlyOne

\* What is committed is what the handler would compute now.
LEMMA FreshCommit ==
    ASSUME HInv, NEW a \in Actions, Commit(a)
    PROVE  /\ act[a] \in Payload /\ Passes(a)
           /\ Outcome(act[a]) # None /\ balance' = Outcome(act[a]).balance
<1>1. /\ stage[a] = "ready" /\ a \in Approving
      /\ balance' = Written(balance, plan[a].seen.balance, plan[a].next.balance)
  BY DEF Commit, Approving
<1>2. Passes(a) /\ plan[a].seen = Seen /\ plan[a].next = Outcome(act[a]) /\ plan[a].next # None
  BY <1>1 DEF HInv, StillTrue, PlanIsFresh
<1>3. act[a] \in Payload /\ plan[a] \in [seen : Picture, next : Picture]
  BY <1>1 DEF HInv, HTypes, HTypeOK
<1>4. plan[a].next.balance \in [Accounts -> Int] /\ balance \in [Accounts -> Int]
  BY <1>3 DEF Picture, HInv, HTypes, HTypeOK, LedgerTypeOK
<1>5. Seen.balance = balance
  BY DEF Seen
<1>6. balance' = plan[a].next.balance
  <2> DEFINE next == plan[a].next.balance
  <2>1. next \in [Accounts -> Int] /\ balance' = Written(balance, balance, next)
    BY <1>1, <1>2, <1>4, <1>5
  <2> HIDE DEF next
  <2>2. Written(balance, balance, next) = next
    BY <1>4, <2>1 DEF Written
  <2> QED BY <2>1, <2>2 DEF next
<1> QED BY <1>2, <1>3, <1>6

-----------------------------------------------------------------------------
(* Floors. *)

\* Of what an entry moves, only an expense takes cash, and takes its amount.
LEMMA EntryTakes ==
    ASSUME NEW p \in Payload, ~p.card, p.kind = "add_transaction",
           NEW b \in [Accounts -> Int], AddTransaction(p) # None,
           b = balance, Cash(AddTransaction(p).balance) < Cash(b)
    PROVE  /\ Outflow(p) = p.amount /\ p.amount > 0
           /\ Cash(AddTransaction(p).balance) = Cash(b) - p.amount
<1> DEFINE x == p.account
           d == ExecutorDelta(Kind[x], p.type, p.amount)
<1>1. p.amount \in Nat /\ x \in Accounts \cup {None} /\ p.type \in Types
  BY PayloadFields
<1>2. AddTransaction(p).balance = IF p.auto /\ x # None THEN Moved(b, x, d) ELSE b
  BY DEF AddTransaction, Seen
<1>3. d \in Int
  BY <1>1 DEF ExecutorDelta
<1>4. Cash(b) \in Int
  BY CashIsInt
<1>5. x \in Accounts /\ AddTransaction(p).balance = Moved(b, x, d)
  BY <1>1, <1>2, <1>4
<1> HIDE DEF d
<1>6. Cash(AddTransaction(p).balance) = Cash(b) + (IF Kind[x] = "cash" THEN d ELSE 0)
  BY <1>3, <1>5, CashMoves
<1>7. Kind[x] = "cash" /\ d < 0
  BY <1>3, <1>4, <1>6
<1>8. d = -p.amount /\ p.type = "expense"
  <2>1. CASE p.type = "income"
    <3>1. ((p.type = "income") = (Kind[x] = "credit_card")) = FALSE
      BY <1>7, <2>1
    <3>2. d = p.amount
      BY <2>1, <3>1, Zenon DEF d, ExecutorDelta
    <3> QED BY <1>1, <1>7, <3>2
  <2>2. CASE p.type = "expense"
    <3>1. (p.type = "income") = (Kind[x] = "credit_card")
      BY <1>7, <2>2
    <3>2. d = -p.amount
      BY <2>2, <3>1 DEF d, ExecutorDelta
    <3> QED BY <2>2, <3>2
  <2>3. CASE p.type = "transfer"
    <3>1. d = 0
      BY <2>3 DEF d, ExecutorDelta
    <3> QED BY <1>7, <3>1
  <2> QED BY <1>1, <2>1, <2>2, <2>3 DEF Types
<1> QED BY <1>1, <1>3, <1>4, <1>6, <1>7, <1>8 DEF Outflow

LEMMA FloorStep ==
    ASSUME HInv, NEW a \in Actions, Commit(a),
           act[a].kind = "add_transaction", ~act[a].card, Cash(balance') < Cash(balance),
           NEW c \in Active, IsFloor(cp[c].rule)
    PROVE  Cash(balance') >= cp[c].rule.amount
<1> DEFINE p == act[a]
           after == AddTransaction(p).balance
<1>1. /\ p \in Payload /\ Passes(a) /\ balance' = after /\ balance \in [Accounts -> Int]
  BY FreshCommit DEF Outcome, HInv, HTypes, HTypeOK, LedgerTypeOK
<1>2. AddTransaction(p) # None
  BY FreshCommit DEF Outcome
<1>3. Cash(balance) \in Int
  BY <1>1, CashIsInt
<1>4. cp[c].rule.amount \in Int
  <2>1. cp[c] \in Checkpoint /\ cp[c].rule # None
    BY DEF Active, HInv, HTypes, HTypeOK
  <2>2. cp[c].rule \in Rule
    BY <2>1, HandlersAssumption DEF Checkpoint
  <2> QED BY <2>2 DEF Rule
<1>5. Cash(balance') >= cp[c].rule.amount
  <2>1. /\ Outflow(p) = p.amount /\ p.amount > 0
        /\ Cash(after) = Cash(balance) - p.amount
    BY <1>1, <1>2, EntryTakes
  <2>2. ~Breaks(p, cp[c].rule)
    BY <1>1 DEF Passes
  <2>3. ~(Cash(balance) - Outflow(p) < cp[c].rule.amount)
    BY <2>1, <2>2 DEF Breaks, IsFloor
  <2> QED BY <1>1, <1>3, <1>4, <2>1, <2>3, PayloadFields
<1> QED BY <1>5

-----------------------------------------------------------------------------
(* Worth. *)

\* Paying a card from cash lowers what is owned and what is owed alike.
LEMMA CardPaymentIsEven ==
    ASSUME NEW b \in [Accounts -> Int], NEW card \in Accounts, NEW source \in Accounts, NEW m \in Int,
           Kind[card] = "credit_card", Kind[source] = "cash"
    PROVE  Worth(Moved(Moved(b, card, -m), source, -m)) = Worth(b)
<1> DEFINE once == Moved(b, card, -m)
           n == b[card] + (-m)
<1>1. once = [b EXCEPT ![card] = n] /\ n \in Int /\ b[card] \in Int
  BY DEF Moved
<1>2. Worth(b) \in Int /\ Worth(once) = Worth(b) + m
  <2>1. ~Owned(card)
    BY DEF Owned
  <2>2. Worth(b) \in Int /\ Worth([b EXCEPT ![card] = n]) = Worth(b) + b[card] - n
    BY <1>1, <2>1, WorthMoves
  <2> HIDE DEF once
  <2> QED BY <1>1, <2>2 DEF n
<1>3. once \in [Accounts -> Int]
  BY MovedIsTyped
<1> HIDE DEF once, n
<1> DEFINE k == once[source] + (-m)
<1>4. Moved(once, source, -m) = [once EXCEPT ![source] = k] /\ k \in Int /\ once[source] \in Int
  BY <1>3 DEF Moved
<1>5. Worth([once EXCEPT ![source] = k]) = Worth(once) - once[source] + k
  <2>1. Owned(source)
    BY DEF Owned
  <2> HIDE DEF k
  <2> QED BY <1>3, <1>4, <2>1, WorthMoves
<1>6. Worth(Moved(once, source, -m)) = Worth(once) - m
  BY <1>2, <1>4, <1>5
<1> QED BY <1>2, <1>6 DEF once

\* What lots lose in value and what comes in as cash.
LEMMA SaleIsSwap ==
    ASSUME NEW b \in [Accounts -> Int], NEW f \in Accounts, NEW x \in Accounts,
           NEW rest \in Int, NEW net \in Int, Kind[f] = "investment", Kind[x] = "cash"
    PROVE  /\ Worth(b) \in Int
           /\ Worth(Moved([b EXCEPT ![f] = rest], x, net)) = Worth(b) - b[f] + rest + net
<1> DEFINE once == [b EXCEPT ![f] = rest]
<1>1. /\ once \in [Accounts -> Int] /\ b[f] \in Int
      /\ Worth(b) \in Int /\ Worth(once) = Worth(b) - b[f] + rest
  BY WorthMoves DEF Owned
<1> HIDE DEF once
<1> DEFINE k == once[x] + net
<1>2. Moved(once, x, net) = [once EXCEPT ![x] = k] /\ k \in Int /\ once[x] \in Int
  BY <1>1 DEF Moved
<1>3. Worth([once EXCEPT ![x] = k]) = Worth(once) - once[x] + k
  <2>1. Owned(x)
    BY DEF Owned
  <2> HIDE DEF k
  <2> QED BY <1>1, <1>2, <2>1, WorthMoves
<1>4. Worth(Moved(once, x, net)) = Worth(once) + net
  BY <1>1, <1>2, <1>3
<1> QED BY <1>1, <1>4 DEF once

LEMMA PaymentStep ==
    ASSUME HInv, NEW a \in Actions, Commit(a), act[a].kind = "pay_credit_card",
           act[a].with = None \/ Kind[act[a].with] = "cash"
    PROVE  Worth(balance') = Worth(balance)
<1> DEFINE p == act[a]
           card   == IF p.of # None THEN p.of ELSE p.account
           source == IF p.with # None THEN p.with ELSE DefaultAccount("cash")
<1>1. /\ p \in Payload /\ PayCard(p) # None /\ balance' = PayCard(p).balance
      /\ balance \in [Accounts -> Int]
  BY FreshCommit DEF Outcome, HInv, HTypes, HTypeOK, LedgerTypeOK
<1>2. /\ card # None /\ source # None /\ Kind[card] = "credit_card"
      /\ PayCard(p).balance = Moved(Moved(balance, card, -p.amount), source, -p.amount)
  BY <1>1 DEF PayCard, Seen
<1>3. card \in Accounts /\ source \in Accounts /\ Kind[source] = "cash" /\ p.amount \in Int
  BY <1>1, <1>2, PayloadFields, DefaultIsOfKind
<1> HIDE DEF card, source
<1> QED BY <1>1, <1>2, <1>3, CardPaymentIsEven

LEMMA SaleStep ==
    ASSUME HInv, NEW a \in Actions, Commit(a), act[a].kind = "sell_investment",
           Kind[act[a].with] = "cash", act[a].amount \in {0, price[act[a].of]},
           balance[act[a].of] = lots[act[a].of] * price[act[a].of]
    PROVE  Worth(balance') =
             Worth(balance) - Withheld(act[a].lots * (price[act[a].of] - Cost))
<1> DEFINE p == act[a]
           f == p.of
           at == price[f]
           n == p.lots
           gain == n * (at - Cost)
           tax == Withheld(gain)
           rest == (lots[f] - n) * at
           net == n * at - tax
<1>1. /\ p \in Payload /\ Sell(p) # None /\ balance' = Sell(p).balance
      /\ balance \in [Accounts -> Int] /\ lots \in [Funds -> Nat] /\ price \in [Funds -> Nat]
  BY FreshCommit DEF Outcome, HInv, HTypes, HTypeOK, LedgerTypeOK
<1>2. /\ f \in Funds /\ p.with \in Accounts /\ n \in Nat /\ Sellable(p) /\ p.amount \in Nat
  BY <1>1, PayloadFields DEF Sell, Sellable
<1>3. (IF p.amount > 0 THEN p.amount ELSE price[p.of]) = at
  BY <1>2
<1>4. Sell(p).balance = Moved([balance EXCEPT ![f] = rest], p.with, net)
  <2>1. Sell(p).balance =
          LET sold == IF p.amount > 0 THEN p.amount ELSE price[p.of]
          IN  Moved([balance EXCEPT ![p.of] = (lots[p.of] - p.lots) * sold], p.with,
                    p.lots * sold - Withheld(p.lots * (sold - Cost)))
    BY <1>2 DEF Sell, Seen
  <2> QED BY <1>3, <2>1, Zenon
<1>5. at \in Int /\ lots[f] \in Int /\ Cost \in Int /\ balance[f] = lots[f] * at
  BY <1>1, <1>2, HandlersAssumption
<1>6. f \in Accounts /\ Kind[f] = "investment"
  BY <1>2 DEF Funds
<1> HIDE DEF at
<1>7. gain \in Int
  BY <1>2, <1>5
<1>8. tax \in Int
  BY <1>7, WithheldIsInt
<1> HIDE DEF gain
<1> HIDE DEF tax
<1>9. rest \in Int /\ net \in Int /\ rest + net = balance[f] - tax
  BY <1>2, <1>5, <1>8
<1> HIDE DEF rest, net
<1>10. Worth(balance') = Worth(balance) - tax
  <2>1. /\ Worth(balance) \in Int
        /\ Worth(Moved([balance EXCEPT ![f] = rest], p.with, net)) = Worth(balance) - balance[f] + rest + net
    BY <1>1, <1>2, <1>6, <1>9, SaleIsSwap
  <2>2. balance[f] \in Int
    BY <1>5
  <2> HIDE DEF f, p
  <2>3. Worth(Moved([balance EXCEPT ![f] = rest], p.with, net)) = Worth(balance) - tax
    BY <1>8, <1>9, <2>1, <2>2
  <2>4. balance' = Moved([balance EXCEPT ![f] = rest], p.with, net)
    BY <1>1, <1>4
  <2> QED BY <2>3, <2>4
<1> QED BY <1>10 DEF tax, gain, at

-----------------------------------------------------------------------------
(* Checkpoints. *)

LEMMA ProtectedStep ==
    ASSUME HTypes, [HNext]_hVars, NEW c \in Checkpoints,
           cp[c] # None, cp[c].system \/ IsRedLine(cp[c])
    PROVE  cp'[c] # None /\ (cp'[c].system \/ IsRedLine(cp'[c]))
<1> DEFINE Kept == cp'[c] # None /\ (cp'[c].system \/ IsRedLine(cp'[c]))
<1>1. cp[c] \in Checkpoint /\ cp \in [Checkpoints -> Checkpoint \cup {None}]
  BY DEF HTypes, HTypeOK
<1>2. UNCHANGED cp => Kept
  OBVIOUS
<1>3. ASSUME NEW d \in Checkpoints, d # c, NEW row, cp' = [cp EXCEPT ![d] = row] PROVE Kept
  BY <1>1, <1>3
<1>4. ASSUME NEW row \in Checkpoint, cp' = [cp EXCEPT ![c] = row],
             row.system = cp[c].system, IsRedLine(cp[c]) => IsRedLine(row)
      PROVE  Kept
  BY <1>1, <1>4, NoneIsNoCheckpoint
<1>5. ASSUME NEW a \in Actions, Commit(a) PROVE Kept
  <2>1. UNCHANGED cp \/ \E d \in Checkpoints : cp[d] = None /\ cp' = [cp EXCEPT ![d] = NewCheckpoint]
    BY <1>5 DEF Commit
  <2> QED BY <1>2, <1>3, <2>1
<1>6. ASSUME NEW d \in Checkpoints, NEW new \in Drafts, CreateCheckpoint(d, new) PROVE Kept
  BY <1>3, <1>6 DEF CreateCheckpoint
<1>7. ASSUME NEW d \in Checkpoints, NEW new \in Drafts, UpdateCheckpoint(d, new) PROVE Kept
  <2> DEFINE row == [new EXCEPT !.system = cp[d].system]
  <2>1. cp' = [cp EXCEPT ![d] = row] /\ MayAmend(cp[d], new)
    BY <1>7 DEF UpdateCheckpoint
  <2>2. CASE d = c
    <3>1. /\ row \in Checkpoint /\ row.system = cp[c].system
          /\ row.priority = new.priority /\ row.type = new.type
      BY <1>1, <2>2, HandlersAssumption DEF Checkpoint
    <3>2. IsRedLine(cp[c]) => IsRedLine(row)
      BY <2>1, <2>2, <3>1 DEF MayAmend, IsRedLine
    <3> HIDE DEF row
    <3> QED BY <1>4, <2>1, <2>2, <3>1, <3>2
  <2>3. CASE d # c
    BY <1>3, <2>1, <2>3
  <2> QED BY <2>2, <2>3
<1>8. ASSUME NEW d \in Checkpoints, NEW hard \in BOOLEAN, DeleteCheckpoint(d, hard) PROVE Kept
  <2> DEFINE row == [cp[d] EXCEPT !.active = FALSE]
  <2>1. PICK left : /\ cp' = [cp EXCEPT ![d] = left] /\ (~hard => left = row)
                    /\ hard => ~cp[d].system /\ ~IsRedLine(cp[d])
    BY <1>8 DEF DeleteCheckpoint
  <2>2. CASE d = c
    <3>1. ~hard
      BY <2>1, <2>2
    <3>2. /\ row \in Checkpoint /\ row.system = cp[c].system
          /\ row.priority = cp[c].priority /\ row.type = cp[c].type
      BY <1>1, <2>2 DEF Checkpoint
    <3>3. IsRedLine(cp[c]) => IsRedLine(row)
      BY <3>2 DEF IsRedLine
    <3>4. left = row
      BY <2>1, <3>1
    <3> HIDE DEF row
    <3> QED BY <1>4, <2>1, <2>2, <3>2, <3>3, <3>4
  <2>3. CASE d # c
    BY <1>3, <2>1, <2>3
  <2> QED BY <2>2, <2>3
<1> HIDE DEF Kept
<1>9. Kept
  <2>1. CASE \E a \in Actions : (\E p \in Payloads : Propose(a, p)) \/ Check(a) \/ Load(a)
    <3>1. UNCHANGED cp
      BY <2>1 DEF Propose, Check, Load
    <3> QED BY <1>2, <3>1
  <2>2. CASE UNCHANGED hVars
    <3>1. UNCHANGED cp
      BY <2>2 DEF hVars
    <3> QED BY <1>2, <3>1
  <2> QED BY <1>5, <1>6, <1>7, <1>8, <2>1, <2>2 DEF HNext
<1> QED BY <1>9 DEF Kept

-----------------------------------------------------------------------------
(* Theorems. *)

\* Only its commit executes an action.
LEMMA FinishingCommits ==
    ASSUME HTypes, [HNext]_hVars, NEW a \in Actions, Finishing(a)
    PROVE  Commit(a)
<1>1. stage[a] = "ready" /\ stage'[a] = "executed" /\ stage \in [Actions -> Stages]
  BY DEF Finishing, HTypes, HTypeOK
<1>2. ~UNCHANGED stage
  BY <1>1
<1>3. \A b \in Actions, p \in Payloads : ~Propose(b, p)
  BY <1>1 DEF Propose
<1>4. \A b \in Actions : ~Check(b) /\ ~Load(b)
  BY <1>1 DEF Check, Load
<1>5. \A b \in Actions : Commit(b) => b = a
  BY <1>1 DEF Commit
<1> QED BY <1>2, <1>3, <1>4, <1>5
        DEF HNext, hVars, CreateCheckpoint, UpdateCheckpoint, DeleteCheckpoint

\* Whatever overlaps, lots, prices, rows and checkpoints keep their types: no more lots are
\* sold than there are, and no transaction has an amount that is not one
\* (action_executor.py:698-1127).
THEOREM BooksStayTyped == HSpec => []HTypeOK
<1>1. HTypes => HTypeOK
  BY DEF HTypes
<1> QED BY <1>1, TypesInit, TypesStep, PTL DEF HSpec

\* Approved one at a time, an expense without the card flag never takes the cash of the user
\* below a floor that is active, for any accounts, rules and amounts (user_rules.py:55-136).
THEOREM FloorsHold == ASSUME Alone PROVE HSpec => FloorKept
<1>1. HInv /\ [HNext]_hVars => HInv'
  BY HInvStep
<1>2. HInv /\ [HNext]_hVars =>
        [\A a \in Actions :
          Finishing(a) /\ act[a].kind = "add_transaction" /\ ~act[a].card /\ Cash(balance') < Cash(balance) =>
          \A c \in Active : IsFloor(cp[c].rule) => Cash(balance') >= cp[c].rule.amount
        ]_hVars
  <2> SUFFICES ASSUME HInv, [HNext]_hVars, NEW a \in Actions, Finishing(a),
                      act[a].kind = "add_transaction", ~act[a].card, Cash(balance') < Cash(balance),
                      NEW c \in Active, IsFloor(cp[c].rule)
               PROVE  Cash(balance') >= cp[c].rule.amount
    OBVIOUS
  <2>1. Commit(a)
    BY FinishingCommits DEF HInv
  <2> QED BY <2>1, FloorStep
<1> QED BY <1>1, <1>2, HInvInit, PTL DEF HSpec, FloorKept

\* Approved one at a time, what is owned stays accounted for: paying a card from cash and
\* selling lots at the price they are valued at move money and make or lose none but the tax
\* (action_executor.py:892-1060).
THEOREM WorthHolds == ASSUME Alone PROVE HSpec => WorthKept
<1>1. HInv /\ [HNext]_hVars => HInv'
  BY HInvStep
<1>2. HInv /\ [HNext]_hVars =>
        [\A a \in Actions : Finishing(a) =>
        LET p == act[a] IN
        /\ p.kind = "pay_credit_card" /\ (p.with = None \/ Kind[p.with] = "cash") =>
              Worth(balance') = Worth(balance)
        /\ /\ p.kind = "sell_investment" /\ Kind[p.with] = "cash"
           /\ p.amount \in {0, price[p.of]} /\ balance[p.of] = lots[p.of] * price[p.of]
           => Worth(balance') = Worth(balance) - Withheld(p.lots * (price[p.of] - Cost))
        ]_hVars
  <2> SUFFICES ASSUME HInv, [HNext]_hVars, NEW a \in Actions, Finishing(a)
               PROVE  LET p == act[a] IN
                      /\ p.kind = "pay_credit_card" /\ (p.with = None \/ Kind[p.with] = "cash") =>
                            Worth(balance') = Worth(balance)
                      /\ /\ p.kind = "sell_investment" /\ Kind[p.with] = "cash"
                         /\ p.amount \in {0, price[p.of]} /\ balance[p.of] = lots[p.of] * price[p.of]
                         => Worth(balance') = Worth(balance) - Withheld(p.lots * (price[p.of] - Cost))
    OBVIOUS
  <2>1. Commit(a)
    BY FinishingCommits DEF HInv
  <2> QED BY <2>1, PaymentStep, SaleStep
<1>3. HInv => HTypeOK
  BY DEF HInv, HTypes
<1> QED BY <1>1, <1>2, <1>3, HInvInit, PTL DEF HSpec, WorthKept, WorthIsConserved

\* In whatever order the panel amends and deletes, and whatever the coach adds meanwhile, a red
\* line of priority 1 and a checkpoint of the system stay (routers/checkpoints.py:146-226).
THEOREM CheckpointsStay == HSpec => ProtectedStay
<1>1. HTypes /\ [HNext]_hVars =>
        [\A c \in Checkpoints : cp[c] # None /\ (cp[c].system \/ IsRedLine(cp[c])) =>
          cp'[c] # None /\ (cp'[c].system \/ IsRedLine(cp'[c]))]_hVars
  BY ProtectedStep
<1> QED BY <1>1, TypesInit, TypesStep, PTL DEF HSpec, ProtectedStay
=============================================================================
