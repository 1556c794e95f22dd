-------------------------------- MODULE Goals --------------------------------
(***************************************************************************)
(* Goals, the transactions allocated to them and the rules that allocate   *)
(* by themselves.  app/routers/goals.py, app/goal_engine.py,               *)
(* app/goal_rules.py; transactions and balances are Ledger's.              *)
(*                                                                         *)
(* A goal keeps its amount, its progress (in hundredths of a per cent) and *)
(* its status as a cache, written by refresh_goal and by nothing else.     *)
(***************************************************************************)
EXTENDS Ledger

CONSTANTS
    Goals, GoalRules,  \* ids
    Shares,        \* amounts a user allocates by hand, negative to withdraw
    Targets,       \* target amounts
    RuleDrafts,    \* rules as they may be sent
    Clerks,        \* requests that allocate by hand
    Dialects       \* the databases, among "sqlite" and "postgresql"

GoalTypes == {"cash_target", "debt_freedom"}
Statuses  == {"active", "paused", "abandoned", "achieved"}
Degrees   == 0..10000  \* of progress: hundredths of a per cent

GoalRow == [type : GoalTypes, target : Targets, baseline : Nat, status : Statuses,
            current : Nat, progress : Degrees]

(* The criteria of a rule: the types of transaction, the kinds of account  *)
(* and the least amount it asks for.                                       *)
RuleRow == [goal : Goals, types : SUBSET Types, kinds : SUBSET Kinds, least : Nat,
            share : {"full", "percent", "fixed"}, value : Nat, active : BOOLEAN]

ASSUME GoalsAssumption ==
    /\ Shares \subseteq Int \ {0} /\ Targets \subseteq Nat \ {0}
    /\ RuleDrafts \subseteq RuleRow /\ GoalRules \subseteq Nat
    /\ Dialects \subseteq {"sqlite", "postgresql"}
    /\ IsFiniteSet(Goals) /\ IsFiniteSet(GoalRules)

VARIABLES
    goal,     \* the rows of goals; None where there is none
    rule,     \* the rows of goal_rules
    alloc,    \* alloc[g][t]: the amount of t allocated to g; 0 where there is no row
    ask,      \* the allocation a clerk has checked and not yet written
    dialect

goalVars == <<goal, rule, alloc, ask, dialect>>
gVars    == <<ledgerVars, goalVars>>

Ask == [goal : Goals, txn : Txns, amount : Shares]

ASSUME NoneIsNoGoal == None \notin GoalRow /\ None \notin RuleRow /\ None \notin Ask

GTypeOK ==
    /\ LedgerTypeOK
    /\ goal  \in [Goals -> GoalRow \cup {None}]
    /\ rule  \in [GoalRules -> RuleRow \cup {None}]
    /\ alloc \in [Goals -> [Txns -> Int]]
    /\ ask   \in [Clerks -> Ask \cup {None}]
    /\ dialect \in Dialects

GInit ==
    /\ LedgerInit([x \in Accounts |-> 0])
    /\ goal  = [g \in Goals |-> None]
    /\ rule  = [q \in GoalRules |-> None]
    /\ alloc = [g \in Goals |-> [t \in Txns |-> 0]]
    /\ ask   = [c \in Clerks |-> None]
    /\ dialect \in Dialects

\* With Alone a request waits for the one that runs.
GQuiet == Alone => MayBegin /\ \A c \in Clerks : ask[c] = None

-----------------------------------------------------------------------------
(* Progress. *)

\* Mutant: rounded up.
HundredthsUp(n, d) == (n * 10000 + d - 1) \div d

\* quantize(0.01): half to even.
Hundredths(n, d) ==
    LET q == (n * 10000) \div d
        r == 2 * ((n * 10000) % d)
    IN IF r > d \/ (r = d /\ q % 2 = 1) THEN q + 1 ELSE q

Positive(n) == IF n > 0 THEN n ELSE 0
AtMost(n, m) == IF n > m THEN m ELSE n

\* calculate_baseline_for_debt_freedom, and the debt of the day.
Debt(b) ==
    LET owed == [x \in Accounts |-> IF Kind[x] \in {"loan", "credit_card"} THEN Positive(b[x]) ELSE 0]
    IN SumFunctionOnSet(owed, Accounts)

Saved(a) == SumFunctionOnSet(a, Txns)

\* compute_progress.
Current(row, a, b) ==
    IF row.type = "cash_target" THEN Positive(Saved(a))
    ELSE IF row.baseline = 0 THEN 0 ELSE Positive(row.baseline - Debt(b))

Progress(row, a, b) ==
    LET whole == IF row.type = "cash_target" THEN row.target ELSE row.baseline
    IN IF whole = 0 THEN 0 ELSE Positive(AtMost(Hundredths(Current(row, a, b), whole), 10000))

\* refresh_goal: an active goal that is complete becomes achieved, for good.
Refreshed(row, a, b) ==
    [row EXCEPT !.current  = Current(row, a, b),
                !.progress = Progress(row, a, b),
                !.status   = IF @ = "active" /\ Progress(row, a, b) = 10000 THEN "achieved" ELSE @]

-----------------------------------------------------------------------------
(* Goals. *)

NoGoal == [t \in Txns |-> 0]

(* create_goal commits the row, then its first snapshot.                   *)
CreateGoal(g, type, target) ==
    /\ GQuiet /\ goal[g] = None
    /\ LET row == [type |-> type, target |-> target, status |-> "active", current |-> 0, progress |-> 0,
                   baseline |-> IF type = "debt_freedom" THEN Debt(balance) ELSE 0]
       IN goal' = [goal EXCEPT ![g] = Refreshed(row, alloc[g], balance)]
    /\ UNCHANGED <<ledgerVars, rule, alloc, ask, dialect>>

(* update_goal; a user may not declare a goal achieved.                    *)
UpdateGoal(g, target, status) ==
    /\ GQuiet /\ goal[g] # None
    /\ status \in {goal[g].status, "active", "paused", "abandoned"}
    /\ goal' = [goal EXCEPT ![g] =
          Refreshed([@ EXCEPT !.target = target, !.status = status], alloc[g], balance)]
    /\ UNCHANGED <<ledgerVars, rule, alloc, ask, dialect>>

RefreshGoal(g) ==
    /\ GQuiet /\ goal[g] # None
    /\ goal' = [goal EXCEPT ![g] = Refreshed(@, alloc[g], balance)]
    /\ UNCHANGED <<ledgerVars, rule, alloc, ask, dialect>>

(* delete_goal takes the goal's allocations and rules with it.             *)
DeleteGoal(g) ==
    /\ GQuiet /\ goal[g] # None
    /\ goal'  = [goal EXCEPT ![g] = None]
    /\ alloc' = [alloc EXCEPT ![g] = NoGoal]
    /\ rule'  = [q \in GoalRules |-> IF rule[q] # None /\ rule[q].goal = g THEN None ELSE rule[q]]
    /\ UNCHANGED <<ledgerVars, ask, dialect>>

-----------------------------------------------------------------------------
(* Allocating by hand. *)

Magnitude(n) == IF n < 0 THEN -n ELSE n
Allocated(a, t) == SumFunctionOnSet([g \in Goals |-> Magnitude(a[g][t])], Goals)

\* Mutant: a withdrawal frees what it withdraws.
FitsSigned(t, amount) == SumFunctionOnSet([g \in Goals |-> alloc[g][t]], Goals) + amount <= txn[t].amount

\* What all goals take of a transaction may not exceed it.
Fits(t, amount) == Magnitude(amount) + Allocated(alloc, t) <= txn[t].amount

(* create_allocation looks at goal, transaction and sum, ...               *)
CheckAllocation(c, g, t, amount) ==
    /\ GQuiet /\ ask[c] = None
    /\ goal[g] # None /\ txn[t] # None /\ Fits(t, amount)
    /\ ask' = [ask EXCEPT ![c] = [goal |-> g, txn |-> t, amount |-> amount]]
    /\ UNCHANGED <<ledgerVars, goal, rule, alloc, dialect>>

\* The insert needs both rows, and no row for the same two.
Insertable(g, t) == goal[g] # None /\ txn[t] # None /\ alloc[g][t] = 0

(* ... then inserts the row and refreshes the goal in one transaction; 409 *)
(* when the database refuses.                                              *)
WriteAllocation(c) ==
    LET k == ask[c] IN
    /\ k # None
    /\ ask' = [ask EXCEPT ![c] = None]
    /\ IF Insertable(k.goal, k.txn)
         THEN /\ alloc' = [alloc EXCEPT ![k.goal][k.txn] = k.amount]
              /\ goal'  = [goal EXCEPT ![k.goal] = Refreshed(@, alloc'[k.goal], balance)]
         ELSE UNCHANGED <<alloc, goal>>
    /\ UNCHANGED <<ledgerVars, rule, dialect>>

(* delete_allocation.                                                      *)
DeleteAllocation(g, t) ==
    /\ GQuiet /\ alloc[g][t] # 0
    /\ alloc' = [alloc EXCEPT ![g][t] = 0]
    /\ goal'  = [goal EXCEPT ![g] = Refreshed(@, alloc'[g], balance)]
    /\ UNCHANGED <<ledgerVars, rule, ask, dialect>>

-----------------------------------------------------------------------------
(* Rules. *)

PercentOK(row) == row.share = "percent" => row.value \in 1..100

CreateRule(q, row) ==
    /\ GQuiet /\ rule[q] = None /\ goal[row.goal] # None /\ PercentOK(row)
    /\ rule' = [rule EXCEPT ![q] = row]
    /\ UNCHANGED <<ledgerVars, goal, alloc, ask, dialect>>

(* update_rule: the bound of a percentage is only known when the kind of   *)
(* share is sent along.                                                    *)
UpdateRule(q, row) ==
    /\ GQuiet /\ rule[q] # None
    /\ \/ PercentOK(row) /\ rule' = [rule EXCEPT ![q] = [row EXCEPT !.goal = rule[q].goal]]
       \/ rule' = [rule EXCEPT ![q].value = row.value, ![q].active = row.active]
    /\ UNCHANGED <<ledgerVars, goal, alloc, ask, dialect>>

DeleteRule(q) ==
    /\ GQuiet /\ rule[q] # None
    /\ rule' = [rule EXCEPT ![q] = None]
    /\ UNCHANGED <<ledgerVars, goal, alloc, ask, dialect>>

\* _matches.
Matches(row, q) ==
    /\ row.type \in q.types /\ row.amount >= q.least
    /\ q.kinds # Kinds => row.account # None /\ Kind[row.account] \in q.kinds

\* _compute_allocation_amount: an expense is a withdrawal.
Share(row, q) ==
    LET part == CASE q.share = "full"    -> row.amount
                  [] q.share = "percent" -> (row.amount * q.value + 50) \div 100
                  [] q.share = "fixed"   -> q.value
    IN IF row.type = "expense" THEN -part ELSE part

\* The rules of active goals that match, and do not come to nothing.
Taking(row, g) ==
    {q \in GoalRules : /\ rule[q] # None /\ rule[q].goal = g /\ rule[q].active
                   /\ Matches(row, rule[q]) /\ Share(row, rule[q]) # 0}

\* evaluate_rules_for_transaction: of the rules of a goal the first one takes.
ByRules(t, g) ==
    IF /\ txn[t] # None /\ goal[g] # None /\ goal[g].status = "active"
       /\ alloc[g][t] = 0 /\ Taking(txn[t], g) # {}
      THEN Share(txn[t], rule[Min(Taking(txn[t], g))])
      ELSE alloc[g][t]

(* create_transaction evaluates the rules after its commit and commits     *)
(* nothing more.  On SQLite the end of a savepoint keeps each allocation;  *)
(* the refreshed goals are lost on both databases.                         *)
EvaluateRules(r) ==
    LET t == job[r].id IN
    /\ AnswerCreate(r)
    /\ alloc' = IF dialect = "sqlite"
                  THEN [g \in Goals |-> [alloc[g] EXCEPT ![t] = ByRules(t, g)]]
                  ELSE alloc
    /\ UNCHANGED <<goal, rule, ask, dialect>>

\* The allocations of a transaction go with it.
Cascade(a, t) == IF txn'[t] = None THEN [a EXCEPT ![t] = 0] ELSE a

(* Creating, amending and deleting transactions; no goal is refreshed.     *)
Book(r) ==
    /\ Alone => \A c \in Clerks : ask[c] = None
    /\ TxnStep(r, {TRUE})
    /\ alloc' = [g \in Goals |-> [t \in Txns |-> Cascade(alloc[g], t)[t]]]
    /\ UNCHANGED <<goal, rule, ask, dialect>>

GNext ==
    \/ \E r \in Requests : Book(r) \/ EvaluateRules(r)
    \/ \E g \in Goals :
          \/ \E target \in Targets :
                \/ \E type \in GoalTypes : CreateGoal(g, type, target)
                \/ \E status \in Statuses : UpdateGoal(g, target, status)
          \/ RefreshGoal(g) \/ DeleteGoal(g)
          \/ \E t \in Txns :
                \/ DeleteAllocation(g, t)
                \/ \E c \in Clerks, amount \in Shares : CheckAllocation(c, g, t, amount)
    \/ \E c \in Clerks : WriteAllocation(c)
    \/ \E q \in GoalRules :
          \/ \E row \in RuleDrafts : CreateRule(q, row) \/ UpdateRule(q, row)
          \/ DeleteRule(q)

GSpec == GInit /\ [][GNext]_gVars

-----------------------------------------------------------------------------

\* An allocation never outlives its goal or its transaction, whichever of them
\* is deleted and on whichever database.
AllocationsLive ==
    \A g \in Goals, t \in Txns : alloc[g][t] # 0 => goal[g] # None /\ txn[t] # None

\* The books under the goals hold: balances are explained by the rows, allocations live on both
\* their ends, and every variable keeps its type (transactions.py:328-526, models.py:1069-1105).
BooksHold == GTypeOK /\ BalancesExplained /\ AllocationsLive

\* What is allocated by hand leaves no transaction over-allocated, with the part
\* that rules took of it counted in (requests one at a time).
ManualFits ==
    [][\A c \in Clerks : ask[c] # None /\ alloc' # alloc /\ ask'[c] = None =>
          Allocated(alloc', ask[c].txn) <= txn[ask[c].txn].amount]_gVars

\* What a goal asks for has been contributed: the allocations come to its target, or
\* nothing is owed any more.
Reached(row, a, b) == IF row.type = "cash_target" THEN Saved(a) >= row.target ELSE Debt(b) = 0

\* A goal becomes achieved only when what it asks for has been contributed, at that moment and
\* not in some older cache ("gercek katki >= target ise", schemas.py:319-321).
AchievedIsReached ==
    [][\A g \in Goals :
          goal[g] # None /\ goal'[g] # None /\ goal[g].status # "achieved" /\ goal'[g].status = "achieved"
             => Reached(goal'[g], alloc'[g], balance')]_gVars

\* No goal asks for so much that half a hundredth of a per cent of it is worth mentioning.
SmallGoals == \A g \in Goals : goal[g] # None => goal[g].target < 20000 /\ goal[g].baseline < 20000
=============================================================================
