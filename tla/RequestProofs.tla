--------------------------- MODULE RequestProofs ---------------------------
(***************************************************************************)
(* What overlapping requests leave of two ledgers.  The components share   *)
(* no variable; their theorems rest on the same facts about data.          *)
(*                                                                         *)
(* The ledger of the model's uses: on SQLite, however many uses overlap    *)
(* and wherever workers die, no more uses pass the count of a day than the *)
(* ceiling allows.  On either database no two rows share an id, an         *)
(* answered use leaves a row for each call, and a refusal costs nothing    *)
(* and comes of a day that is full.                                        *)
(*                                                                         *)
(* The settlement of debts: requests served one at a time, on a database   *)
(* that enforces its foreign keys, leave every balance explained by what   *)
(* the user typed and by the debts settled on the account; for any number  *)
(* of debts and accounts.                                                  *)
(***************************************************************************)
EXTENDS LlmQuota, DebtSettlement, DataProofs, TLAPS

-----------------------------------------------------------------------------
(* The uses of the model and the rows they reserve. *)

\* The rows that count against the reservation w.
UpTo(w) == {v \in log : v.day = w.day /\ v.id <= w.id}

\* Each use knows its own row, and it is in the ledger from the count on.
OwnRows ==
    \A n \in Uses :
        /\ at[n] # "flushed"
        /\ mine[n] # Null => mine[n].of = n
        /\ at[n] \in {"reserved", "cancel"} => mine[n] \in log
        /\ admitted[n] # 0 => /\ mine[n] \in log
                              /\ at[n] \in {"call", "reconcile", "answered", "uncounted", "crashed"}

\* New rows come above the old ones, so the rank a use passed with never grows.
RanksStay ==
    \A n \in Uses :
        Ceiling # 0 /\ admitted[n] # 0 /\ mine[n].day = admitted[n]
            => Cardinality(UpTo(mine[n])) <= Ceiling

QInv == QTypeOK /\ IsFiniteSet(log) /\ OwnRows /\ RanksStay

-----------------------------------------------------------------------------

\* Rows put above the others leave the ranks of those as they were.
LEMMA RanksAbove ==
    ASSUME NEW L, NEW X, NEW w,
           \A v \in X : ~(v.id <= w.id)
    PROVE  {v \in L \cup X : v.day = w.day /\ v.id <= w.id}
             = {v \in L : v.day = w.day /\ v.id <= w.id}
  OBVIOUS

\* A use writes finitely many extra rows, each with an id of its own.
LEMMA ExtraRows ==
    ASSUME QTypeOK, NEW n \in Uses, NEW id \in Nat \ {0}
    PROVE  /\ Extra(n, id) \in SUBSET LogRow
           /\ IsFiniteSet(Extra(n, id))
           /\ \A v \in Extra(n, id) : v.id >= id /\ v.of = n
           /\ \A v, w \in Extra(n, id) : v.id = w.id => v = w
<1> DEFINE I == id..(id + calls[n] - 2)
           f == [i \in I |-> [id |-> i, of |-> n, day |-> day]]
<1>1. calls[n] \in Nat /\ day \in Days /\ I \subseteq Nat
  BY QuotaNumbers DEF QTypeOK
<1>2. Extra(n, id) = [id : I, of : {n}, day : {day}]
  BY DEF Extra
<1>3. IsFiniteSet(I)
  BY <1>1, FS_Interval
<1>4. f \in Surjection(I, Extra(n, id))
  <2>1. f \in [I -> Extra(n, id)]
    BY <1>2
  <2>2. \A v \in Extra(n, id) : \E i \in I : f[i] = v
    BY <1>2
  <2> QED BY <2>1, <2>2 DEF Surjection
<1>5. IsFiniteSet(Extra(n, id))
  BY <1>3, <1>4, FS_Surjection
<1>6. Extra(n, id) \in SUBSET LogRow
  BY <1>1, <1>2 DEF LogRow
<1>7. \A v \in Extra(n, id) : v.id >= id /\ v.of = n
  BY <1>1, <1>2
<1>8. \A v, w \in Extra(n, id) : v.id = w.id => v = w
  BY <1>2
<1> QED BY <1>5, <1>6, <1>7, <1>8

\* Initially nothing is written and nobody has passed.
LEMMA InvInit == ASSUME QInit PROVE QInv
<1>1. IsFiniteSet(log)
  BY FS_EmptySet DEF QInit
<1>2. QTypeOK
  BY QuotaNumbers DEF QInit, QTypeOK, Days, Places
<1>3. OwnRows /\ RanksStay
  BY DEF QInit, OwnRows, RanksStay
<1> QED BY <1>1, <1>2, <1>3 DEF QInv

\* The invariant says: at most Ceiling passed.  The ranks of those who passed
\* on a day are distinct numbers from 1 to Ceiling.
LEMMA InvWithinCeiling == ASSUME QInv PROVE WithinCeiling
<1> SUFFICES ASSUME Ceiling # 0, NEW d \in Days
             PROVE  Cardinality(AdmittedOn(d)) <= Ceiling
  BY DEF WithinCeiling
<1> DEFINE A == AdmittedOn(d)
           rank == [n \in A |-> Cardinality(UpTo(mine[n]))]
<1>1. ASSUME NEW n \in A
      PROVE  /\ mine[n] \in log /\ mine[n] \in LogRow /\ mine[n].of = n
             /\ mine[n] \in UpTo(mine[n])
             /\ mine[n].day = d
             /\ IsFiniteSet(UpTo(mine[n]))
             /\ Cardinality(UpTo(mine[n])) \in 1..Ceiling
  <2>1. n \in Uses /\ admitted[n] = d /\ mine[n] # Null /\ mine[n].day = d
    BY DEF AdmittedOn
  <2>2. admitted[n] # 0
    BY <2>1 DEF Days
  <2>3. mine[n] \in log /\ mine[n].of = n /\ Cardinality(UpTo(mine[n])) <= Ceiling
    BY <2>1, <2>2 DEF QInv, OwnRows, RanksStay
  <2>4. mine[n] \in LogRow /\ mine[n].id <= mine[n].id
    BY <2>3 DEF QInv, QTypeOK, LogRow
  <2>5. mine[n] \in UpTo(mine[n])
    BY <2>3, <2>4 DEF UpTo
  <2>6. IsFiniteSet(UpTo(mine[n]))
    BY FS_Subset DEF UpTo, QInv
  <2>7. Cardinality(UpTo(mine[n])) \in Nat /\ Cardinality(UpTo(mine[n])) # 0
    BY <2>5, <2>6, FS_EmptySet, FS_CardinalityType
  <2> QED BY <2>1, <2>3, <2>4, <2>5, <2>6, <2>7, QuotaNumbers
<1>2. ASSUME NEW m \in A, NEW n \in A, mine[m].id < mine[n].id
      PROVE  Cardinality(UpTo(mine[m])) # Cardinality(UpTo(mine[n]))
  <2>1. mine[m].id \in Nat /\ mine[n].id \in Nat /\ \A v \in log : v.id \in Nat
    BY <1>1 DEF LogRow, QInv, QTypeOK
  <2>2. UpTo(mine[m]) \in SUBSET UpTo(mine[n])
    <3> SUFFICES ASSUME NEW v \in log, v.day = mine[m].day, v.id <= mine[m].id
                 PROVE  v.day = mine[n].day /\ v.id <= mine[n].id
      BY DEF UpTo
    <3>1. mine[m].day = mine[n].day
      BY <1>1
    <3>2. v.id <= mine[n].id
      BY <1>2, <2>1
    <3> QED BY <3>1, <3>2
  <2>3. mine[n] \notin UpTo(mine[m])
    BY <1>2, <2>1 DEF UpTo
  <2> QED BY <1>1, <2>2, <2>3, FS_Subset
<1>3. ASSUME NEW m \in A, NEW n \in A, m # n
      PROVE  rank[m] # rank[n]
  <2>1. mine[m] # mine[n]
    BY <1>1, <1>3
  <2>2. mine[m].id # mine[n].id
    BY <1>1, <2>1 DEF QInv, QTypeOK
  <2>3. mine[m].id < mine[n].id \/ mine[n].id < mine[m].id
    BY <1>1, <2>2 DEF LogRow
  <2> QED BY <1>2, <2>3
<1>4. rank \in Injection(A, 1..Ceiling)
  BY <1>1, <1>3 DEF Injection, IsInjective
<1>5. IsFiniteSet(1..Ceiling) /\ Cardinality(1..Ceiling) = Ceiling
  BY QuotaNumbers, FS_Interval
<1> QED BY <1>4, <1>5, FS_Injection

-----------------------------------------------------------------------------

\* A step preserves the invariant, provided a new row is visible at once.
LEMMA InvStep ==
    ASSUME dialect = "sqlite", QInv, [QNext]_qvars
    PROVE  QInv'
<1> USE DEF Days
<1>0. QTypeOK /\ IsFiniteSet(log) /\ OwnRows /\ RanksStay
  BY DEF QInv
<1>1. \A v \in log : v \in LogRow /\ v.id \in Nat
  BY <1>0 DEF QTypeOK, LogRow
<1>2. ASSUME UNCHANGED <<log, mine, admitted>>, QTypeOK', OwnRows' PROVE QInv'
  BY <1>0, <1>2 DEF QInv, RanksStay, UpTo
<1>3. ASSUME NEW n \in Uses, PreCheck(n) PROVE QInv'
  <2>1. QTypeOK'
    BY <1>0, <1>3 DEF PreCheck, QTypeOK, logIds, Places
  <2>2. OwnRows'
    BY <1>0, <1>3 DEF PreCheck, OwnRows, QTypeOK, logIds
  <2> QED BY <1>2, <1>3, <2>1, <2>2 DEF PreCheck, logIds
<1>4. ASSUME NEW n \in Uses, NEW w \in Workers, TakeSlot(n, w) PROVE QInv'
  <2>1. QTypeOK'
    BY <1>0, <1>4 DEF TakeSlot, QTypeOK, logIds, Places
  <2>2. OwnRows'
    BY <1>0, <1>4 DEF TakeSlot, OwnRows, QTypeOK, logIds
  <2> QED BY <1>2, <1>4, <2>1, <2>2 DEF TakeSlot, logIds
<1>5. ASSUME NEW n \in Uses, Reserve(n) PROVE QInv'
  <2> PICK id \in FreshIds : Reserve(n)!(id)
    BY <1>5 DEF Reserve
  <2> DEFINE row == [id |-> id, of |-> n, day |-> day]
  <2>1. /\ id \in Nat \ {0} /\ \A w \in log : w.id < id
        /\ row \in LogRow /\ row \notin log /\ row # Null
    <3>1. id \in Nat \ {0} /\ \A w \in log : w.id < id
      BY <1>0 DEF FreshIds, QTypeOK
    <3>2. row \in LogRow
      BY <3>1, <1>0 DEF QTypeOK, LogRow
    <3>3. row \notin log
      BY <3>1
    <3> QED BY <3>1, <3>2, <3>3, NullIsNoRow DEF LogRow
  <2>2. /\ at[n] = "ready" /\ at' = [at EXCEPT ![n] = "reserved"]
        /\ mine' = [mine EXCEPT ![n] = row] /\ log' = log \cup {row}
        /\ highId' = (IF id > highId THEN id ELSE highId)
        /\ UNCHANGED <<day, home, calls, admitted, refused>>
    BY <1>5
  <2>3. IsFiniteSet(log')
    BY <1>0, <2>2, FS_AddElement
  <2>4. QTypeOK'
    <3>1. log' \in SUBSET LogRow /\ \A v, w \in log' : v.id = w.id => v = w
      BY <1>0, <1>1, <2>1, <2>2 DEF QTypeOK
    <3>2. highId' \in Nat
      BY <1>0, <2>1, <2>2 DEF QTypeOK
    <3> QED BY <1>0, <2>1, <2>2, <3>1, <3>2 DEF QTypeOK, Places
  <2>5. admitted[n] = 0
    BY <1>0, <2>2 DEF OwnRows
  <2>6. OwnRows'
    BY <1>0, <2>1, <2>2, <2>5 DEF OwnRows, QTypeOK
  <2>7. RanksStay'
    <3> SUFFICES ASSUME NEW m \in Uses, Ceiling # 0, admitted[m] # 0, mine'[m].day = admitted[m]
                 PROVE  Cardinality(UpTo(mine[m])') <= Ceiling
      BY <1>0, <2>2, <2>5 DEF RanksStay, QTypeOK
    <3>1. m # n /\ mine'[m] = mine[m] /\ mine[m] \in log
      BY <1>0, <2>2, <2>5 DEF OwnRows, QTypeOK
    <3>2. \A v \in {row} : ~(v.id <= mine[m].id)
      BY <1>1, <2>1, <3>1
    <3>3. UpTo(mine[m])' = UpTo(mine[m])
      BY <2>2, <3>1, <3>2, RanksAbove DEF UpTo
    <3> QED BY <1>0, <3>1, <3>3 DEF RanksStay
  <2> QED BY <2>3, <2>4, <2>6, <2>7 DEF QInv
<1>6. ASSUME NEW n \in Uses, CommitRow(n) PROVE QInv'
  BY <1>0, <1>6 DEF CommitRow, OwnRows
<1>7. ASSUME NEW n \in Uses, FailToReserve(n) PROVE QInv'
  <2>1. at[n] = "ready" /\ admitted[n] = 0
    BY <1>0, <1>7 DEF FailToReserve, OwnRows
  <2>2. QTypeOK'
    BY <1>0, <1>7 DEF FailToReserve, QTypeOK, logIds, Places
  <2>3. OwnRows'
    BY <1>0, <1>7, <2>1 DEF FailToReserve, OwnRows, QTypeOK, logIds
  <2>4. RanksStay'
    BY <1>0, <1>7, <2>1 DEF FailToReserve, RanksStay, QTypeOK, logIds, UpTo
  <2> QED BY <1>0, <1>7, <2>2, <2>3, <2>4 DEF QInv, FailToReserve, logIds
<1>8. ASSUME NEW n \in Uses, Count(n) PROVE QInv'
  <2>1. QTypeOK'
    BY <1>0, <1>8 DEF Count, QTypeOK, logIds, Places
  <2>2. OwnRows'
    BY <1>0, <1>8 DEF Count, OwnRows, QTypeOK, logIds
  <2>3. mine[n] \in log
    BY <1>0, <1>8 DEF Count, OwnRows
  <2>4. mine[n].day = day => {w \in Today : w.id <= mine[n].id} = UpTo(mine[n])
    BY DEF Today, UpTo
  <2>5. IsFiniteSet(UpTo(mine[n])) /\ Cardinality(UpTo(mine[n])) \in Nat
    BY <1>0, FS_Subset, FS_CardinalityType DEF UpTo
  <2>6. ASSUME Ceiling # 0, admitted'[n] # 0, mine[n].day = admitted'[n]
        PROVE  Cardinality(UpTo(mine[n])) <= Ceiling
    <3>1. CASE Rank(n) > Ceiling
      <4>1. admitted'[n] = admitted[n]
        BY <1>8, <2>6, <3>1 DEF Count
      <4> QED BY <1>0, <2>6, <4>1 DEF RanksStay
    <3>2. CASE ~(Rank(n) > Ceiling)
      <4>1. admitted'[n] = day
        BY <1>0, <1>8, <2>6, <3>2 DEF Count, QTypeOK
      <4>2. Rank(n) = Cardinality(UpTo(mine[n]))
        BY <2>4, <2>6, <4>1 DEF Rank
      <4> QED BY <2>5, <3>2, <4>2, QuotaNumbers
    <3> QED BY <3>1, <3>2
  <2>7. \A m \in Uses \ {n} : admitted'[m] = admitted[m]
    BY <1>0, <1>8 DEF Count, QTypeOK
  <2>8. RanksStay'
    BY <1>0, <1>8, <2>6, <2>7 DEF Count, RanksStay, UpTo, logIds
  <2> QED BY <1>0, <1>8, <2>1, <2>2, <2>8 DEF QInv, Count, logIds
<1>9. ASSUME NEW n \in Uses, Cancel(n) PROVE QInv'
  <2>1. log' \in SUBSET log /\ \A w \in log \ log' : w = mine[n]
    BY <1>9 DEF Cancel, WithoutRow
  <2>2. QTypeOK'
    BY <1>0, <1>9, <2>1 DEF Cancel, QTypeOK, Places
  <2>3. IsFiniteSet(log')
    BY <1>0, <2>1, FS_Subset
  <2>4. mine[n] \in log /\ mine[n].of = n /\ admitted[n] = 0
    BY <1>0, <1>9, <1>1, NullIsNoRow DEF Cancel, OwnRows, LogRow
  <2>5. \A m \in Uses \ {n} : mine[m] \in log => mine[m] \in log'
    BY <1>0, <1>1, <2>1, <2>4, NullIsNoRow DEF OwnRows, LogRow
  <2>6. OwnRows'
    BY <1>0, <1>9, <2>4, <2>5 DEF Cancel, OwnRows, QTypeOK
  <2>7. RanksStay'
    <3> SUFFICES ASSUME NEW m \in Uses, Ceiling # 0, admitted[m] # 0, mine[m].day = admitted[m]
                 PROVE  Cardinality(UpTo(mine[m])') <= Ceiling
      BY <1>9 DEF RanksStay, Cancel
    <3>1. UpTo(mine[m])' \in SUBSET UpTo(mine[m]) /\ UpTo(mine[m]) \in SUBSET log
      BY <1>9, <2>1 DEF UpTo, Cancel
    <3>2. /\ IsFiniteSet(UpTo(mine[m])) /\ IsFiniteSet(UpTo(mine[m])')
          /\ Cardinality(UpTo(mine[m])') <= Cardinality(UpTo(mine[m]))
      BY <1>0, <3>1, FS_Subset
    <3>3. Cardinality(UpTo(mine[m])) <= Ceiling
      BY <1>0 DEF RanksStay
    <3> QED BY <3>2, <3>3, FS_CardinalityType, QuotaNumbers
  <2> QED BY <2>2, <2>3, <2>6, <2>7 DEF QInv
<1>10. ASSUME NEW n \in Uses, Call(n) PROVE QInv'
  <2>1. QTypeOK'
    BY <1>0, <1>10 DEF Call, QTypeOK, logIds, Places
  <2>2. OwnRows'
    BY <1>0, <1>10 DEF Call, OwnRows, QTypeOK, logIds
  <2> QED BY <1>2, <1>10, <2>1, <2>2 DEF Call, logIds
<1>11. ASSUME NEW n \in Uses, Reconcile(n) PROVE QInv'
  <2>1. CASE UNCHANGED logIds
    <3>1. QTypeOK'
      BY <1>0, <1>11, <2>1 DEF Reconcile, QTypeOK, logIds, Places
    <3>2. OwnRows'
      BY <1>0, <1>11, <2>1 DEF Reconcile, OwnRows, QTypeOK, logIds
    <3> QED BY <1>2, <1>11, <2>1, <3>1, <3>2 DEF Reconcile, logIds
  <2>2. CASE ~ UNCHANGED logIds
    <3>1. PICK id \in FreshIds :
             /\ log' = log \cup Extra(n, id)
             /\ highId' = IF calls[n] < 2 \/ id + calls[n] - 2 < highId
                            THEN highId ELSE id + calls[n] - 2
      BY <1>11, <2>2 DEF Reconcile
    <3>2. id \in Nat \ {0} /\ \A w \in log : w.id < id
      BY <1>0 DEF FreshIds, QTypeOK
    <3>3. /\ Extra(n, id) \in SUBSET LogRow
          /\ IsFiniteSet(Extra(n, id))
          /\ \A v \in Extra(n, id) : v.id >= id
          /\ \A v, w \in Extra(n, id) : v.id = w.id => v = w
      BY <1>0, <3>2, ExtraRows
    <3>4. \A v \in Extra(n, id) : v.id \in Nat
      BY <3>3 DEF LogRow
    <3>5. \A v, w \in log' : v.id = w.id => v = w
      <4>1. \A v \in log, w \in Extra(n, id) : v.id # w.id
        BY <1>1, <3>2, <3>3, <3>4
      <4> QED BY <1>0, <3>1, <3>3, <4>1 DEF QTypeOK
    <3>6. highId' \in Nat
      BY <1>0, <3>1, <3>2 DEF QTypeOK
    <3>7. QTypeOK'
      BY <1>0, <1>11, <3>1, <3>3, <3>5, <3>6 DEF Reconcile, QTypeOK, Places
    <3>8. IsFiniteSet(log')
      BY <1>0, <3>1, <3>3, FS_Union
    <3>9. OwnRows'
      BY <1>0, <1>11, <3>1 DEF Reconcile, OwnRows, QTypeOK
    <3>10. RanksStay'
      <4> SUFFICES ASSUME NEW m \in Uses, Ceiling # 0, admitted[m] # 0, mine[m].day = admitted[m]
                   PROVE  Cardinality(UpTo(mine[m])') <= Ceiling
        BY <1>11 DEF RanksStay, Reconcile
      <4>1. mine[m] \in log
        BY <1>0 DEF OwnRows
      <4>2. \A v \in Extra(n, id) : ~(v.id <= mine[m].id)
        BY <1>1, <3>2, <3>3, <3>4, <4>1
      <4>3. UpTo(mine[m])' = UpTo(mine[m])
        BY <1>11, <3>1, <4>2, RanksAbove DEF UpTo, Reconcile
      <4> QED BY <1>0, <4>3 DEF RanksStay
    <3> QED BY <3>7, <3>8, <3>9, <3>10 DEF QInv
  <2> QED BY <2>1, <2>2
<1>12. ASSUME NEW w \in Workers, CrashWorker(w) PROVE QInv'
  <2>1. QTypeOK'
    BY <1>0, <1>12 DEF CrashWorker, QTypeOK, logIds, Places
  <2>2. \A n \in Uses : mine[n] \in log => mine'[n] = mine[n]
    BY <1>12 DEF CrashWorker
  <2>3. OwnRows'
    BY <1>0, <1>12 DEF CrashWorker, OwnRows, QTypeOK, logIds, Serving
  <2>4. RanksStay'
    BY <1>0, <1>12, <2>2 DEF CrashWorker, OwnRows, RanksStay, UpTo, logIds
  <2> QED BY <1>0, <1>12, <2>1, <2>3, <2>4 DEF QInv, CrashWorker, logIds
<1>13. CASE Midnight
  <2>1. QTypeOK'
    BY <1>0, <1>13, QuotaNumbers DEF Midnight, QTypeOK, logIds, use
  <2>2. OwnRows'
    BY <1>0, <1>13 DEF Midnight, OwnRows, logIds, use
  <2> QED BY <1>2, <1>13, <2>1, <2>2 DEF Midnight, logIds, use
<1>14. CASE UNCHANGED qvars
  <2>1. QTypeOK' /\ OwnRows'
    BY <1>0, <1>14 DEF qvars, logIds, use, QTypeOK, OwnRows
  <2> QED BY <1>2, <1>14, <2>1 DEF qvars, logIds, use
<1> QED BY <1>3, <1>4, <1>5, <1>6, <1>7, <1>8, <1>9, <1>10, <1>11, <1>12, <1>13, <1>14 DEF QNext

\* The database stays what it is.
LEMMA SameDialect == [QNext]_qvars => dialect' = dialect
BY DEF QNext, qvars, PreCheck, TakeSlot, Reserve, CommitRow, FailToReserve, Count, Cancel,
       Call, Reconcile, CrashWorker, Midnight

\* On SQLite the ceiling is not pierced, for any number of uses, workers, slots
\* and days, with failing writes and dying workers (rezerve_et, BUG #212).
THEOREM QuotaHolds == QSpec => []ReservationsWithinCeiling
<1> DEFINE Inv == dialect = "sqlite" => QInv
<1>1. QInit => Inv
  BY InvInit
<1>2. Inv /\ [QNext]_qvars => Inv'
  BY InvStep, SameDialect
<1>3. Inv => ReservationsWithinCeiling
  BY InvWithinCeiling DEF ReservationsWithinCeiling
<1> QED BY <1>1, <1>2, <1>3, PTL DEF QSpec

-----------------------------------------------------------------------------
(* The ledger is well-formed on either database. *)

\* No id is above the last one given, and those of rows that are flushed but
\* not yet visible belong to no other row.  SQLite has no such rows, and may
\* therefore give an id below the last one.
IdsApart ==
    /\ \A w \in log : w.id <= highId
    /\ \A n \in Uses : at[n] = "flushed" =>
          /\ dialect = "postgresql"
          /\ mine[n] \in LogRow /\ mine[n].id <= highId
          /\ \A w \in log : w.id # mine[n].id
          /\ \A m \in Uses \ {n} : at[m] = "flushed" => mine[m].id # mine[n].id

TInv == QTypeOK /\ IdsApart

\* Each step leaves the ids apart.
LEMMA UsesStep == TInv /\ [QNext]_qvars => TInv'
<1> SUFFICES ASSUME TInv, [QNext]_qvars PROVE TInv'
  OBVIOUS
<1> USE DEF Days
<1>0. /\ QTypeOK /\ IdsApart
      /\ \A v \in log : v \in LogRow /\ v.id \in Nat
      /\ highId \in Nat
  BY DEF TInv, QTypeOK, LogRow
<1>1. ASSUME UNCHANGED <<dialect, logIds, mine>>, QTypeOK',
             \A n \in Uses : at'[n] = "flushed" => at[n] = "flushed"
      PROVE  TInv'
  BY <1>0, <1>1 DEF TInv, IdsApart, logIds
<1>2. ASSUME NEW n \in Uses, PreCheck(n) PROVE TInv'
  <2>1. QTypeOK'
    BY <1>0, <1>2 DEF PreCheck, QTypeOK, logIds, Places
  <2>2. \A m \in Uses : at'[m] = "flushed" => at[m] = "flushed"
    BY <1>0, <1>2 DEF PreCheck, QTypeOK
  <2> QED BY <1>1, <1>2, <2>1, <2>2 DEF PreCheck
<1>3. ASSUME NEW n \in Uses, NEW w \in Workers, TakeSlot(n, w) PROVE TInv'
  <2>1. QTypeOK'
    BY <1>0, <1>3 DEF TakeSlot, QTypeOK, logIds, Places
  <2>2. \A m \in Uses : at'[m] = "flushed" => at[m] = "flushed"
    BY <1>0, <1>3 DEF TakeSlot, QTypeOK
  <2> QED BY <1>1, <1>3, <2>1, <2>2 DEF TakeSlot
<1>4. ASSUME NEW n \in Uses, Reserve(n) PROVE TInv'
  <2> PICK id \in FreshIds : Reserve(n)!(id)
    BY <1>4 DEF Reserve
  <2> DEFINE row == [id |-> id, of |-> n, day |-> day]
  <2>1. /\ id \in Nat
        /\ dialect = "sqlite" => \A w \in log : w.id < id
        /\ dialect # "sqlite" => id > highId
    BY <1>0 DEF FreshIds
  <2>2. \A w \in log : w.id # id
    BY <1>0, <2>1 DEF IdsApart
  <2>3. row \in LogRow /\ dialect \in {"sqlite", "postgresql"}
    BY <1>0, <2>1, QuotaFlags DEF QTypeOK, LogRow
  <2>4. highId' \in Nat /\ id <= highId' /\ highId <= highId'
    BY <1>0, <2>1
  <2>5. QTypeOK'
    <3>1. log' \in SUBSET LogRow /\ \A v, w \in log' : v.id = w.id => v = w
      BY <1>0, <2>2, <2>3 DEF QTypeOK
    <3> QED BY <1>0, <2>3, <2>4, <3>1 DEF QTypeOK, Places
  <2>6. \A w \in log' : w.id <= highId'
    BY <1>0, <2>1, <2>4 DEF IdsApart
  <2>7. CASE dialect = "sqlite"
    <3>1. \A m \in Uses : at'[m] # "flushed"
      BY <1>0, <2>7 DEF IdsApart, QTypeOK
    <3> QED BY <2>5, <2>6, <3>1 DEF TInv, IdsApart
  <2>8. CASE dialect = "postgresql"
    <3>1. log' = log /\ mine'[n] = row /\ id > highId
      BY <1>0, <2>1, <2>8 DEF QTypeOK
    <3>2. \A m \in Uses \ {n} :
             /\ mine'[m] = mine[m] /\ at'[m] = at[m]
             /\ at[m] = "flushed" => /\ mine[m] \in LogRow /\ mine[m].id \in Nat
                                     /\ mine[m].id <= highId
      BY <1>0 DEF QTypeOK, IdsApart, LogRow
    <3>3. \A m \in Uses \ {n} :
             at[m] = "flushed" => mine[m].id # id /\ mine[m].id <= highId'
      BY <1>0, <2>1, <2>4, <3>1, <3>2
    <3>4. dialect' = "postgresql"
      BY <2>8
    <3> QED BY <1>0, <2>2, <2>3, <2>4, <2>5, <2>6, <3>1, <3>2, <3>3, <3>4 DEF TInv, IdsApart
  <2> QED BY <2>3, <2>7, <2>8
<1>5. ASSUME NEW n \in Uses, CommitRow(n) PROVE TInv'
  <2>1. /\ mine[n] \in LogRow /\ mine[n].id <= highId
        /\ \A w \in log : w.id # mine[n].id
    BY <1>0, <1>5 DEF CommitRow, IdsApart
  <2>2. QTypeOK'
    BY <1>0, <1>5, <2>1 DEF CommitRow, QTypeOK, Places
  <2>3. \A m \in Uses : at'[m] = "flushed" => m # n /\ at[m] = "flushed"
    BY <1>0, <1>5 DEF CommitRow, QTypeOK
  <2> QED BY <1>0, <1>5, <2>1, <2>2, <2>3 DEF TInv, IdsApart, CommitRow
<1>6. ASSUME NEW n \in Uses, FailToReserve(n) PROVE TInv'
  <2>1. QTypeOK'
    BY <1>0, <1>6 DEF FailToReserve, QTypeOK, logIds, Places
  <2>2. \A m \in Uses : at'[m] = "flushed" => m # n /\ at[m] = "flushed" /\ mine'[m] = mine[m]
    BY <1>0, <1>6 DEF FailToReserve, QTypeOK
  <2> QED BY <1>0, <1>6, <2>1, <2>2 DEF TInv, IdsApart, FailToReserve, logIds
<1>7. ASSUME NEW n \in Uses, Count(n) PROVE TInv'
  <2>1. QTypeOK'
    BY <1>0, <1>7 DEF Count, QTypeOK, logIds, Places
  <2>2. \A m \in Uses : at'[m] = "flushed" => at[m] = "flushed"
    BY <1>0, <1>7 DEF Count, QTypeOK
  <2> QED BY <1>1, <1>7, <2>1, <2>2 DEF Count
<1>8. ASSUME NEW n \in Uses, Cancel(n) PROVE TInv'
  <2>1. log' \in SUBSET log
    BY <1>8 DEF Cancel, WithoutRow
  <2>2. QTypeOK'
    BY <1>0, <1>8, <2>1 DEF Cancel, QTypeOK, Places
  <2>3. \A m \in Uses : at'[m] = "flushed" => at[m] = "flushed"
    BY <1>0, <1>8 DEF Cancel, QTypeOK
  <2> QED BY <1>0, <1>8, <2>1, <2>2, <2>3 DEF TInv, IdsApart, Cancel
<1>9. ASSUME NEW n \in Uses, Call(n) PROVE TInv'
  <2>1. QTypeOK'
    BY <1>0, <1>9 DEF Call, QTypeOK, logIds, Places
  <2>2. \A m \in Uses : at'[m] = "flushed" => at[m] = "flushed"
    BY <1>0, <1>9 DEF Call, QTypeOK
  <2> QED BY <1>1, <1>9, <2>1, <2>2 DEF Call
<1>10. ASSUME NEW n \in Uses, Reconcile(n) PROVE TInv'
  <2>0. \A m \in Uses : at'[m] = "flushed" => at[m] = "flushed"
    BY <1>0, <1>10 DEF Reconcile, QTypeOK
  <2>1. CASE UNCHANGED logIds
    <3>1. QTypeOK'
      BY <1>0, <1>10, <2>1 DEF Reconcile, QTypeOK, logIds, Places
    <3> QED BY <1>1, <1>10, <2>0, <2>1, <3>1 DEF Reconcile
  <2>2. CASE ~ UNCHANGED logIds
    <3>1. PICK id \in FreshIds :
             /\ log' = log \cup Extra(n, id)
             /\ highId' = IF calls[n] < 2 \/ id + calls[n] - 2 < highId
                            THEN highId ELSE id + calls[n] - 2
      BY <1>10, <2>2 DEF Reconcile
    <3>2. /\ id \in Nat \ {0} /\ calls[n] \in Nat
          /\ dialect = "sqlite" => \A w \in log : w.id < id
          /\ dialect # "sqlite" => id > highId
      BY <1>0, QuotaNumbers DEF FreshIds, QTypeOK
    <3>3. /\ Extra(n, id) \in SUBSET LogRow
          /\ \A v \in Extra(n, id) : v.id >= id
          /\ \A v, w \in Extra(n, id) : v.id = w.id => v = w
      BY <1>0, <3>2, ExtraRows
    <3>4. \A v \in Extra(n, id) : v.id \in Nat /\ v.id <= id + calls[n] - 2
      BY <3>2 DEF Extra
    <3>5. highId' \in Nat /\ highId <= highId' /\ \A v \in Extra(n, id) : v.id <= highId'
      <4>1. CASE calls[n] < 2
        <5>1. Extra(n, id) = {}
          BY <3>2, <4>1 DEF Extra
        <5> QED BY <1>0, <3>1, <4>1, <5>1
      <4>2. CASE ~(calls[n] < 2)
        BY <1>0, <3>1, <3>2, <3>4, <4>2
      <4> QED BY <4>1, <4>2
    <3>6. \A v \in log, w \in Extra(n, id) : v.id # w.id
      BY <1>0, <3>2, <3>3, <3>4 DEF IdsApart
    <3>7. QTypeOK'
      <4>1. \A v, w \in log' : v.id = w.id => v = w
        BY <1>0, <3>1, <3>3, <3>6 DEF QTypeOK
      <4> QED BY <1>0, <1>10, <3>1, <3>3, <3>5, <4>1 DEF Reconcile, QTypeOK, Places
    <3>8. \A w \in log' : w.id <= highId'
      BY <1>0, <3>1, <3>5 DEF IdsApart
    <3>9. ASSUME NEW m \in Uses, at[m] = "flushed"
          PROVE  /\ mine[m] \in LogRow /\ mine[m].id <= highId'
                 /\ \A w \in log' : w.id # mine[m].id
      <4>1. /\ dialect = "postgresql" /\ mine[m] \in LogRow /\ mine[m].id <= highId
            /\ \A w \in log : w.id # mine[m].id
        BY <1>0, <3>9 DEF IdsApart
      <4>2. mine[m].id \in Nat
        BY <4>1 DEF LogRow
      <4>3. \A w \in Extra(n, id) : w.id # mine[m].id
        BY <1>0, <3>2, <3>3, <3>4, <4>1, <4>2
      <4> QED BY <1>0, <3>1, <3>5, <4>1, <4>2, <4>3
    <3>10. IdsApart'
      BY <1>0, <1>10, <2>0, <3>8, <3>9 DEF IdsApart, Reconcile
    <3> QED BY <3>7, <3>10 DEF TInv
  <2> QED BY <2>1, <2>2
<1>11. ASSUME NEW w \in Workers, CrashWorker(w) PROVE TInv'
  <2>1. QTypeOK'
    BY <1>0, <1>11 DEF CrashWorker, QTypeOK, logIds, Places
  <2>2. \A m \in Uses : at'[m] = "flushed" => at[m] = "flushed" /\ mine'[m] = mine[m]
    BY <1>0, <1>11 DEF CrashWorker, QTypeOK
  <2> QED BY <1>0, <1>11, <2>1, <2>2 DEF TInv, IdsApart, CrashWorker, logIds
<1>12. CASE Midnight
  <2>1. QTypeOK'
    BY <1>0, <1>12, QuotaNumbers DEF Midnight, QTypeOK, logIds, use
  <2> QED BY <1>1, <1>12, <2>1 DEF Midnight, use
<1>13. CASE UNCHANGED qvars
  <2>1. QTypeOK'
    BY <1>0, <1>13 DEF qvars, logIds, use, QTypeOK
  <2> QED BY <1>1, <1>13, <2>1 DEF qvars, use
<1> QED BY <1>2, <1>3, <1>4, <1>5, <1>6, <1>7, <1>8, <1>9, <1>10, <1>11, <1>12, <1>13 DEF QNext

\* On either database every variable keeps its type and no two rows of the
\* ledger share an id, although SQLite gives ids out again.
THEOREM QuotaTypes == QSpec => []QTypeOK
<1>1. QInit => TInv
  <2>1. QInit => QTypeOK
    BY InvInit DEF QInv
  <2> QED BY <2>1 DEF TInv, IdsApart, QInit
<1>2. TInv => QTypeOK
  BY DEF TInv
<1> QED BY <1>1, <1>2, UsesStep, PTL DEF QSpec
-----------------------------------------------------------------------------
(* Being refused costs nothing, and an answer leaves a row for each call. *)

\* What each use has in the ledger: nothing before its reservation is
\* committed and after it is taken back, the reservation alone until it is
\* reconciled, and then a row for each call, and one when there was none.
RowsKept ==
    \A n \in Uses :
        /\ at[n] \in {"idle", "checked", "ready", "flushed", "refused", "busy", "failed"}
              => RowsOf(n) = {}
        /\ at[n] = "flushed" => mine[n].of = n
        /\ at[n] \in {"reserved", "cancel", "call", "reconcile"} => RowsOf(n) = {mine[n]}
        /\ at[n] = "answered" => Cardinality(RowsOf(n)) = Max({1, calls[n]})

RInv == TInv /\ IsFiniteSet(log) /\ RowsKept

LEMMA GreaterOfTwo ==
    ASSUME NEW k \in Nat
    PROVE  Max({1, k}) = IF k > 1 THEN k ELSE 1
<1> DEFINE m == IF k > 1 THEN k ELSE 1
<1>1. m \in {1, k} /\ \A y \in {1, k} : m >= y
  OBVIOUS
<1>2. \A x \in {1, k} : (\A y \in {1, k} : x >= y) => x = m
  OBVIOUS
<1> QED BY <1>1, <1>2 DEF Max

\* A reconciled use adds a row for each call beyond the first.
LEMMA ExtraCount ==
    ASSUME QTypeOK, NEW n \in Uses, NEW id \in Nat \ {0}
    PROVE  Cardinality(Extra(n, id)) = IF calls[n] > 1 THEN calls[n] - 1 ELSE 0
<1> DEFINE I == id..(id + calls[n] - 2)
           f == [i \in I |-> [id |-> i, of |-> n, day |-> day]]
<1>1. calls[n] \in Nat
  BY QuotaNumbers DEF QTypeOK
<1>2. Extra(n, id) = [id : I, of : {n}, day : {day}]
  BY DEF Extra
<1>3. IsFiniteSet(I) /\ Cardinality(I) = IF calls[n] > 1 THEN calls[n] - 1 ELSE 0
  <2>1. id \in Int /\ id + calls[n] - 2 \in Int
    BY <1>1
  <2>2. /\ IsFiniteSet(I)
        /\ Cardinality(I) = IF id > id + calls[n] - 2 THEN 0 ELSE (id + calls[n] - 2) - id + 1
    BY <2>1, FS_Interval
  <2> QED BY <1>1, <2>2
<1>4. f \in Bijection(I, Extra(n, id))
  <2>1. f \in [I -> Extra(n, id)]
    BY <1>2
  <2>2. \A v \in Extra(n, id) : \E i \in I : f[i] = v
    BY <1>2
  <2>3. \A i, j \in I : f[i] = f[j] => i = j
    OBVIOUS
  <2> QED BY <2>1, <2>2, <2>3 DEF Bijection, Injection, Surjection, IsInjective
<1>5. ExistsBijection(I, Extra(n, id))
  BY <1>4 DEF ExistsBijection
<1> QED BY <1>3, <1>5, FS_Bijection

\* A new id belongs to no row of the ledger, whatever the database.
LEMMA FreshIsNew ==
    ASSUME TInv, NEW id \in FreshIds
    PROVE  /\ id \in Nat \ {0}
           /\ \A w \in log : w.id < id
<1>1. id \in Nat \ {0} /\ \A w \in log : w.id \in Nat /\ w.id <= highId
  BY DEF TInv, QTypeOK, IdsApart, FreshIds, LogRow
<1>2. \A w \in log : w.id < id
  BY <1>1 DEF FreshIds, TInv, QTypeOK
<1> QED BY <1>1, <1>2

\* A step that touches only rows of n leaves the others theirs.
LEMMA OthersRows ==
    ASSUME NEW n, \A v \in log' \ log : v.of = n, \A v \in log \ log' : v.of = n,
           NEW m, m # n
    PROVE  RowsOf(m)' = RowsOf(m)
BY DEF RowsOf

\* Each step keeps the rows of each use.
LEMMA RowsStep == RInv /\ [QNext]_qvars => RInv'
<1> SUFFICES ASSUME RInv, [QNext]_qvars PROVE RInv'
  OBVIOUS
<1>0. /\ TInv /\ QTypeOK /\ IsFiniteSet(log) /\ RowsKept
      /\ at \in [Uses -> Places] /\ mine \in [Uses -> LogRow \cup {Null}]
      /\ calls \in [Uses -> 0..MaxCalls]
      /\ \A v \in log : v.id \in Nat
  BY DEF RInv, TInv, QTypeOK, LogRow
<1>t. TInv'
  BY <1>0, UsesStep
<1>1. ASSUME log' = log, mine' = mine, calls' = calls, NEW n \in Uses,
             \A m \in Uses \ {n} : at'[m] = at[m],
             \/ /\ at[n] \in {"idle", "checked", "ready", "flushed"}
                /\ at'[n] \in {"checked", "ready", "refused", "busy"}
             \/ at'[n] \in {"charged", "uncounted"}
             \/ at[n] = "reserved" /\ at'[n] \in {"cancel", "call"}
      PROVE  RInv'
  <2>1. \A m \in Uses : RowsOf(m)' = RowsOf(m)
    BY <1>1 DEF RowsOf
  <2> QED BY <1>0, <1>t, <1>1, <2>1 DEF RInv, RowsKept
<1>2. ASSUME NEW n \in Uses, PreCheck(n) PROVE RInv'
  BY <1>0, <1>1, <1>2 DEF PreCheck, logIds
<1>3. ASSUME NEW n \in Uses, NEW w \in Workers, TakeSlot(n, w) PROVE RInv'
  BY <1>0, <1>1, <1>3 DEF TakeSlot, logIds
<1>4. ASSUME NEW n \in Uses, Reserve(n) PROVE RInv'
  <2> PICK id \in FreshIds : Reserve(n)!(id)
    BY <1>4 DEF Reserve
  <2> DEFINE row == [id |-> id, of |-> n, day |-> day]
  <2>1. row \notin log
    BY <1>0, FreshIsNew
  <2>2. RowsOf(n) = {} /\ at'[n] \in {"reserved", "flushed"} /\ mine'[n] = row
    BY <1>0 DEF RowsKept
  <2>3. at'[n] = "reserved" => RowsOf(n)' = {row}
    BY <1>0, <2>2 DEF RowsOf
  <2>4. at'[n] = "flushed" => RowsOf(n)' = {}
    BY <1>0, <2>2 DEF RowsOf
  <2>5. \A m \in Uses \ {n} :
           RowsOf(m)' = RowsOf(m) /\ at'[m] = at[m] /\ mine'[m] = mine[m] /\ calls'[m] = calls[m]
    BY <1>0, OthersRows
  <2>6. IsFiniteSet(log')
    BY <1>0, FS_AddElement
  <2>7. RowsKept'
    BY <1>0, <2>2, <2>3, <2>4, <2>5 DEF RowsKept
  <2> QED BY <1>t, <2>6, <2>7 DEF RInv
<1>5. ASSUME NEW n \in Uses, CommitRow(n) PROVE RInv'
  <2>1. at[n] = "flushed" /\ RowsOf(n) = {} /\ mine[n].of = n /\ mine' = mine /\ calls' = calls
    BY <1>0, <1>5 DEF CommitRow, RowsKept
  <2>2. RowsOf(n)' = {mine[n]} /\ at'[n] = "reserved"
    BY <1>0, <1>5, <2>1 DEF CommitRow, RowsOf
  <2>3. \A m \in Uses \ {n} : RowsOf(m)' = RowsOf(m) /\ at'[m] = at[m]
    BY <1>0, <1>5, <2>1, OthersRows DEF CommitRow
  <2>4. IsFiniteSet(log')
    BY <1>0, <1>5, FS_AddElement DEF CommitRow
  <2>5. RowsKept'
    BY <1>0, <2>1, <2>2, <2>3 DEF RowsKept
  <2> QED BY <1>t, <2>4, <2>5 DEF RInv
<1>6. ASSUME NEW n \in Uses, FailToReserve(n) PROVE RInv'
  <2>1. log' = log /\ at'[n] = "failed" /\ RowsOf(n) = {}
    BY <1>0, <1>6 DEF FailToReserve, RowsKept, logIds
  <2>2. \A m \in Uses : RowsOf(m)' = RowsOf(m)
    BY <2>1 DEF RowsOf
  <2>3. \A m \in Uses \ {n} : at'[m] = at[m] /\ mine'[m] = mine[m] /\ calls'[m] = calls[m]
    BY <1>0, <1>6 DEF FailToReserve
  <2>4. RowsKept'
    BY <1>0, <2>1, <2>2, <2>3 DEF RowsKept
  <2> QED BY <1>0, <1>t, <2>1, <2>4 DEF RInv
<1>7. ASSUME NEW n \in Uses, Count(n) PROVE RInv'
  BY <1>0, <1>1, <1>7 DEF Count, logIds
<1>8. ASSUME NEW n \in Uses, Cancel(n) PROVE RInv'
  <2>1. CASE log' = log /\ at'[n] = "charged"
    BY <1>0, <1>1, <1>8, <2>1 DEF Cancel
  <2>2. CASE log' = WithoutRow(n) /\ at'[n] = "refused"
    <3>1. RowsOf(n) = {mine[n]} /\ mine[n].of = n /\ mine' = mine /\ calls' = calls
      <4>1. RowsOf(n) = {mine[n]} /\ mine' = mine /\ calls' = calls
        BY <1>0, <1>8 DEF Cancel, RowsKept
      <4>2. \A v \in RowsOf(n) : v.of = n
        BY DEF RowsOf
      <4> QED BY <4>1, <4>2
    <3>2. RowsOf(n)' = {}
      BY <2>2, <3>1 DEF WithoutRow, RowsOf
    <3>3. \A m \in Uses \ {n} : RowsOf(m)' = RowsOf(m) /\ at'[m] = at[m]
      BY <1>0, <1>8, <2>2, <3>1, OthersRows DEF Cancel, WithoutRow
    <3>4. IsFiniteSet(log')
      BY <1>0, <2>2, FS_RemoveElement DEF WithoutRow
    <3>5. RowsKept'
      BY <1>0, <2>2, <3>1, <3>2, <3>3 DEF RowsKept
    <3> QED BY <1>t, <3>4, <3>5 DEF RInv
  <2> QED BY <1>0, <1>8, <2>1, <2>2 DEF Cancel
<1>9. ASSUME NEW n \in Uses, Call(n) PROVE RInv'
  <2>1. log' = log /\ mine' = mine /\ at'[n] = "reconcile" /\ RowsOf(n) = {mine[n]}
    BY <1>0, <1>9 DEF Call, RowsKept, logIds
  <2>2. \A m \in Uses : RowsOf(m)' = RowsOf(m)
    BY <2>1 DEF RowsOf
  <2>3. \A m \in Uses \ {n} : at'[m] = at[m] /\ calls'[m] = calls[m]
    BY <1>0, <1>9 DEF Call
  <2>4. RowsKept'
    BY <1>0, <2>1, <2>2, <2>3 DEF RowsKept
  <2> QED BY <1>0, <1>t, <2>1, <2>4 DEF RInv
<1>10. ASSUME NEW n \in Uses, Reconcile(n) PROVE RInv'
  <2>1. mine' = mine /\ calls' = calls /\ \A m \in Uses \ {n} : at'[m] = at[m]
    BY <1>0, <1>10 DEF Reconcile
  <2>2. CASE at'[n] = "uncounted" /\ UNCHANGED logIds
    BY <1>1, <2>1, <2>2 DEF logIds
  <2>3. CASE \E id \in FreshIds : log' = log \cup Extra(n, id) /\ at'[n] = "answered"
    <3>1. PICK id \in FreshIds : log' = log \cup Extra(n, id)
      BY <2>3
    <3>2. /\ id \in Nat \ {0}
          /\ \A w \in log : w.id < id
      BY <1>0, FreshIsNew
    <3>3. /\ IsFiniteSet(Extra(n, id))
          /\ \A v \in Extra(n, id) : v \in LogRow /\ v.id >= id /\ v.of = n
          /\ Cardinality(Extra(n, id)) = IF calls[n] > 1 THEN calls[n] - 1 ELSE 0
      BY <1>0, <3>2, ExtraRows, ExtraCount
    <3>4. RowsOf(n) = {mine[n]} /\ mine[n] \in log
      BY <1>0, <1>10 DEF Reconcile, RowsKept, RowsOf
    <3>5. RowsOf(n)' = Extra(n, id) \cup {mine[n]}
      BY <3>1, <3>3, <3>4 DEF RowsOf
    <3>6. mine[n] \notin Extra(n, id)
      BY <1>0, <3>2, <3>3, <3>4 DEF LogRow
    <3>7. calls[n] \in Nat
      BY <1>0, QuotaNumbers
    <3>8. Cardinality(Extra(n, id) \cup {mine[n]}) = Max({1, calls[n]})
      <4>1. Cardinality(Extra(n, id) \cup {mine[n]}) = Cardinality(Extra(n, id)) + 1
        BY <3>3, <3>6, FS_AddElement
      <4>2. Max({1, calls[n]}) = IF calls[n] > 1 THEN calls[n] ELSE 1
        BY <3>7, GreaterOfTwo
      <4> QED BY <3>3, <3>7, <4>1, <4>2
    <3>9. \A m \in Uses \ {n} : RowsOf(m)' = RowsOf(m)
      BY <3>1, <3>3, OthersRows
    <3>10. IsFiniteSet(log')
      BY <1>0, <3>1, <3>3, FS_Union
    <3>11. RowsKept'
      BY <1>0, <2>1, <2>3, <3>5, <3>8, <3>9 DEF RowsKept
    <3> QED BY <1>t, <3>10, <3>11 DEF RInv
  <2> QED BY <1>0, <1>10, <2>2, <2>3 DEF Reconcile
<1>11. ASSUME NEW w \in Workers, CrashWorker(w) PROVE RInv'
  <2>1. log' = log /\ calls' = calls
    BY <1>11 DEF CrashWorker, logIds
  <2>2. \A m \in Uses : RowsOf(m)' = RowsOf(m)
    BY <2>1 DEF RowsOf
  <2>3. \A m \in Uses : at'[m] = "crashed" \/ (at'[m] = at[m] /\ mine'[m] = mine[m])
    BY <1>11 DEF CrashWorker
  <2>4. RowsKept'
    BY <1>0, <2>1, <2>2, <2>3 DEF RowsKept
  <2> QED BY <1>0, <1>t, <2>1, <2>4 DEF RInv
<1>12. CASE UNCHANGED <<logIds, use>>
  <2>1. \A m \in Uses : RowsOf(m)' = RowsOf(m)
    BY <1>12 DEF RowsOf, logIds
  <2> QED BY <1>0, <1>t, <1>12, <2>1 DEF RInv, RowsKept, logIds, use
<1> QED BY <1>2, <1>3, <1>4, <1>5, <1>6, <1>7, <1>8, <1>9, <1>10, <1>11, <1>12
        DEF QNext, Midnight, qvars

LEMMA RowsInit == QInit => RInv
<1> SUFFICES ASSUME QInit PROVE RInv
  OBVIOUS
<1>1. QTypeOK /\ IsFiniteSet(log)
  BY InvInit DEF QInv
<1>2. IdsApart
  BY DEF QInit, IdsApart
<1>3. RowsKept
  BY DEF QInit, RowsKept, RowsOf
<1> QED BY <1>1, <1>2, <1>3 DEF RInv, TInv

\* On either database an answered use has one row for each call it made, and
\* one when it made none (ek_cagrilari_uzlastir; D15, BUG #274).
THEOREM CallsCounted == QSpec => []CallsAreCounted
<1>1. RInv => CallsAreCounted
  BY DEF RInv, RowsKept, CallsAreCounted
<1> QED BY <1>1, RowsInit, RowsStep, PTL DEF QSpec

-----------------------------------------------------------------------------
(* A use is turned away only on a day whose ledger is, and stays, full. *)

\* The rows that exist, visible or not.
Flushed  == {n \in Uses : at[n] = "flushed"}
Existing == log \cup {mine[n] : n \in Flushed}

\* Rows were given their ids in the order of their days.
DaysInOrder ==
    /\ \A v \in Existing : v.day <= day
    /\ \A v, w \in Existing : v.id < w.id => v.day <= w.day

\* The rows of a day that are not about to be taken back.
Leaving == {n \in Uses : at[n] = "cancel"}
Firm(d) == {w \in RowsOn(d) : \A n \in Leaving : mine[n] # w}

\* The firm rows of its day that came before the reservation w.
FirmBefore(w) == {v \in Firm(w.day) : v.id < w.id}

\* Whoever takes a reservation back leaves a full day of firm rows that came
\* before it: however many are turned away at once, the rows that turned them
\* away are never all among those taken back.
FullBefore == \A n \in Leaving : Cardinality(FirmBefore(mine[n])) >= Ceiling

FullDays == \A n \in Uses : refused[n] # 0 => Cardinality(Firm(refused[n])) >= Ceiling

FInv == RInv /\ DaysInOrder /\ FullBefore /\ FullDays

\* What exists is typed, and a new id is above it.
LEMMA ExistingTypes ==
    ASSUME TInv
    PROVE  /\ \A v \in Existing : v \in LogRow /\ v.id \in Nat /\ v.day \in Nat
           /\ \A id \in FreshIds : id \in Nat \ {0} /\ \A v \in Existing : v.id < id
<1>1. \A v \in Existing : v \in LogRow /\ v.id <= highId
  BY DEF TInv, QTypeOK, IdsApart, Existing, Flushed
<1>2. \A v \in LogRow : v.id \in Nat /\ v.day \in Nat
  BY DEF LogRow, Days
<1>3. dialect = "sqlite" => Existing = log
  BY DEF TInv, IdsApart, Existing, Flushed
<1>4. highId \in Nat
  BY DEF TInv, QTypeOK
<1>5. ASSUME NEW id \in FreshIds, NEW v \in Existing PROVE v.id < id
  <2>1. id \in Nat \ {0} /\ v.id \in Nat /\ v.id <= highId
    BY <1>1, <1>2, <1>4 DEF FreshIds
  <2>2. CASE dialect = "sqlite"
    BY <1>3, <2>2 DEF FreshIds
  <2>3. CASE dialect # "sqlite"
    BY <1>4, <2>1, <2>3 DEF FreshIds
  <2> QED BY <2>2, <2>3
<1>6. \A id \in FreshIds : id \in Nat \ {0}
  BY <1>4 DEF FreshIds
<1> QED BY <1>1, <1>2, <1>5, <1>6

\* New rows are of today, the latest day, and have the highest ids.
LEMMA DaysStay ==
    ASSUME TInv, DaysInOrder, day' = day, NEW id \in FreshIds, NEW X \in SUBSET LogRow,
           \A v \in X : v.id >= id /\ v.day = day,
           Existing' \in SUBSET (Existing \cup X)
    PROVE  DaysInOrder'
<1>1. /\ \A v \in Existing : v.id \in Nat /\ v.day \in Nat
      /\ id \in Nat /\ \A v \in Existing : v.id < id
  BY ExistingTypes
<1>2. day \in Nat /\ \A v \in X : v.id \in Nat /\ v.id >= id /\ v.day = day
  BY DEF LogRow, TInv, QTypeOK, Days
<1>3. \A v \in Existing \cup X : v.day <= day
  BY <1>1, <1>2 DEF DaysInOrder
<1>4. ASSUME NEW v \in Existing \cup X, NEW w \in Existing \cup X, v.id < w.id
      PROVE  v.day <= w.day
  <2>1. CASE w \in X
    BY <1>2, <1>3, <2>1
  <2>2. CASE w \in Existing
    <3>1. v \in Existing
      BY <1>1, <1>2, <1>4, <2>2
    <3> QED BY <1>4, <2>2, <3>1 DEF DaysInOrder
  <2> QED BY <2>1, <2>2
<1> QED BY <1>3, <1>4 DEF DaysInOrder

\* With nothing new the order of the days stays.
LEMMA DaysKept ==
    ASSUME TInv, DaysInOrder, day' \in Nat, day <= day', Existing' \in SUBSET Existing
    PROVE  DaysInOrder'
<1>1. day \in Nat /\ \A v \in Existing : v.day \in Nat
  BY ExistingTypes DEF TInv, QTypeOK, Days
<1> QED BY <1>1 DEF DaysInOrder

\* A set of rows of the ledger is no smaller than its part.
LEMMA AtLeast ==
    ASSUME NEW L, IsFiniteSet(L), NEW B \in SUBSET L, NEW A \in SUBSET B, Cardinality(A) >= Ceiling
    PROVE  Cardinality(B) >= Ceiling
<1>1. IsFiniteSet(B)
  BY FS_Subset
<1>2. IsFiniteSet(A) /\ Cardinality(A) <= Cardinality(B)
  BY <1>1, FS_Subset
<1> QED BY <1>1, <1>2, FS_CardinalityType, QuotaNumbers

\* Who is leaving has a row in the ledger, of a day.
LEMMA LeavingHaveRows ==
    ASSUME RInv, NEW n \in Leaving
    PROVE  n \in Uses /\ mine[n] \in log /\ mine[n] \in LogRow /\ mine[n].of = n
<1>1. RowsOf(n) = {mine[n]} /\ n \in Uses
  BY DEF Leaving, RInv, RowsKept
<1> QED BY <1>1 DEF RowsOf, RInv, TInv, QTypeOK

\* When only rows that were leaving go and no use begins to leave, full days
\* stay full.
LEMMA FullStays ==
    ASSUME FInv, IsFiniteSet(log'),
           \A v \in log \ log' : \E n \in Leaving : mine[n] = v,
           Leaving' \in SUBSET Leaving, \A n \in Leaving' : mine'[n] = mine[n]
    PROVE  /\ FullBefore'
           /\ \A d \in Days : (\E n \in Uses : refused[n] = d) => Cardinality(Firm(d)') >= Ceiling
<1>1. ASSUME NEW d PROVE Firm(d) \in SUBSET Firm(d)' /\ Firm(d)' \in SUBSET log'
  BY DEF Firm, RowsOn
<1>2. ASSUME NEW n \in Leaving' PROVE Cardinality(FirmBefore(mine[n]))' >= Ceiling
  <2>1. n \in Leaving /\ mine'[n] = mine[n]
    BY <1>2
  <2>2. PICK w : w = mine[n]
    OBVIOUS
  <2>3. Cardinality(FirmBefore(w)) >= Ceiling
    BY <2>1, <2>2 DEF FInv, FullBefore
  <2>4. FirmBefore(w)' \in SUBSET log' /\ FirmBefore(w) \in SUBSET FirmBefore(w)'
    BY <1>1 DEF FirmBefore
  <2>5. Cardinality(FirmBefore(w)') >= Ceiling
    BY <2>3, <2>4, AtLeast
  <2> QED BY <2>1, <2>2, <2>5
<1>3. ASSUME NEW d \in Days, NEW n \in Uses, refused[n] = d PROVE Cardinality(Firm(d)') >= Ceiling
  <2>1. Cardinality(Firm(d)) >= Ceiling
    BY <1>3 DEF FInv, FullDays, Days
  <2> QED BY <1>1, <2>1, AtLeast
<1> QED BY <1>2, <1>3 DEF FullBefore

\* A full ledger is full of firm rows: if any of the rows D of a day is about
\* to be taken back, enough firm ones came before it.
LEMMA FullOfFirm ==
    ASSUME FInv, NEW d \in Days,
           NEW D \in SUBSET RowsOn(d), Cardinality(D) >= Ceiling,
           \A w \in RowsOn(d) : \A v \in D : w.id < v.id => w \in D
    PROVE  Cardinality(D \cap Firm(d)) >= Ceiling
<1>1. IsFiniteSet(log) /\ Ceiling \in Nat
  BY QuotaNumbers DEF RInv, FInv
<1>2. IsFiniteSet(D) /\ IsFiniteSet(D \cap Firm(d))
  BY <1>1, FS_Subset DEF RowsOn
<1>3. CASE \A v \in D : \A n \in Leaving : mine[n] # v
  <2>1. D \cap Firm(d) = D
    BY <1>3 DEF Firm
  <2> QED BY <2>1
<1>4. CASE \E v \in D : \E n \in Leaving : mine[n] = v
  <2>1. PICK n \in Leaving : mine[n] \in D
    BY <1>4
  <2>2. PICK v \in D : v = mine[n]
    BY <2>1
  <2>3. Cardinality(FirmBefore(v)) >= Ceiling
    BY <2>2 DEF FInv, FullBefore
  <2>4. FirmBefore(v) \in SUBSET (D \cap Firm(d))
    BY <2>2 DEF FirmBefore, Firm, RowsOn
  <2>5. IsFiniteSet(FirmBefore(v)) /\ Cardinality(FirmBefore(v)) <= Cardinality(D \cap Firm(d))
    BY <1>2, <2>4, FS_Subset
  <2> QED BY <1>1, <1>2, <2>3, <2>5, FS_CardinalityType
<1> QED BY <1>3, <1>4

\* A use that its count turns away counted a full day of rows before its own.
LEMMA CountedFull ==
    ASSUME FInv, NEW n \in Uses, at[n] = "reserved", Ceiling # 0, Rank(n) > Ceiling
    PROVE  /\ mine[n] \in log /\ mine[n].day = day
           /\ Cardinality(FirmBefore(mine[n])) >= Ceiling
<1>1. /\ IsFiniteSet(log) /\ Ceiling \in Nat \ {0} /\ day \in Days /\ QTypeOK
      /\ \A v \in log : v.id \in Nat /\ v.day \in Nat
  BY QuotaNumbers DEF RInv, FInv, TInv, QTypeOK, LogRow, Days
<1>2. mine[n] \in log
  BY DEF FInv, RInv, RowsKept, RowsOf
<1> DEFINE D  == {w \in Today : w.id <= mine[n].id}
           D0 == {w \in RowsOn(day) : w.id < mine[n].id}
<1>3. D0 = D \ {mine[n]} /\ IsFiniteSet(D)
  <2>1. IsFiniteSet(D)
    BY <1>1, FS_Subset DEF Today
  <2>2. \A w \in log : w.id = mine[n].id => w = mine[n]
    BY <1>1, <1>2 DEF QTypeOK
  <2> QED BY <1>1, <1>2, <2>1, <2>2 DEF Today, RowsOn
<1>4. Cardinality(D) > Ceiling
  BY DEF Rank
<1>5. IsFiniteSet(D0) /\ Cardinality(D0) >= Ceiling
  <2>1. IsFiniteSet(D0) /\ Cardinality(D0) = IF mine[n] \in D THEN Cardinality(D) - 1 ELSE Cardinality(D)
    BY <1>3, FS_RemoveElement
  <2> QED BY <1>1, <1>3, <1>4, <2>1, FS_CardinalityType
<1>6. mine[n].day = day
  <2>1. D0 # {}
    BY <1>1, <1>5, FS_EmptySet
  <2>2. PICK v \in log : v.day = day /\ v.id < mine[n].id
    BY <2>1 DEF RowsOn
  <2>3. day <= mine[n].day /\ mine[n].day <= day
    BY <1>2, <2>2 DEF FInv, DaysInOrder, Existing
  <2> QED BY <1>1, <1>2, <2>3 DEF Days
<1>7. Cardinality(D0 \cap Firm(day)) >= Ceiling
  <2>1. D0 \in SUBSET RowsOn(day) /\ \A w \in RowsOn(day) : \A v \in D0 : w.id < v.id => w \in D0
    BY <1>1, <1>2 DEF RowsOn
  <2> HIDE DEF D0
  <2> QED BY <1>1, <1>5, <2>1, FullOfFirm
<1>8. D0 \cap Firm(day) = FirmBefore(mine[n])
  BY <1>6 DEF FirmBefore, Firm
<1> QED BY <1>2, <1>6, <1>7, <1>8

\* Turning it away makes its row one that leaves, and no day less full.
LEMMA CountKeepsFull ==
    ASSUME FInv, NEW n \in Uses, Count(n), at'[n] = "cancel"
    PROVE  FullBefore' /\ FullDays'
<1>1. /\ QTypeOK /\ IsFiniteSet(log) /\ log' = log /\ mine' = mine
      /\ \A v \in log : v.id \in Nat
  BY DEF FInv, RInv, TInv, QTypeOK, LogRow, Count, logIds
<1>2. Ceiling # 0 /\ Rank(n) > Ceiling /\ at[n] = "reserved"
      /\ at' = [at EXCEPT ![n] = "cancel"] /\ refused' = [refused EXCEPT ![n] = day]
  BY <1>1 DEF Count, QTypeOK
<1>3. PICK row : row = mine[n]
  OBVIOUS
<1>4. row \in log /\ row.day = day /\ Cardinality(FirmBefore(row)) >= Ceiling
  BY <1>2, <1>3, CountedFull
<1>5. Leaving' = Leaving \cup {n}
  BY <1>1, <1>2 DEF Leaving, QTypeOK
<1>6. ASSUME NEW d PROVE Firm(d)' = Firm(d) \ {row} /\ Firm(d)' \in SUBSET log
  BY <1>1, <1>3, <1>5 DEF Firm, RowsOn
<1>7. ASSUME NEW w \in log
      PROVE  /\ FirmBefore(w)' = FirmBefore(w) \ {row} /\ FirmBefore(w)' \in SUBSET log
             /\ row \in FirmBefore(w) => FirmBefore(row) \in SUBSET FirmBefore(w)'
  <2>1. FirmBefore(w)' = FirmBefore(w) \ {row} /\ FirmBefore(w)' \in SUBSET log
    BY <1>6 DEF FirmBefore
  <2>2. ASSUME row \in FirmBefore(w), NEW v \in FirmBefore(row) PROVE v \in FirmBefore(w)'
    <3>1. v \in log /\ v.id < row.id /\ row.id < w.id /\ row.day = w.day /\ v \in Firm(w.day)
      BY <2>2 DEF FirmBefore, Firm, RowsOn
    <3> QED BY <1>1, <1>4, <2>1, <3>1 DEF FirmBefore
  <2> QED BY <2>1, <2>2
<1>8. ASSUME NEW m \in Leaving' PROVE Cardinality(FirmBefore(mine[m]))' >= Ceiling
  <2>1. PICK w : w = mine[m]
    OBVIOUS
  <2>2. w \in log /\ (m = n => w = row) /\ (m # n => m \in Leaving)
    BY <1>3, <1>4, <1>5, <2>1, LeavingHaveRows DEF FInv
  <2>3. Cardinality(FirmBefore(w)') >= Ceiling
    <3>1. CASE row \in FirmBefore(w)
      BY <1>1, <1>4, <1>7, <2>2, <3>1, AtLeast
    <3>2. CASE row \notin FirmBefore(w)
      <4>1. Cardinality(FirmBefore(w)) >= Ceiling
        BY <1>4, <2>1, <2>2 DEF FInv, FullBefore
      <4>2. FirmBefore(w)' = FirmBefore(w)
        BY <1>7, <2>2, <3>2
      <4> QED BY <4>1, <4>2
    <3> QED BY <3>1, <3>2
  <2> QED BY <1>1, <2>1, <2>3
<1>9. ASSUME NEW m \in Uses, refused'[m] # 0 PROVE Cardinality(Firm(refused[m]))' >= Ceiling
  <2>1. PICK d : d = refused'[m]
    OBVIOUS
  <2>2. CASE d = day
    <3>1. FirmBefore(row) \in SUBSET Firm(d)'
      BY <1>1, <1>4, <1>6, <2>2 DEF FirmBefore
    <3> QED BY <1>1, <1>4, <1>6, <2>1, <3>1, AtLeast
  <2>3. CASE d # day
    <3>1. refused'[m] = refused[m]
      BY <1>1, <1>2, <2>1, <2>3 DEF QTypeOK
    <3>3. Firm(d)' = Firm(d)
      BY <1>4, <1>6, <2>3 DEF Firm, RowsOn
    <3>2. Cardinality(Firm(d)) >= Ceiling
      BY <1>9, <2>1, <3>1 DEF FInv, FullDays
    <3> QED BY <2>1, <3>2, <3>3
  <2> QED BY <2>2, <2>3
<1> QED BY <1>8, <1>9 DEF FullBefore, FullDays

\* Each step keeps full days full.
LEMMA FullStep == FInv /\ [QNext]_qvars => FInv'
<1> SUFFICES ASSUME FInv, [QNext]_qvars PROVE FInv'
  OBVIOUS
<1>0. /\ RInv /\ TInv /\ QTypeOK /\ IsFiniteSet(log) /\ DaysInOrder /\ FullBefore /\ FullDays
      /\ at \in [Uses -> Places] /\ mine \in [Uses -> LogRow \cup {Null}]
      /\ refused \in [Uses -> Days \cup {0}]
      /\ day \in Days /\ day \in Nat
  BY DEF FInv, RInv, TInv, QTypeOK, Days
<1>r. RInv' /\ IsFiniteSet(log')
  BY <1>0, RowsStep DEF RInv
<1>1. ASSUME DaysInOrder', refused' = refused,
             \A v \in log \ log' : \E n \in Leaving : mine[n] = v,
             Leaving' \in SUBSET Leaving, \A n \in Leaving' : mine'[n] = mine[n]
      PROVE  FInv'
  <2>1. /\ FullBefore'
        /\ \A d \in Days : (\E n \in Uses : refused[n] = d) => Cardinality(Firm(d)') >= Ceiling
    BY <1>r, <1>1, FullStays
  <2>2. ASSUME NEW n \in Uses, refused[n] # 0 PROVE Cardinality(Firm(refused[n]))' >= Ceiling
    <3>1. PICK d \in Days : d = refused[n]
      BY <1>0, <2>2
    <3> QED BY <1>1, <2>1, <3>1
  <2>3. FullDays'
    BY <1>1, <2>2 DEF FullDays
  <2> QED BY <1>r, <1>1, <2>1, <2>3 DEF FInv
<1>2. ASSUME day' = day, log' = log, mine' = mine,
             \A n \in Uses : at'[n] = "flushed" => at[n] = "flushed"
      PROVE  DaysInOrder'
  <2>1. Existing' \in SUBSET Existing
    BY <1>2 DEF Existing, Flushed
  <2> QED BY <1>0, <1>2, <2>1, DaysKept
<1>3. ASSUME day' = day, log' = log, mine' = mine, refused' = refused,
             \A n \in Uses : /\ at'[n] = "flushed" => at[n] = "flushed"
                             /\ at'[n] = "cancel" => at[n] = "cancel"
      PROVE  FInv'
  <2>1. DaysInOrder'
    BY <1>2, <1>3
  <2> QED BY <1>1, <1>3, <2>1 DEF Leaving
<1>4. ASSUME NEW n \in Uses, PreCheck(n) PROVE FInv'
  <2>0. /\ day' = day /\ log' = log /\ mine' = mine
        /\ \A m \in Uses : /\ at'[m] = "flushed" => at[m] = "flushed"
                           /\ at'[m] = "cancel" => at[m] = "cancel"
    BY <1>0, <1>4 DEF PreCheck, logIds
  <2>1. CASE refused' = refused
    BY <1>3, <2>0, <2>1
  <2>2. CASE /\ Ceiling # 0 /\ Cardinality(Today) >= Ceiling
             /\ refused' = [refused EXCEPT ![n] = day]
    <3>1. Cardinality(Today \cap Firm(day)) >= Ceiling /\ Today \cap Firm(day) = Firm(day)
      <4>1. Today = RowsOn(day)
        BY DEF Today, RowsOn
      <4>2. Cardinality(Today \cap Firm(day)) >= Ceiling
        BY <1>0, <2>2, <4>1, FullOfFirm
      <4> QED BY <4>1, <4>2 DEF Firm
    <3>2. Leaving' \in SUBSET Leaving
      BY <2>0 DEF Leaving
    <3>3. /\ FullBefore'
          /\ \A d \in Days : (\E m \in Uses : refused[m] = d) => Cardinality(Firm(d)') >= Ceiling
      BY <1>r, <2>0, <3>2, FullStays
    <3>4. ASSUME NEW d PROVE Firm(d) \in SUBSET Firm(d)' /\ Firm(d)' \in SUBSET log'
      BY <2>0, <3>2 DEF Firm, RowsOn
    <3>5. ASSUME NEW m \in Uses, refused'[m] # 0 PROVE Cardinality(Firm(refused[m]))' >= Ceiling
      <4>1. PICK d \in Days : d = refused'[m]
        BY <1>0, <2>2, <3>5
      <4>2. Cardinality(Firm(d)') >= Ceiling
        <5>1. CASE m = n
          <6>1. d = day
            BY <1>0, <2>2, <4>1, <5>1
          <6>2. Cardinality(Firm(d)) >= Ceiling
            BY <3>1, <6>1
          <6> QED BY <1>r, <3>4, <6>2, AtLeast
        <5>2. CASE m # n
          BY <1>0, <2>2, <3>3, <4>1, <5>2
        <5> QED BY <5>1, <5>2
      <4> QED BY <4>1, <4>2
    <3>6. DaysInOrder'
      BY <1>2, <2>0
    <3> QED BY <1>r, <3>3, <3>5, <3>6 DEF FInv, FullDays
  <2> QED BY <1>4, <2>1, <2>2 DEF PreCheck
<1>5. ASSUME NEW n \in Uses, NEW w \in Workers, TakeSlot(n, w) PROVE FInv'
  BY <1>0, <1>3, <1>5 DEF TakeSlot, logIds
<1>6. ASSUME NEW n \in Uses, Reserve(n) PROVE FInv'
  <2> PICK id \in FreshIds : Reserve(n)!(id)
    BY <1>6 DEF Reserve
  <2> DEFINE row == [id |-> id, of |-> n, day |-> day]
  <2>1. id \in Nat /\ row \in LogRow
    BY <1>0, FreshIsNew DEF LogRow
  <2>2. Flushed' \in SUBSET (Flushed \cup {n}) /\ mine'[n] = row
        /\ \A m \in Uses \ {n} : mine'[m] = mine[m]
    BY <1>0 DEF Flushed
  <2>3. Existing' \in SUBSET (Existing \cup {row})
    BY <2>2 DEF Existing, Flushed
  <2>4. {row} \in SUBSET LogRow /\ \A v \in {row} : v.id >= id /\ v.day = day
    BY <2>1
  <2>5. DaysInOrder'
    <3> HIDE DEF row
    <3> QED BY <1>0, <2>3, <2>4, DaysStay
  <2>6. Leaving' \in SUBSET Leaving /\ n \notin Leaving /\ log \in SUBSET log'
    BY <1>0 DEF Leaving
  <2> QED BY <1>1, <2>2, <2>5, <2>6 DEF Leaving
<1>7. ASSUME NEW n \in Uses, CommitRow(n) PROVE FInv'
  <2>1. /\ at[n] = "flushed" /\ log' = log \cup {mine[n]} /\ mine' = mine /\ day' = day
        /\ refused' = refused /\ at' = [at EXCEPT ![n] = "reserved"]
    BY <1>7 DEF CommitRow
  <2>2. Existing' \in SUBSET Existing
    BY <1>0, <2>1 DEF Existing, Flushed
  <2>3. DaysInOrder'
    BY <1>0, <2>1, <2>2, DaysKept
  <2>4. Leaving' \in SUBSET Leaving
    BY <1>0, <2>1 DEF Leaving
  <2> QED BY <1>1, <2>1, <2>3, <2>4
<1>8. ASSUME NEW n \in Uses, FailToReserve(n) PROVE FInv'
  <2>1. /\ log' = log /\ mine' = [mine EXCEPT ![n] = Null] /\ day' = day
        /\ refused' = refused /\ at' = [at EXCEPT ![n] = "failed"]
        /\ at[n] \in {"ready", "flushed"}
    BY <1>8 DEF FailToReserve, logIds
  <2>2. Existing' \in SUBSET Existing
    BY <1>0, <2>1 DEF Existing, Flushed
  <2>3. DaysInOrder'
    BY <1>0, <2>1, <2>2, DaysKept
  <2>4. Leaving' \in SUBSET Leaving /\ \A m \in Leaving' : mine'[m] = mine[m]
    BY <1>0, <2>1 DEF Leaving
  <2> QED BY <1>1, <2>1, <2>3, <2>4
<1>9. ASSUME NEW n \in Uses, Count(n) PROVE FInv'
  <2>1. CASE at' = [at EXCEPT ![n] = "cancel"]
    <3>1. FullBefore' /\ FullDays'
      BY <1>0, <1>9, <2>1, CountKeepsFull
    <3>2. DaysInOrder'
      BY <1>0, <1>2, <1>9, <2>1 DEF Count, logIds
    <3> QED BY <1>r, <3>1, <3>2 DEF FInv
  <2>2. CASE at' = [at EXCEPT ![n] = "call"] /\ refused' = refused
    BY <1>0, <1>3, <1>9, <2>2 DEF Count, logIds
  <2> QED BY <1>9, <2>1, <2>2 DEF Count
<1>10. ASSUME NEW n \in Uses, Cancel(n) PROVE FInv'
  <2>1. /\ log' \in SUBSET log /\ \A v \in log \ log' : v = mine[n]
        /\ mine' = mine /\ day' = day /\ refused' = refused
        /\ at[n] = "cancel" /\ \E place \in {"refused", "charged"} : at' = [at EXCEPT ![n] = place]
    BY <1>10 DEF Cancel, WithoutRow
  <2>2. Existing' \in SUBSET Existing
    BY <1>0, <2>1 DEF Existing, Flushed
  <2>3. DaysInOrder'
    BY <1>0, <2>1, <2>2, DaysKept
  <2>4. n \in Leaving /\ Leaving' \in SUBSET Leaving
    BY <1>0, <2>1 DEF Leaving
  <2> QED BY <1>1, <2>1, <2>3, <2>4
<1>11. ASSUME NEW n \in Uses, Call(n) PROVE FInv'
  BY <1>0, <1>3, <1>11 DEF Call, logIds
<1>12. ASSUME NEW n \in Uses, Reconcile(n) PROVE FInv'
  <2>0. /\ mine' = mine /\ day' = day /\ refused' = refused
        /\ Leaving' \in SUBSET Leaving /\ Flushed' \in SUBSET Flushed
    BY <1>0, <1>12 DEF Reconcile, Leaving, Flushed
  <2>1. CASE UNCHANGED logIds
    BY <1>0, <1>3, <1>12, <2>1 DEF Reconcile, logIds
  <2>2. CASE \E id \in FreshIds : log' = log \cup Extra(n, id)
    <3>1. PICK id \in FreshIds : log' = log \cup Extra(n, id)
      BY <2>2
    <3>2. id \in Nat \ {0}
      BY <1>0, FreshIsNew
    <3>3. Extra(n, id) \in SUBSET LogRow /\ \A v \in Extra(n, id) : v.id >= id
      BY <1>0, <3>2, ExtraRows
    <3>4. \A v \in Extra(n, id) : v.day = day
      BY DEF Extra
    <3>5. Existing' \in SUBSET (Existing \cup Extra(n, id))
      BY <2>0, <3>1 DEF Existing, Flushed
    <3>6. DaysInOrder'
      BY <1>0, <2>0, <3>3, <3>4, <3>5, DaysStay
    <3> QED BY <1>1, <2>0, <3>1, <3>6
  <2> QED BY <1>12, <2>1, <2>2 DEF Reconcile
<1>13. ASSUME NEW w \in Workers, CrashWorker(w) PROVE FInv'
  <2>1. /\ log' = log /\ day' = day /\ refused' = refused
        /\ \A n \in Uses : at'[n] = "crashed" \/ (at'[n] = at[n] /\ mine'[n] = mine[n])
    BY <1>13 DEF CrashWorker, logIds
  <2>2. Existing' \in SUBSET Existing
    BY <2>1 DEF Existing, Flushed
  <2>3. DaysInOrder'
    BY <1>0, <2>1, <2>2, DaysKept
  <2>4. Leaving' \in SUBSET Leaving /\ \A m \in Leaving' : mine'[m] = mine[m]
    BY <2>1 DEF Leaving
  <2> QED BY <1>1, <2>1, <2>3, <2>4
<1>14. CASE UNCHANGED <<logIds, use>> /\ day' \in Nat /\ day <= day'
  <2>1. Existing' \in SUBSET Existing
    BY <1>14 DEF Existing, Flushed, logIds, use
  <2>2. DaysInOrder'
    BY <1>0, <1>14, <2>1, DaysKept
  <2> QED BY <1>1, <1>14, <2>2 DEF Leaving, logIds, use
<1>15. Midnight \/ UNCHANGED qvars => UNCHANGED <<logIds, use>> /\ day' \in Nat /\ day <= day'
  BY <1>0 DEF Midnight, qvars
<1> QED BY <1>4, <1>5, <1>6, <1>7, <1>8, <1>9, <1>10, <1>11, <1>12, <1>13, <1>14, <1>15 DEF QNext

LEMMA FullInit == QInit => FInv
<1> SUFFICES ASSUME QInit PROVE FInv
  OBVIOUS
<1>1. Leaving = {} /\ Existing = {}
  BY DEF QInit, Leaving, Existing, Flushed
<1>2. DaysInOrder /\ FullBefore
  BY <1>1 DEF DaysInOrder, FullBefore
<1>3. FullDays
  BY DEF QInit, FullDays
<1> QED BY <1>2, <1>3, RowsInit DEF FInv

\* On either database a refused use left no row, and a day that refused one
\* stays full, however many reservations are made and taken back at once
\* (rezerve_et, iptal_et).
THEOREM RefusedFairly == QSpec => []RefusalsAreFair
<1>1. FInv => RefusalsAreFair
  <2> SUFFICES ASSUME FInv PROVE RefusalsAreFair
    OBVIOUS
  <2>1. RefusedCostsNothing
    BY DEF FInv, RInv, RowsKept, RefusedCostsNothing
  <2>2. ASSUME NEW n \in Uses, refused[n] # 0 PROVE Cardinality(RowsOn(refused[n])) >= Ceiling
    <3>1. IsFiniteSet(RowsOn(refused[n])) /\ Firm(refused[n]) \in SUBSET RowsOn(refused[n])
      BY FS_Subset DEF FInv, RInv, RowsOn, Firm
    <3>2. Cardinality(Firm(refused[n])) >= Ceiling
      BY <2>2 DEF FInv, FullDays
    <3> QED BY <3>1, <3>2, AtLeast
  <2> QED BY <2>1, <2>2 DEF RefusalsAreFair, RefusedOnlyWhenFull
<1> QED BY <1>1, FullInit, FullStep, PTL DEF QSpec

-----------------------------------------------------------------------------
(* Debts and the accounts they settle on. *)

LEMMA NumbersOfRows ==
    /\ \A m \in Amounts : m \in Int
    /\ \A x \in Accounts : x \in Int
    /\ \A row \in Row : row.amount \in Int
<1>1. (\A m \in Amounts : m \in Int) /\ (\A x \in Accounts : x \in Int)
  BY AmountsPositive, AccountIds
<1> QED BY <1>1 DEF Row

\* The account that carries a new leg exists and is not held in trust.
LEMMA DefaultIsEligible ==
    ASSUME DTypeOK, Eligible # {}
    PROVE  DefaultCash \in live /\ ~emanet[DefaultCash] /\ DefaultCash \in Accounts
<1>1. Eligible \in SUBSET Accounts /\ Eligible \in SUBSET Int
  BY NumbersOfRows DEF Eligible, DTypeOK
<1>2. IsFiniteSet(Eligible)
  BY <1>1, AccountIds, FS_Subset
<1>3. Min(Eligible) \in Eligible
  BY <1>1, <1>2, LeastExists
<1> QED BY <1>1, <1>3 DEF DefaultCash, Eligible

LEMMA CarrierKinds ==
    ASSUME DTypeOK, NEW old \in Row, NEW new \in Row
    PROVE  /\ Carrier(old, new) \in live \cup {None}
           /\ Carrier(old, new) \in Accounts \cup {None}
           /\ ~new.paid => Carrier(old, new) = None
           /\ Carrier(old, new) # None /\ Carrier(old, new) # old.trace =>
                 ~emanet[Carrier(old, new)]
<1>1. DefaultCash # None => DefaultCash \in live /\ ~emanet[DefaultCash]
  BY DefaultIsEligible DEF DefaultCash
<1> QED BY <1>1 DEF Carrier, DTypeOK

LEMMA ChangeIsInt ==
    ASSUME NEW d \in Debts, NEW old \in Row, NEW new \in Row, NEW x
    PROVE  Change(d, old, new, x) \in Int
<1>1. new.amount \in Int /\ old.amount \in Int
  BY NumbersOfRows
<1>2. Delta(d, new.amount) \in Int /\ Delta(d, old.amount) \in Int
  BY <1>1 DEF Delta
<1>3. Booked(d, old) \in Int
  BY <1>2 DEF Booked
<1> QED BY <1>2, <1>3 DEF Change

LEMMA AskedRows ==
    ASSUME NEW old \in Row, NEW new \in Asked(old)
    PROVE  new \in Row /\ (old.exists /\ ~new.exists => ~new.paid)
BY DEF Asked, Row

LEMMA LegsAreInt ==
    ASSUME DTypeOK, NEW x
    PROVE  LegsOn(x) \in [Debts -> Int]
<1> SUFFICES ASSUME NEW d \in Debts PROVE LegOn(d, debt[d], x) \in Int
  BY DEF LegsOn
<1>1. debt[d] \in Row /\ debt[d].amount \in Int
  BY NumbersOfRows DEF DTypeOK
<1> QED BY <1>1 DEF LegOn, Booked, Delta

-----------------------------------------------------------------------------
(* Types are kept whatever overlaps and whatever the database enforces. *)

\* A request that has looked holds two rows.
RowsAreHeld ==
    \A r \in Requests : pc[r] \in {"loaded", "synced"} =>
        about[r] \in Debts /\ before[r] \in Row /\ after[r] \in Row

LEMMA TypeInit == Init => DTypeOK /\ RowsAreHeld
<1> SUFFICES ASSUME Init PROVE DTypeOK /\ RowsAreHeld
  OBVIOUS
<1>1. \A r \in Requests : writes[r] = NoWrites
  BY DEF Init
<1>2. \A r \in Requests : DOMAIN writes[r] = {}
  BY <1>1 DEF NoWrites
<1>3. debt \in [Debts -> Row]
  BY DEF Init, Row
<1> QED BY <1>2, <1>3 DEF Init, DTypeOK, RowsAreHeld

LEMMA SettledIsRow ==
    ASSUME DTypeOK, NEW old \in Row, NEW new \in Row
    PROVE  Settled(old, new) \in Row
BY CarrierKinds DEF Settled, Row

LEMMA MergedIsRow ==
    ASSUME NEW row \in Row, NEW old \in Row, NEW new \in Row
    PROVE  Merge(row, old, new) \in Row
<1> DEFINE Kept(f, g, h) == IF g # f THEN g ELSE h
<1>1. /\ Kept(old.exists, new.exists, row.exists) \in BOOLEAN
      /\ Kept(old.paid, new.paid, row.paid) \in BOOLEAN
      /\ Kept(old.amount, new.amount, row.amount) \in Amounts
      /\ Kept(old.trace, new.trace, row.trace) \in Accounts \cup {None}
  BY DEF Row
<1> QED BY <1>1 DEF Merge, Row

LEMMA TypeStep == DTypeOK /\ RowsAreHeld /\ [Next]_vars => DTypeOK' /\ RowsAreHeld'
<1> SUFFICES ASSUME DTypeOK, RowsAreHeld, [Next]_vars PROVE DTypeOK' /\ RowsAreHeld'
  OBVIOUS
<1> USE DEF ledger, service
<1>1. ASSUME NEW d \in Debts, NEW m \in Amounts, CreateDebt(d, m)
      PROVE  DTypeOK' /\ RowsAreHeld'
  BY <1>1 DEF CreateDebt, DTypeOK, RowsAreHeld, Row
<1>2. ASSUME NEW r \in Requests, NEW d \in Debts, LoadDebt(r, d)
      PROVE  DTypeOK' /\ RowsAreHeld'
  <2>1. PICK row \in Asked(debt[d]) : after' = [after EXCEPT ![r] = row]
    BY <1>2 DEF LoadDebt
  <2>2. debt[d] \in Row /\ row \in Row
    BY <2>1, AskedRows DEF DTypeOK
  <2>3. after' \in [Requests -> Row \cup {None}] /\ before' \in [Requests -> Row \cup {None}]
    BY <1>2, <2>1, <2>2 DEF LoadDebt, DTypeOK
  <2> QED BY <1>2, <2>1, <2>2, <2>3 DEF LoadDebt, DTypeOK, RowsAreHeld
<1>3. ASSUME NEW r \in Requests, SyncCash(r)
      PROVE  DTypeOK' /\ RowsAreHeld'
  <2> DEFINE d == about[r]
             change(x) == Change(d, before[r], after[r], x)
             new == NewBalances(d, before[r], after[r])
  <2>1. pc[r] = "loaded" /\ writes' = [writes EXCEPT ![r] = new]
    BY <1>3 DEF SyncCash
  <2>2. d \in Debts /\ before[r] \in Row /\ after[r] \in Row
    BY <2>1 DEF RowsAreHeld
  <2>3. \A x \in DOMAIN new : x \in Accounts /\ new[x] \in Int
    <3> SUFFICES ASSUME NEW x \in live PROVE x \in Accounts /\ balance[x] + change(x) \in Int
      BY DEF NewBalances
    <3>1. x \in Accounts /\ balance[x] \in Int
      BY DEF DTypeOK
    <3>2. change(x) \in Int
      BY <2>2, ChangeIsInt
    <3> QED BY <3>1, <3>2
  <2>4. Settled(before[r], after[r]) \in Row
    BY <2>2, SettledIsRow
  <2> HIDE DEF new
  <2>5. ASSUME NEW q \in Requests
        PROVE  DOMAIN writes'[q] \subseteq Accounts /\ \A x \in DOMAIN writes'[q] : writes'[q][x] \in Int
    <3>1. CASE q = r
      <4>1. writes'[q] = new
        BY <2>1, <3>1 DEF DTypeOK
      <4> QED BY <2>3, <4>1
    <3>2. CASE q # r
      <4>1. writes'[q] = writes[q]
        BY <2>1, <3>2
      <4> QED BY <4>1 DEF DTypeOK
    <3> QED BY <3>1, <3>2
  <2> QED BY <1>3, <2>1, <2>2, <2>4, <2>5 DEF SyncCash, DTypeOK, RowsAreHeld
<1>4. ASSUME NEW r \in Requests, CommitDebt(r)
      PROVE  DTypeOK' /\ RowsAreHeld'
  <2>1. pc[r] = "synced" /\ about[r] \in Debts /\ before[r] \in Row /\ after[r] \in Row
    BY <1>4 DEF CommitDebt, RowsAreHeld
  <2>2. debt' \in [Debts -> Row]
    BY <1>4, <2>1, MergedIsRow DEF CommitDebt, DTypeOK
  <2>3. balance' \in [Accounts -> Int]
    BY <1>4 DEF CommitDebt, DTypeOK
  <2>4. DOMAIN NoWrites = {}
    BY DEF NoWrites
  <2>5. writes' = [writes EXCEPT ![r] = NoWrites]
    BY <1>4 DEF CommitDebt
  <2>6. ASSUME NEW q \in Requests
        PROVE  DOMAIN writes'[q] \subseteq Accounts /\ \A x \in DOMAIN writes'[q] : writes'[q][x] \in Int
    BY <2>4, <2>5 DEF DTypeOK
  <2> QED BY <1>4, <2>2, <2>3, <2>6 DEF CommitDebt, DTypeOK, RowsAreHeld
<1>5. ASSUME NEW x \in Accounts, NEW v \in Figures, TypeBalance(x, v)
      PROVE  DTypeOK' /\ RowsAreHeld'
  BY <1>5, AmountsPositive DEF TypeBalance, DTypeOK, RowsAreHeld
<1>6. ASSUME NEW x \in Accounts, ToggleEmanet(x) \/ DeleteAccount(x)
      PROVE  DTypeOK' /\ RowsAreHeld'
  BY <1>6 DEF ToggleEmanet, DeleteAccount, DTypeOK, RowsAreHeld
<1>7. ASSUME NEW x \in Accounts, NEW held \in BOOLEAN, CreateAccount(x, held)
      PROVE  DTypeOK' /\ RowsAreHeld'
  BY <1>7 DEF CreateAccount, DTypeOK, RowsAreHeld
<1>8. CASE UNCHANGED vars
  BY <1>8 DEF vars, DTypeOK, RowsAreHeld
<1> QED BY <1>1, <1>2, <1>3, <1>4, <1>5, <1>6, <1>7, <1>8 DEF Next

\* Every variable keeps its type (personal_debts, accounts and the requests),
\* though requests overlap and accounts are deleted under them.
THEOREM DebtTypes == Spec => []DTypeOK
BY TypeInit, TypeStep, PTL DEF Spec

-----------------------------------------------------------------------------
(* The legs of one debt against the balances. *)

LEMMA LegsAreIntNext ==
    ASSUME DTypeOK', NEW x
    PROVE  LegsOn(x)' \in [Debts -> Int]
<1> SUFFICES ASSUME NEW d \in Debts PROVE LegOn(d, debt'[d], x) \in Int
  BY DEF LegsOn
<1>1. debt'[d] \in Row /\ debt'[d].amount \in Int
  BY NumbersOfRows DEF DTypeOK
<1> QED BY <1>1 DEF LegOn, Booked, Delta

\* When one debt changes, the sum of the legs changes by that of this debt.
LEMMA OneDebtMoves ==
    ASSUME DTypeOK, DTypeOK', NEW d \in Debts, \A e \in Debts \ {d} : debt'[e] = debt[e], NEW x
    PROVE  SumFunctionOnSet(LegsOn(x)', Debts)
              = SumFunctionOnSet(LegsOn(x), Debts) - LegOn(d, debt[d], x) + LegOn(d, debt'[d], x)
<1>1. LegsOn(x) \in [Debts -> Int] /\ LegsOn(x)' \in [Debts -> Int]
  BY LegsAreInt, LegsAreIntNext
<1>2. \A e \in Debts \ {d} : LegsOn(x)'[e] = LegsOn(x)[e]
  BY DEF LegsOn, LegOn, Booked, Delta
<1>3. LegsOn(x)[d] = LegOn(d, debt[d], x) /\ LegsOn(x)'[d] = LegOn(d, debt'[d], x)
  BY DEF LegsOn
<1>4. SumFunctionOnSet(LegsOn(x)', Debts)
        = SumFunctionOnSet(LegsOn(x), Debts) - LegsOn(x)[d] + LegsOn(x)'[d]
  BY <1>1, <1>2, FinitelyManyDebts, SumWithOneChanged
<1> QED BY <1>3, <1>4

\* senkronize_nakit computes exactly the difference between the two legs.
LEMMA ChangeIsTheDifference ==
    ASSUME DTypeOK, NEW d \in Debts, NEW old \in Row, NEW new \in Row, NEW x \in Accounts,
           old.trace # None => old.paid, old.exists, ~new.exists => ~new.paid
    PROVE  LegOn(d, Settled(old, new), x) = LegOn(d, old, x) + Change(d, old, new, x)
<1> DEFINE to == Carrier(old, new)
           row == Settled(old, new)
<1>1. /\ row.exists = new.exists /\ row.paid = new.paid /\ row.amount = new.amount
      /\ row.trace = to
  BY DEF Settled, Row
<1>2. x # None
  BY NoneIsNothing
<1>3. to = x => new.paid /\ new.exists
  BY <1>2, CarrierKinds
<1>4. Delta(d, new.amount) \in Int /\ Booked(d, old) \in Int
  BY NumbersOfRows DEF Booked, Delta
<1>5. LegOn(d, row, x) = IF x = to THEN Delta(d, new.amount) ELSE 0
  BY <1>1, <1>2, <1>3 DEF LegOn, Booked
<1>6. LegOn(d, old, x) = IF old.paid /\ x = old.trace THEN Booked(d, old) ELSE 0
  BY <1>2 DEF LegOn
<1>7. Change(d, old, new, x) = LegOn(d, row, x) - LegOn(d, old, x)
  BY <1>5, <1>6 DEF Change
<1>8. LegOn(d, row, x) \in Int /\ LegOn(d, old, x) \in Int
  BY <1>4, <1>5, <1>6
<1> HIDE DEF row
<1>9. LegOn(d, row, x) = LegOn(d, old, x) + Change(d, old, new, x)
  BY <1>7, <1>8
<1> QED BY <1>9 DEF row

-----------------------------------------------------------------------------
(* The inductive invariant of requests served one at a time. *)

\* Nothing has changed since a request looked: the row it loaded is the row there
\* is, and the balances it will write are those there are, each with its change.
Undisturbed(r) ==
    /\ Running = {r}
    /\ about[r] \in Debts /\ before[r] = debt[about[r]] /\ before[r].exists
    /\ ~after[r].exists => ~after[r].paid
    /\ pc[r] = "synced" => \E new \in Row :
          /\ ~new.exists => ~new.paid
          /\ after[r] = Settled(before[r], new)
          /\ writes[r] = NewBalances(about[r], before[r], new)
NothingMoved == \A r \in Requests : pc[r] \in {"loaded", "synced"} => Undisturbed(r)

DInv == DTypeOK /\ RowsAreHeld /\ TraceIsLive /\ BalanceExplained /\ NothingMoved

LEMMA SettleInit == ASSUME Init PROVE DInv
<1>1. DTypeOK /\ RowsAreHeld
  BY TypeInit
<1>2. TraceIsLive /\ NothingMoved /\ live = {}
  BY DEF Init, TraceIsLive, NothingMoved
<1> QED BY <1>1, <1>2 DEF DInv, BalanceExplained

\* Balances stay explained when neither a debt nor a balance changes, and no
\* account appears.
LEMMA NoMoneyMoves ==
    ASSUME DInv, debt' = debt, live' \subseteq live,
           \A x \in live' : balance'[x] = balance[x] /\ external'[x] = external[x]
    PROVE  BalanceExplained'
<1> SUFFICES ASSUME NEW x \in live'
             PROVE  balance'[x] = external'[x] + SumFunctionOnSet(LegsOn(x)', Debts)
  BY DEF BalanceExplained
<1>1. LegsOn(x)' = LegsOn(x)
  BY DEF LegsOn, LegOn, Booked, Delta
<1> QED BY <1>1 DEF DInv, BalanceExplained

\* What is computed from a debt is the same as long as the accounts are.
LEMMA SameSight ==
    ASSUME live' = live, emanet' = emanet, balance' = balance,
           NEW d, NEW old, NEW new
    PROVE  /\ Settled(old, new)' = Settled(old, new)
           /\ NewBalances(d, old, new)' = NewBalances(d, old, new)
<1>1. Eligible' = Eligible
  BY DEF Eligible
<1>2. Carrier(old, new)' = Carrier(old, new)
  BY <1>1 DEF Carrier, DefaultCash
<1>3. \A y : Change(d, old, new, y)' = Change(d, old, new, y)
  BY <1>2 DEF Change, Booked, Delta
<1> QED BY <1>2, <1>3 DEF Settled, NewBalances

LEMMA SettleStep ==
    ASSUME Alone, ForeignKeys, DInv, [Next]_vars
    PROVE  DInv'
<1>0. DTypeOK' /\ RowsAreHeld' /\ DTypeOK /\ RowsAreHeld
  BY TypeStep DEF DInv
<1> USE DEF ledger, service
<1>q. ASSUME Running = {}, pc' = pc PROVE NothingMoved'
  BY <1>q DEF NothingMoved, Running
<1>1. ASSUME NEW d \in Debts, NEW m \in Amounts, CreateDebt(d, m) PROVE DInv'
  <2>1. NothingMoved'
    BY <1>1, <1>q DEF CreateDebt, MayBegin
  <2>2. ~debt[d].exists /\ ~debt'[d].paid /\ debt'[d].trace = None
        /\ \A e \in Debts \ {d} : debt'[e] = debt[e]
    BY <1>1 DEF CreateDebt, DTypeOK, DInv
  <2>3. TraceIsLive'
    BY <1>1, <2>2 DEF CreateDebt, TraceIsLive, DInv
  <2>4. BalanceExplained'
    <3> SUFFICES ASSUME NEW x \in live
                 PROVE  balance[x] = external[x] + SumFunctionOnSet(LegsOn(x)', Debts)
      BY <1>1 DEF CreateDebt, BalanceExplained
    <3>1. LegOn(d, debt[d], x) = 0 /\ LegOn(d, debt'[d], x) = 0
      BY <2>2 DEF LegOn, Booked
    <3>2. SumFunctionOnSet(LegsOn(x), Debts) \in Int
      BY <1>0, LegsAreInt, FinitelyManyDebts, SumIsInt
    <3> QED BY <1>0, <2>2, <3>1, <3>2, OneDebtMoves DEF DInv, BalanceExplained
  <2> QED BY <1>0, <2>1, <2>3, <2>4 DEF DInv
<1>2. ASSUME NEW r \in Requests, NEW d \in Debts, LoadDebt(r, d) PROVE DInv'
  <2>1. PICK row \in Asked(debt[d]) : after' = [after EXCEPT ![r] = row]
    BY <1>2 DEF LoadDebt
  <2>2. row \in Row /\ (~row.exists => ~row.paid)
    BY <1>2, <2>1, AskedRows DEF LoadDebt, DTypeOK, DInv
  <2>3. NothingMoved'
    BY <1>2, <2>1, <2>2 DEF LoadDebt, MayBegin, Running, NothingMoved, Undisturbed, DInv, DTypeOK
  <2>4. TraceIsLive' /\ BalanceExplained'
    BY <1>2, NoMoneyMoves DEF LoadDebt, TraceIsLive, DInv
  <2> QED BY <1>0, <2>3, <2>4 DEF DInv
<1>3. ASSUME NEW r \in Requests, SyncCash(r) PROVE DInv'
  <2>1. TraceIsLive' /\ BalanceExplained'
    BY <1>3, NoMoneyMoves DEF SyncCash, TraceIsLive, DInv
  <2>2. /\ pc[r] = "loaded" /\ Running = {r} /\ Running' = {r}
        /\ after[r] \in Row /\ (~after[r].exists => ~after[r].paid)
    BY <1>3 DEF SyncCash, Running, NothingMoved, Undisturbed, DInv, RowsAreHeld, DTypeOK
  <2>3. /\ writes'[r] = NewBalances(about[r], before[r], after[r])
        /\ after'[r] = Settled(before[r], after[r])
    BY <1>3 DEF SyncCash, DInv, DTypeOK
  <2>4. ~after'[r].exists => ~after'[r].paid
    BY <2>2, <2>3 DEF Settled, Row
  <2>5. NothingMoved'
    <3> SUFFICES ASSUME NEW q \in Requests, pc'[q] \in {"loaded", "synced"}
                 PROVE  Undisturbed(q)'
      BY DEF NothingMoved
    <3>1. q = r
      BY <2>2 DEF Running
    <3>3. /\ Running' = {q} /\ about'[q] \in Debts /\ before'[q] = debt'[about'[q]]
          /\ before'[q].exists /\ (~after'[q].exists => ~after'[q].paid)
      BY <1>3, <2>2, <2>4, <3>1 DEF SyncCash, NothingMoved, Undisturbed, DInv
    <3>4. /\ about' = about /\ before' = before /\ live' = live /\ emanet' = emanet
          /\ balance' = balance /\ debt' = debt
      BY <1>3 DEF SyncCash
    <3> QED BY <2>2, <2>3, <3>1, <3>3, <3>4, SameSight DEF Undisturbed
  <2> QED BY <1>0, <2>1, <2>5 DEF DInv
<1>4. ASSUME NEW r \in Requests, CommitDebt(r) PROVE DInv'
  <2> DEFINE old == before[r]
             new == after[r]
  <2>0. PICK d \in Debts : d = about[r]
    BY <1>4 DEF CommitDebt, NothingMoved, Undisturbed, DInv
  <2>1. pc[r] = "synced" /\ Running = {r} /\ d \in Debts /\ old = debt[d] /\ old.exists
        /\ old \in Row /\ new \in Row
    BY <1>4, <2>0 DEF CommitDebt, NothingMoved, Undisturbed, DInv, RowsAreHeld
  <2>2. NothingMoved'
    BY <1>4, <2>1 DEF CommitDebt, Running, NothingMoved, DInv, DTypeOK
  <2>3. CASE ~Lands(r)
    <3>1. debt' = debt /\ balance' = balance
      BY <1>4, <2>3 DEF CommitDebt
    <3>2. TraceIsLive' /\ BalanceExplained'
      BY <1>4, <3>1, NoMoneyMoves DEF CommitDebt, TraceIsLive, DInv
    <3> QED BY <1>0, <2>2, <3>2 DEF DInv
  <2>4. CASE Lands(r)
    <3>1. Merge(debt[d], old, new) = new
      BY <2>1 DEF Merge, Row
    <3>2. /\ debt' = [debt EXCEPT ![d] = new]
          /\ balance' = [x \in Accounts |-> IF x \in DOMAIN writes[r] THEN writes[r][x] ELSE balance[x]]
          /\ live' = live /\ external' = external
      BY <1>4, <2>0, <2>4, <3>1 DEF CommitDebt
    <3>3. PICK asked \in Row :
             /\ ~asked.exists => ~asked.paid
             /\ new = Settled(old, asked)
             /\ writes[r] = NewBalances(d, old, asked)
      BY <2>0, <2>1 DEF NothingMoved, Undisturbed, DInv
    <3>4. old.trace # None => old.paid
      BY <2>1 DEF TraceIsLive, DInv
    <3>5. ASSUME NEW x \in live
          PROVE  balance'[x] = external'[x] + SumFunctionOnSet(LegsOn(x)', Debts)
      <4> DEFINE change == Change(d, old, asked, x)
      <4>1. x \in Accounts /\ balance[x] \in Int /\ external[x] \in Int
        BY <1>0 DEF DTypeOK
      <4>2. change \in Int
        BY <2>1, ChangeIsInt
      <4>3. balance'[x] = balance[x] + change
        <5>1. CASE change # 0
          BY <3>2, <3>3, <4>1, <5>1 DEF NewBalances
        <5>2. CASE change = 0
          BY <3>2, <3>3, <4>1, <5>2 DEF NewBalances
        <5> QED BY <5>1, <5>2
      <4>4. LegOn(d, debt'[d], x) = LegOn(d, debt[d], x) + change
        <5>1. debt'[d] = new /\ debt[d] = old
          BY <1>0, <2>1, <3>2 DEF DTypeOK
        <5> QED BY <1>0, <2>1, <3>3, <3>4, <4>1, <5>1, ChangeIsTheDifference
      <4>5. \A e \in Debts \ {d} : debt'[e] = debt[e]
        BY <3>2
      <4>6. SumFunctionOnSet(LegsOn(x)', Debts)
              = SumFunctionOnSet(LegsOn(x), Debts) - LegOn(d, debt[d], x) + LegOn(d, debt'[d], x)
        BY <1>0, <2>1, <4>5, OneDebtMoves
      <4>7. SumFunctionOnSet(LegsOn(x), Debts) \in Int /\ LegOn(d, debt[d], x) \in Int
        <5>1. LegsOn(x) \in [Debts -> Int]
          BY <1>0, LegsAreInt
        <5>2. LegsOn(x)[d] = LegOn(d, debt[d], x)
          BY <2>1 DEF LegsOn
        <5> QED BY <2>1, <5>1, <5>2, FinitelyManyDebts, SumIsInt
      <4>8. balance[x] = external[x] + SumFunctionOnSet(LegsOn(x), Debts)
        BY DEF DInv, BalanceExplained
      <4> HIDE DEF change
      <4> QED BY <3>2, <4>1, <4>2, <4>3, <4>4, <4>6, <4>7, <4>8
    <3>6. BalanceExplained'
      BY <3>2, <3>5 DEF BalanceExplained
    <3>7. TraceIsLive'
      <4>1. new.exists /\ new.trace # None => new.paid /\ new.trace \in live
        BY <1>0, <2>1, <3>3, CarrierKinds DEF Settled, Row
      <4> QED BY <1>0, <2>1, <3>2, <4>1 DEF TraceIsLive, DInv, DTypeOK
    <3> QED BY <1>0, <2>2, <3>6, <3>7 DEF DInv
  <2> QED BY <2>3, <2>4
<1>5. ASSUME NEW x \in Accounts, NEW v \in Figures, TypeBalance(x, v) PROVE DInv'
  <2>1. NothingMoved'
    BY <1>5, <1>q DEF TypeBalance, MayBegin
  <2>2. TraceIsLive'
    BY <1>5 DEF TypeBalance, TraceIsLive, DInv
  <2>3. BalanceExplained'
    <3> SUFFICES ASSUME NEW y \in live
                 PROVE  balance'[y] = external'[y] + SumFunctionOnSet(LegsOn(y)', Debts)
      BY <1>5 DEF TypeBalance, BalanceExplained
    <3>1. LegsOn(y)' = LegsOn(y)
      BY <1>5 DEF TypeBalance, LegsOn, LegOn, Booked, Delta
    <3>2. balance[y] = external[y] + SumFunctionOnSet(LegsOn(y), Debts)
      BY DEF DInv, BalanceExplained
    <3>3. /\ SumFunctionOnSet(LegsOn(y), Debts) \in Int
          /\ balance[y] \in Int /\ external[y] \in Int /\ v \in Int /\ y \in Accounts
      BY <1>0, LegsAreInt, FinitelyManyDebts, SumIsInt, AmountsPositive DEF DTypeOK
    <3>4. /\ balance'[y] = IF y = x THEN v ELSE balance[y]
          /\ external'[y] = IF y = x THEN external[y] + v - balance[y] ELSE external[y]
      BY <1>0, <1>5, <3>3 DEF TypeBalance, DTypeOK
    <3> QED BY <3>1, <3>2, <3>3, <3>4
  <2> QED BY <1>0, <2>1, <2>2, <2>3 DEF DInv
<1>6. ASSUME NEW x \in Accounts, ToggleEmanet(x) \/ DeleteAccount(x) PROVE DInv'
  <2>1. NothingMoved'
    BY <1>6, <1>q DEF ToggleEmanet, DeleteAccount, MayBegin
  <2>2. TraceIsLive' /\ BalanceExplained'
    BY <1>6, NoMoneyMoves DEF ToggleEmanet, DeleteAccount, Unreferenced, TraceIsLive, DInv
  <2> QED BY <1>0, <2>1, <2>2 DEF DInv
<1>7. ASSUME NEW x \in Accounts, NEW held \in BOOLEAN, CreateAccount(x, held) PROVE DInv'
  <2>1. NothingMoved'
    BY <1>7, <1>q DEF CreateAccount, MayBegin
  <2>2. TraceIsLive'
    BY <1>7 DEF CreateAccount, TraceIsLive, DInv
  <2>3. x \notin live
    BY <1>0, <1>7, NumbersOfRows DEF CreateAccount
  <2>4. BalanceExplained'
    <3> SUFFICES ASSUME NEW y \in live \cup {x}
                 PROVE  balance'[y] = external'[y] + SumFunctionOnSet(LegsOn(y)', Debts)
      BY <1>7 DEF CreateAccount, BalanceExplained
    <3>1. LegsOn(y)' = LegsOn(y)
      BY <1>7 DEF CreateAccount, LegsOn, LegOn, Booked, Delta
    <3>2. CASE y = x
      <4>1. \A e \in Debts : LegOn(e, debt[e], x) = 0
        BY <2>3, NoneIsNothing DEF LegOn, Booked, TraceIsLive, DInv
      <4>2. SumFunctionOnSet(LegsOn(x), Debts) = 0
        BY <1>0, <4>1, LegsAreInt, FinitelyManyDebts, SumOfZeros DEF LegsOn
      <4> QED BY <1>0, <1>7, <3>1, <3>2, <4>2 DEF CreateAccount, DTypeOK
    <3>3. CASE y # x
      BY <1>0, <1>7, <3>1, <3>3 DEF CreateAccount, DTypeOK, DInv, BalanceExplained
    <3> QED BY <3>2, <3>3
  <2> QED BY <1>0, <2>1, <2>2, <2>4 DEF DInv
<1>8. CASE UNCHANGED vars
  <2>1. TraceIsLive' /\ BalanceExplained'
    BY <1>8, NoMoneyMoves DEF vars, TraceIsLive, DInv
  <2>2. NothingMoved'
    <3> SUFFICES ASSUME NEW r \in Requests, pc[r] \in {"loaded", "synced"}
                 PROVE  Undisturbed(r)'
      BY <1>8 DEF vars, NothingMoved
    <3>1. Undisturbed(r) /\ Running' = Running
      BY <1>8 DEF vars, DInv, NothingMoved, Running
    <3> QED BY <1>8, <3>1, SameSight DEF vars, Undisturbed
  <2> QED BY <1>0, <2>1, <2>2 DEF DInv
<1> QED BY <1>1, <1>2, <1>3, <1>4, <1>5, <1>6, <1>7, <1>8 DEF Next

\* Settlements add up (debt_settlement.py:74-135): each balance is what the user
\* typed plus the legs now settled on the account, and a leg is on an account that
\* exists, when requests are served one at a time and foreign keys are enforced.
THEOREM SettlementsAddUpAlone ==
    ASSUME Alone, ForeignKeys
    PROVE  Spec => []SettlementsAddUp
<1>1. Init => DInv
  BY SettleInit
<1>2. DInv /\ [Next]_vars => DInv'
  BY SettleStep
<1>3. DInv => SettlementsAddUp
  BY DEF DInv, SettlementsAddUp
<1> QED BY <1>1, <1>2, <1>3, PTL DEF Spec

-----------------------------------------------------------------------------
(* A step that settles a debt chooses an account that is not in trust.     *)

LEMMA OutsideTrustStep ==
    ASSUME Alone, DInv, [Next]_vars, NEW d \in Debts,
           debt'[d].trace # debt[d].trace, debt'[d].trace # None
    PROVE  ~emanet[debt'[d].trace]
<1> USE DEF ledger, service
<1>0. DTypeOK
  BY DEF DInv
<1>1. ASSUME NEW e \in Debts, NEW m \in Amounts, CreateDebt(e, m) PROVE FALSE
  <2>1. debt' = [debt EXCEPT ![e] = [exists |-> TRUE, amount |-> m, paid |-> FALSE, trace |-> None]]
    BY <1>1 DEF CreateDebt
  <2> QED BY <1>0, <2>1 DEF DTypeOK
<1>2. PICK r \in Requests : CommitDebt(r)
  BY <1>1 DEF Next, vars, LoadDebt, SyncCash, TypeBalance, ToggleEmanet, DeleteAccount, CreateAccount
<1>3. PICK e \in Debts : e = about[r]
  BY <1>2 DEF CommitDebt, NothingMoved, Undisturbed, DInv
<1>4. /\ d = e /\ debt'[d] = Merge(debt[d], before[r], after[r])
      /\ before[r] = debt[d]
  BY <1>0, <1>2, <1>3 DEF CommitDebt, NothingMoved, Undisturbed, DInv, DTypeOK
<1>5. PICK new \in Row : after[r] = Settled(debt[d], new)
  BY <1>2, <1>3, <1>4 DEF CommitDebt, NothingMoved, Undisturbed, DInv
<1>6. debt[d] \in Row
  BY <1>0 DEF DTypeOK
<1>7. debt'[d].trace = Carrier(debt[d], new)
  BY <1>4, <1>5, <1>6 DEF Merge, Settled, Row
<1> QED BY <1>0, <1>6, <1>7, CarrierKinds

\* No debt is newly settled on an account held in trust (account_rules.py:40-46),
\* when requests are served one at a time: the account chosen is the one written.
THEOREM OutsideTrustAlone ==
    ASSUME Alone, ForeignKeys
    PROVE  Spec => SettlesOutsideTrust
<1>1. Init => DInv
  BY SettleInit
<1>2. DInv /\ [Next]_vars => DInv'
  BY SettleStep
<1>3. DInv /\ [Next]_vars =>
        [\A d \in Debts :
            debt'[d].trace # debt[d].trace /\ debt'[d].trace # None
                => ~emanet[debt'[d].trace]]_vars
  BY OutsideTrustStep
<1> QED BY <1>1, <1>2, <1>3, PTL DEF Spec, SettlesOutsideTrust

=============================================================================
