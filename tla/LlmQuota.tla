------------------------------ MODULE LlmQuota ------------------------------
(***************************************************************************)
(* The daily quota of LLM calls of one user: app/llm_quota.py, with the    *)
(* three paths that spend it (coach chat, premortem, the reflection that   *)
(* runs after an approval) and the slots of app/capacity.py they run under.*)
(*                                                                         *)
(* A path reserves a row of the ledger before it calls, counts the rows up *)
(* to its own, takes the reservation back when that exceeds the ceiling,   *)
(* and afterwards adds one row for each further call it really made.       *)
(***************************************************************************)
EXTENDS Integers, FiniteSetsExt

CONSTANTS
    Chats, Premortems, Reflections,   \* the uses of the LLM, by path
    Workers,       \* server processes; the slots are counted in each
    Slots,         \* LLM slots of a process
    Ceiling,       \* COACH_DAILY_USER_LIMIT; 0 is no ceiling
    MaxCalls,      \* bound: provider calls one use can make
    LastDay,       \* bound: the days are 1..LastDay
    Dialects,      \* the databases a run may be on, see dialect
    Faults,        \* may a write of the ledger fail?
    Crashes,       \* may a worker be killed?
    Null

Uses == Chats \cup Premortems \cup Reflections
Days == 1..LastDay

ASSUME UsesApart ==
    /\ Chats \cap Premortems = {} /\ Chats \cap Reflections = {} /\ Premortems \cap Reflections = {}
    /\ IsFiniteSet(Uses)
ASSUME QuotaNumbers == Ceiling \in Nat /\ Slots \in Nat /\ MaxCalls \in Nat /\ LastDay \in Nat \ {0}
ASSUME QuotaFlags   ==
    {Faults, Crashes} \subseteq BOOLEAN /\ Dialects \subseteq {"sqlite", "postgresql"}
ASSUME NullIsNoRow  == Null \notin [id : Nat, of : Uses, day : Days] /\ Null \notin Workers

VARIABLES
    dialect,    \* "sqlite": a row gets its id and is visible at once, under the
                \* write lock.  "postgresql": the id comes from a sequence when
                \* the row is flushed, the row is visible when it is committed
    log,        \* the user's rows of api_call_log
    highId,     \* the highest id ever given
    day,        \* the UTC day
    at, home,   \* a use: its place, the worker it runs in,
    mine,       \* the row it reserved
    calls,      \* the calls it made
    admitted, refused   \* ghosts: the day the count let it pass, or turned it away (0: not)

logIds == <<log, highId>>
use    == <<at, home, mine, calls, admitted, refused>>
qvars  == <<dialect, logIds, day, use>>

LogRow == [id : Nat, of : Uses, day : Days]

Places == {"idle", "checked", "ready", "flushed", "reserved", "cancel", "call", "reconcile",
           "answered", "uncounted", "refused", "charged", "busy", "failed", "crashed"}

QTypeOK ==
    /\ dialect  \in Dialects
    /\ log      \in SUBSET LogRow
    /\ \A v, w \in log : v.id = w.id => v = w
    /\ highId   \in Nat
    /\ day      \in Days
    /\ at       \in [Uses -> Places]
    /\ home     \in [Uses -> Workers \cup {Null}]
    /\ mine     \in [Uses -> LogRow \cup {Null}]
    /\ calls    \in [Uses -> 0..MaxCalls]
    /\ admitted \in [Uses -> Days \cup {0}]
    /\ refused  \in [Uses -> Days \cup {0}]

QInit ==
    /\ dialect \in Dialects
    /\ log = {} /\ highId = 0 /\ day = 1
    /\ at       = [n \in Uses |-> "idle"]
    /\ home     = [n \in Uses |-> Null]
    /\ mine     = [n \in Uses |-> Null]
    /\ calls    = [n \in Uses |-> 0]
    /\ admitted = [n \in Uses |-> 0]
    /\ refused  = [n \in Uses |-> 0]

-----------------------------------------------------------------------------

Today == {w \in log : w.day = day}

\* Mutant: the row itself is not counted.
RankBefore(n) == Cardinality({w \in Today : w.id < mine[n].id})

\* The place of n's reservation among the rows of today (rezerve_et).
Rank(n) == Cardinality({w \in Today : w.id <= mine[n].id})

\* Mutant: ids are taken from the number of rows.
FreshIdsByCount == {Cardinality(log) + 1}

\* The ids a new row may get.  SQLite gives one above the rows of the table, of
\* all users, and so may give again that of a reservation taken back; a
\* sequence never repeats a value.
FreshIds == {i \in 1..(highId + 1) :
                IF dialect = "sqlite" THEN \A w \in log : w.id < i ELSE i > highId}

\* The uses that hold a slot of worker w.  A chat gives its slot back before
\* its calls are reconciled, a premortem after; a reflection takes none.
Holders(w) ==
    {n \in Chats \cup Premortems :
        /\ home[n] = w
        /\ \/ at[n] \in {"ready", "flushed", "reserved", "cancel", "call"}
           \/ n \in Premortems /\ at[n] = "reconcile"}

Serving(w) == {n \in Uses : home[n] = w
                /\ at[n] \in {"ready", "flushed", "reserved", "cancel", "call", "reconcile"}}

-----------------------------------------------------------------------------

(* chat looks at the day's calls before anything else; the answer may be   *)
(* out of date by the time it reserves.  It is also turned away when all   *)
(* users together have used up the provider and no other is configured.    *)
PreCheck(n) ==
    /\ n \in Chats /\ at[n] = "idle"
    /\ IF Ceiling # 0 /\ Cardinality(Today) >= Ceiling
         THEN /\ at'      = [at EXCEPT ![n] = "refused"]
              /\ refused' = [refused EXCEPT ![n] = day]
         ELSE /\ \E place \in {"checked", "busy"} : at' = [at EXCEPT ![n] = place]
              /\ UNCHANGED refused
    /\ UNCHANGED <<dialect, logIds, day, home, mine, calls, admitted>>

(* yavas_yol: a slot, or 503 at once.  A reflection needs none.            *)
TakeSlot(n, w) ==
    /\ at[n] = IF n \in Chats THEN "checked" ELSE "idle"
    /\ IF n \notin Reflections /\ Cardinality(Holders(w)) >= Slots
         THEN at' = [at EXCEPT ![n] = "busy"] /\ UNCHANGED home
         ELSE /\ at'   = [at EXCEPT ![n] = "ready"]
              /\ home' = [home EXCEPT ![n] = w]
    /\ UNCHANGED <<dialect, logIds, day, mine, calls, admitted, refused>>

(* rezerve_et writes the row ...                                           *)
Reserve(n) ==
    \E id \in FreshIds :
      LET row == [id |-> id, of |-> n, day |-> day] IN
      /\ at[n] = "ready"
      /\ mine'   = [mine EXCEPT ![n] = row]
      /\ highId' = IF id > highId THEN id ELSE highId
      /\ log'    = IF dialect = "sqlite" THEN log \cup {row} ELSE log
      /\ at'     = [at EXCEPT ![n] = IF dialect = "sqlite" THEN "reserved" ELSE "flushed"]
      /\ UNCHANGED <<dialect, day, home, calls, admitted, refused>>

CommitRow(n) ==
    /\ at[n] = "flushed"
    /\ log' = log \cup {mine[n]}
    /\ at'  = [at EXCEPT ![n] = "reserved"]
    /\ UNCHANGED <<dialect, highId, day, home, mine, calls, admitted, refused>>

(* ... or fails, and the use with it.                                      *)
FailToReserve(n) ==
    /\ Faults /\ at[n] \in {"ready", "flushed"}
    /\ at'   = [at EXCEPT ![n] = "failed"]
    /\ mine' = [mine EXCEPT ![n] = Null]
    /\ UNCHANGED <<dialect, logIds, day, home, calls, admitted, refused>>

(* rezerve_et counts the rows of today up to its own.                      *)
Count(n) ==
    /\ at[n] = "reserved"
    /\ IF Ceiling # 0 /\ Rank(n) > Ceiling
         THEN /\ at'      = [at EXCEPT ![n] = "cancel"]
              /\ refused' = [refused EXCEPT ![n] = day]
              /\ UNCHANGED admitted
         ELSE /\ at'       = [at EXCEPT ![n] = "call"]
              /\ admitted' = [admitted EXCEPT ![n] = day]
              /\ UNCHANGED refused
    /\ UNCHANGED <<dialect, logIds, day, home, mine, calls>>

\* Mutant: the reservation of a refused use stays.
KeepRow(n) == log

\* iptal_et: the reservation is taken back.
WithoutRow(n) == log \ {mine[n]}

(* 429, or the reflection is skipped; a failed delete is only logged.      *)
Cancel(n) ==
    /\ at[n] = "cancel"
    /\ \/ log' = WithoutRow(n) /\ at' = [at EXCEPT ![n] = "refused"]
       \/ Faults /\ UNCHANGED log /\ at' = [at EXCEPT ![n] = "charged"]
    /\ UNCHANGED <<dialect, highId, day, home, mine, calls, admitted, refused>>

(* The provider chain, with its retries; a call that fails counts as well. *)
Call(n) ==
    /\ at[n] = "call"
    /\ \E k \in 0..MaxCalls : calls' = [calls EXCEPT ![n] = k]
    /\ at' = [at EXCEPT ![n] = "reconcile"]
    /\ UNCHANGED <<dialect, logIds, day, home, mine, admitted, refused>>

\* Mutant: the call that the reservation stands for gets a row of its own too.
ExtraForEach(n, id) == [id : id..(id + calls[n] - 1), of : {n}, day : {day}]

\* The rows of the calls beyond the first, which the reservation stands for.
Extra(n, id) == [id : id..(id + calls[n] - 2), of : {n}, day : {day}]

(* ek_cagrilari_uzlastir: all of them, or none and a warning.              *)
Reconcile(n) ==
    /\ at[n] = "reconcile"
    /\ \/ \E id \in FreshIds :
             /\ log'    = log \cup Extra(n, id)
             /\ highId' = IF calls[n] < 2 \/ id + calls[n] - 2 < highId
                            THEN highId ELSE id + calls[n] - 2
             /\ at'     = [at EXCEPT ![n] = "answered"]
       \/ Faults /\ at' = [at EXCEPT ![n] = "uncounted"] /\ UNCHANGED logIds
    /\ UNCHANGED <<dialect, day, home, mine, calls, admitted, refused>>

(* A killed worker takes what it was serving with it; its slots come back  *)
(* with the process that replaces it, its committed rows stay.             *)
CrashWorker(w) ==
    /\ Crashes
    /\ Serving(w) # {}
    /\ at'   = [n \in Uses |-> IF n \in Serving(w) THEN "crashed" ELSE at[n]]
    /\ mine' = [n \in Uses |-> IF n \in Serving(w) /\ mine[n] \notin log THEN Null ELSE mine[n]]
    /\ UNCHANGED <<dialect, logIds, day, home, calls, admitted, refused>>

Midnight ==
    /\ day < LastDay
    /\ day' = day + 1
    /\ UNCHANGED <<dialect, logIds, use>>

QNext ==
    \/ \E n \in Uses :
          \/ PreCheck(n) \/ \E w \in Workers : TakeSlot(n, w)
          \/ Reserve(n) \/ CommitRow(n) \/ FailToReserve(n)
          \/ Count(n) \/ Cancel(n) \/ Call(n) \/ Reconcile(n)
    \/ \E w \in Workers : CrashWorker(w)
    \/ Midnight

QSpec == QInit /\ [][QNext]_qvars

-----------------------------------------------------------------------------

RowsOf(n) == {w \in log : w.of = n}
RowsOn(d) == {w \in log : w.day = d}

\* The uses let through on day d against the rows of that day.  One that
\* reserves before midnight and counts after it is compared with a day its row
\* is not in, and is let through on neither.
AdmittedOn(d) == {n \in Uses : admitted[n] = d /\ mine[n] # Null /\ mine[n].day = d}

WithinCeiling == Ceiling # 0 => \A d \in Days : Cardinality(AdmittedOn(d)) <= Ceiling

\* However the uses overlap, and wherever a worker dies, the ceiling is not
\* pierced on SQLite: no more uses pass the count of a day than it allows
\* (BUG #212, "eszamanli istekler tavani delmesin").
ReservationsWithinCeiling == dialect = "sqlite" => WithinCeiling

\* A use that was answered left one row for each call it made, and one when it
\* made none: each row of the ledger stands for its own call (D15, BUG #274).
CallsAreCounted ==
    \A n \in Uses : at[n] = "answered" => Cardinality(RowsOf(n)) = Max({1, calls[n]})

\* A use that was turned away, by the ceiling or for want of a slot, costs the
\* user nothing ("reddedilen istek kullanicinin gunluk hakkini yakmaz").
RefusedCostsNothing ==
    \A n \in Uses : at[n] \in {"refused", "busy"} => RowsOf(n) = {}

\* Nobody is turned away by the others' reservations that are themselves taken
\* back: on a day that refused a use, the ledger stays full.
RefusedOnlyWhenFull ==
    \A n \in Uses : refused[n] # 0 => Cardinality(RowsOn(refused[n])) >= Ceiling

\* Being refused is fair: it costs nothing, and it happens only on a day that is really full
\* (llm_quota.py:256-293).
RefusalsAreFair == RefusedCostsNothing /\ RefusedOnlyWhenFull
=============================================================================
