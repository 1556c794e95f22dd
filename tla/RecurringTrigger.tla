-------------------------- MODULE RecurringTrigger --------------------------
(***************************************************************************)
(* Recurring incomes and expenses (app/routers/incomes.py, expenses.py):   *)
(* trigger-due turns every record that is due and not yet booked this      *)
(* month into a PendingAction, which then lives as in ActionLifecycle.     *)
(* The content of such an action is the month its transaction is dated in. *)
(***************************************************************************)
EXTENDS ActionLifecycle

CONSTANTS
    Recurrings,      \* ids of recurring_incomes and recurring_expenses
    Triggers,        \* POST .../trigger-due requests
    Home,            \* [record -> "personal" or "shared"]: its workspace and its account's
    LastMonth,       \* bound: the months are 1..LastMonth
    Regimes          \* the circumstances a run may be in, see regime

Months == 1..LastMonth

ASSUME MonthsArePayloads == LastMonth \in Nat \ {0} /\ Payloads = Months
ASSUME RegimesAreKnown == Regimes \subseteq {"rough", "quiet", "orderly"}
ASSUME NoneIsNoRecord == None \notin Recurrings
ASSUME TriggersApart == Triggers \cap Requests = {}

VARIABLES
    kept,        \* what has become of each record
    month,       \* the user's current month
    lastBooked,  \* last_triggered_year_month of each record
    source,      \* source_recurring_id of each action
    tpc,         \* where each trigger-due request is
    looking,     \* the record it is looking at
    today,       \* the month it began in
    created,     \* the action it has proposed
    regime       \* chosen at the start.  "rough": all requests overlap, calls
                 \* raise, processes die.  "quiet": nothing overlaps and nothing
                 \* fails.  "orderly": and no rule of the user is in the way

trig  == <<tpc, looking, today, created>>
rvars == <<vars, kept, month, lastBooked, source, trig, regime>>

RTypeOK ==
    /\ TypeOK
    /\ kept       \in [Recurrings -> {"unborn", "active", "paused", "deleted"}]
    /\ month      \in Months
    /\ lastBooked \in [Recurrings -> Months \cup {None}]
    /\ source     \in [Actions -> Recurrings \cup {None}]
    /\ tpc        \in [Triggers -> {"idle", "dedup", "propose", "link", "done", "crashed"}]
    /\ looking    \in [Triggers -> Recurrings \cup {None}]
    /\ today      \in [Triggers -> Months]
    /\ created    \in [Triggers -> Actions \cup {None}]
    /\ regime     \in Regimes

RInit ==
    /\ Init
    /\ kept       = [c \in Recurrings |-> "unborn"]
    /\ month      = 1
    /\ lastBooked = [c \in Recurrings |-> None]
    /\ source     = [a \in Actions |-> None]
    /\ tpc        = [t \in Triggers |-> "idle"]
    /\ looking    = [t \in Triggers |-> None]
    /\ today      = [t \in Triggers |-> 1]
    /\ created    = [t \in Triggers |-> None]
    /\ regime     \in Regimes

-----------------------------------------------------------------------------

Triggering == {t \in Triggers : tpc[t] \in {"dedup", "propose", "link"}}
InService  == {r \in Requests : pc[r] \in Serving}

Alone == Triggering = {} /\ InService = {}
MayBegin == regime = "rough" \/ Alone

TGoto(t, place) == tpc' = [tpc EXCEPT ![t] = place]

\* Mutant: the month of the last booking is not looked at.
NotBookedIgnored(c) == TRUE

(* The records are loaded; one already booked this month is passed over.   *)
NotBooked(c) == lastBooked[c] # month

BeginTrigger(t, c) ==
    /\ tpc[t] = "idle" /\ MayBegin /\ kept[c] = "active"
    /\ looking' = [looking EXCEPT ![t] = c]
    /\ today'   = [today EXCEPT ![t] = month]
    /\ IF NotBooked(c) THEN TGoto(t, "dedup") ELSE TGoto(t, "done")
    /\ UNCHANGED <<vars, kept, month, lastBooked, source, created, regime>>

(* The second check: an action of this record that is still pending.       *)
Awaiting(c) == \E a \in Actions : source[a] = c /\ status[a] = "pending"

CheckPending(t) ==
    /\ tpc[t] = "dedup"
    /\ IF Awaiting(looking[t]) THEN TGoto(t, "done") ELSE TGoto(t, "propose")
    /\ UNCHANGED <<vars, kept, month, lastBooked, source, looking, today, created, regime>>

\* Mutant: the record is marked as booked when it is proposed (BUG #070).
ProposeDueMarks(t) ==
    /\ tpc[t] = "propose"
    /\ \E a \in Actions : Propose(a, today[t]) /\ created' = [created EXCEPT ![t] = a]
    /\ lastBooked' = [lastBooked EXCEPT ![looking[t]] = today[t]]
    /\ TGoto(t, "link")
    /\ UNCHANGED <<kept, month, source, looking, today, regime>>

(* propose_action commits the row before it carries the record's id ...    *)
ProposeDue(t) ==
    /\ tpc[t] = "propose"
    /\ \E a \in Actions : Propose(a, today[t]) /\ created' = [created EXCEPT ![t] = a]
    /\ TGoto(t, "link")
    /\ UNCHANGED <<kept, month, lastBooked, source, looking, today, regime>>

(* ... which a second commit adds.                                         *)
LinkSource(t) ==
    /\ tpc[t] = "link"
    /\ source' = [source EXCEPT ![created[t]] = looking[t]]
    /\ TGoto(t, "done")
    /\ UNCHANGED <<vars, kept, month, lastBooked, looking, today, created, regime>>

(* A call raises, and the record is skipped as it is then; or the process  *)
(* dies.                                                                   *)
AbandonTrigger(t) ==
    /\ regime = "rough" /\ (Faults \/ Crashes)
    /\ t \in Triggering
    /\ TGoto(t, "crashed")
    /\ UNCHANGED <<vars, kept, month, lastBooked, source, looking, today, created, regime>>

(* _mark_recurring_triggered, in the commit that sets executed: the month  *)
(* comes from the payload that was applied, not from the calendar.         *)
BookedBy(r) == [lastBooked EXCEPT ![source[target[r]]] = held[r]]
Still(c) == kept[c] # "deleted"

MarkBooked(r) ==
    lastBooked' = IF pc[r] = "finish" /\ pc'[r] = "message" /\ source[target[r]] # None /\ Still(source[target[r]])
                    THEN BookedBy(r)
                    ELSE lastBooked

\* An exception after the handler's commit.
RaisesLate(r) == pc'[r] = "fail" /\ applied'[target[r]] > 0

(* Neither trigger-due hands its workspace to propose_action, which then   *)
(* takes the personal one; the handler looks for the account in there.     *)
RecordOf(a) == {looking[t] : t \in {u \in Triggers : created[u] = a}}
AccountFound(a) == \A c \in RecordOf(a) : Home[c] = "personal"
InScope(r) ==
    /\ pc[r] = "apply" /\ ~AccountFound(target[r]) => pc'[r] = "fail" /\ UNCHANGED applied
    /\ regime = "orderly" /\ pc[r] \in {"gate", "apply"} /\ pc'[r] = "fail" => ~AccountFound(target[r])

ServeAction(r) ==
    /\ \/ Serve(r) /\ InScope(r) /\ (RaisesLate(r) => regime = "rough")
       \/ regime = "rough" /\ (Abort(r) \/ Crash(r))
    /\ MarkBooked(r)
    /\ UNCHANGED <<kept, month, source, trig, regime>>

ArriveAction ==
    /\ MayBegin
    /\ Arrive
    /\ UNCHANGED <<kept, month, lastBooked, source, trig, regime>>

(* create_income, update_income and delete_income, each in one commit; the *)
(* actions a record has asked for outlive it.                              *)
Becomes(c, from, to) ==
    /\ MayBegin /\ kept[c] \in from
    /\ kept' = [kept EXCEPT ![c] = to]
    /\ UNCHANGED <<vars, month, source, trig, regime>>
CreateRecord(c) == Becomes(c, {"unborn"}, "active") /\ UNCHANGED lastBooked
PauseRecord(c) ==
    /\ Becomes(c, {"active"}, "paused") \/ Becomes(c, {"paused"}, "active")
    /\ UNCHANGED lastBooked
DeleteRecord(c) ==
    /\ Becomes(c, {"active", "paused"}, "deleted")
    /\ lastBooked' = [lastBooked EXCEPT ![c] = None]

NextMonth ==
    /\ month < LastMonth
    /\ month' = month + 1
    /\ UNCHANGED <<vars, kept, lastBooked, source, trig, regime>>

RNext ==
    \/ \E t \in Triggers :
          \/ \E c \in Recurrings : BeginTrigger(t, c)
          \/ CheckPending(t) \/ ProposeDue(t) \/ LinkSource(t) \/ AbandonTrigger(t)
    \/ ArriveAction
    \/ \E r \in Requests : ServeAction(r)
    \/ \E c \in Recurrings : CreateRecord(c) \/ PauseRecord(c) \/ DeleteRecord(c)
    \/ NextMonth

RSpec == RInit /\ [][RNext]_rvars

-----------------------------------------------------------------------------

Bookings(c, m) == {a \in Actions : source[a] = c /\ applied[a] > 0 /\ appliedAs[a] = m}

\* A record marked as booked for a month has had a transaction of that month applied: a
\* rejected or failed proposal never hides a due record (BUG #070, action_executor.py:488-531).
MarkIsEarned ==
    /\ RTypeOK
    /\ \A c \in Recurrings : lastBooked[c] # None => Bookings(c, lastBooked[c]) # {}

\* Unless triggers overlap with something, the user is never asked twice about the same
\* record at the same time, and a record is booked at most once a month, whatever is
\* rejected, paused, deleted or approved late in another month ("Dedup: ... ayni ay tekrar
\* cagirmaz", incomes.py:132-138).  A user who edits a proposal may move it to a month that
\* is booked already: the claim is about Editors = {}.
AskedOnce ==
    \A c \in Recurrings : Cardinality({a \in Actions : source[a] = c /\ status[a] = "pending"}) <= 1
BookedOncePerMonth == \A c \in Recurrings, m \in Months : Cardinality(Bookings(c, m)) <= 1
QuietlyOnce == regime # "rough" => AskedOnce /\ BookedOncePerMonth

\* A proposal of trigger-due can be applied when nothing has changed since and no rule of the
\* user forbids it: the account was chosen so that no dead end is proposed (incomes.py:145-148).
NoDeadEnds == regime = "orderly" => \A a \in Actions : RecordOf(a) # {} => status[a] # "failed"
=============================================================================
