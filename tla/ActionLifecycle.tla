-------------------------- MODULE ActionLifecycle --------------------------
(***************************************************************************)
(* The life of a PendingAction: a mutation of the user's finances that the *)
(* coach (or the recurring trigger) proposes and that is applied only when *)
(* the user approves it.  app/action_executor.py and app/routers/actions.py*)
(*                                                                         *)
(* Requests are served by several threads of several worker processes, and *)
(* the database session commits several times within one request; a step   *)
(* below is what one request does between two such points.                 *)
(***************************************************************************)
EXTENDS Naturals, FiniteSets

CONSTANTS
    Actions,     \* ids of pending_actions rows
    Payloads,    \* the contents an action may carry
    Approvers,   \* POST /api/actions/{id}/approve requests
    Rejecters,   \* POST /api/actions/{id}/reject requests
    Editors,     \* POST /api/actions/{id}/edit requests
    Faults,      \* may a database call or a handler raise?
    Crashes,     \* may the process serving a request die?
    None         \* no action, no payload, no request

Requests == Approvers \cup Rejecters \cup Editors

ASSUME RequestsDisjoint ==
    /\ Approvers \cap Rejecters = {}
    /\ Approvers \cap Editors = {}
    /\ Rejecters \cap Editors = {}
ASSUME NoneIsNothing == None \notin Actions \cup Payloads \cup Requests
ASSUME SwitchesBoolean == Faults \in BOOLEAN /\ Crashes \in BOOLEAN

VARIABLES
    status,      \* the row's status column, "absent" before the row exists
    payload,     \* the row's payload column
    history,     \* the action_history rows
    pc,          \* where each request is
    target,      \* the action each request is about
    held,        \* the payload a request holds in memory
    answer,      \* what the client was told
    applied,     \* ghost: how many times a handler committed the mutation
    appliedAs,   \* ghost: the payload it was last applied with
    claimant,    \* ghost: the request whose conditional UPDATE won the row
    late         \* ghost: actions a reject or an edit wrote after they had left pending

rows     == <<status, payload>>
ghosts   == <<applied, appliedAs, claimant, late>>
vars     == <<rows, history, pc, target, held, answer, ghosts>>

ActionStatus == {"pending", "approved", "rejected", "executed", "failed"}
Resolved     == {"rejected", "executed", "failed"}
Answers      == {"none", "ok", "conflict", "refused", "error"}
Owning       == {"load", "gate", "apply", "finish", "message", "fail", "history"}
Serving      == Owning \cup {"claim", "write"}

\* A row of action_history: what was applied, as it reads then, and by whom.
HistoryRow == [action : Actions, payload : Payloads, by : Approvers]

TypeOK ==
    /\ status    \in [Actions -> ActionStatus \cup {"absent"}]
    /\ payload   \in [Actions -> Payloads \cup {None}]
    /\ history   \in SUBSET HistoryRow
    /\ pc        \in [Requests -> Serving \cup {"idle", "done", "crashed"}]
    /\ target    \in [Requests -> Actions \cup {None}]
    /\ held      \in [Requests -> Payloads \cup {None}]
    /\ answer    \in [Requests -> Answers]
    /\ applied   \in [Actions -> Nat]
    /\ appliedAs \in [Actions -> Payloads \cup {None}]
    /\ claimant  \in [Actions -> Approvers \cup {None}]
    /\ late      \in SUBSET Actions

Init ==
    /\ status    = [a \in Actions |-> "absent"]
    /\ payload   = [a \in Actions |-> None]
    /\ history   = {}
    /\ pc        = [r \in Requests |-> "idle"]
    /\ target    = [r \in Requests |-> None]
    /\ held      = [r \in Requests |-> None]
    /\ answer    = [r \in Requests |-> "none"]
    /\ applied   = [a \in Actions |-> 0]
    /\ appliedAs = [a \in Actions |-> None]
    /\ claimant  = [a \in Actions |-> None]
    /\ late      = {}

-----------------------------------------------------------------------------
(* Steps of a request. *)

Goto(r, place) == pc' = [pc EXCEPT ![r] = place]

\* The request is answered; nothing is left for it to do.
Reply(r, what) ==
    /\ Goto(r, "done")
    /\ answer' = [answer EXCEPT ![r] = what]

SetStatus(a, s) == status' = [status EXCEPT ![a] = s]

Exists(a) == status[a] # "absent"

(* propose_action: one INSERT, committed with status pending. *)
Propose(a, p) ==
    /\ status[a] = "absent"
    /\ SetStatus(a, "pending")
    /\ payload' = [payload EXCEPT ![a] = p]
    /\ UNCHANGED <<history, pc, target, held, answer, ghosts>>

(* approve_action up to the status check of execute_pending_action.  The   *)
(* row read by the router is the one the check sees: it stays in the       *)
(* session's identity map and nothing expires it in between.               *)
BeginApprove(r, a) ==
    /\ pc[r] = "idle" /\ Exists(a)
    /\ target' = [target EXCEPT ![r] = a]
    /\ IF status[a] = "pending"
         THEN Goto(r, "claim") /\ UNCHANGED answer
         ELSE Reply(r, "conflict")
    /\ UNCHANGED <<rows, history, held, ghosts>>

(* UPDATE ... SET status='approved' WHERE id=:id AND status='pending'.     *)
\* Only executed rows are skipped (mutant).
ClaimGuardNotExecuted(a) == status[a] # "executed"

ClaimGuard(a) == status[a] = "pending"

\* Mutant: the loser of the claim is told that its approval succeeded.
ClaimLoserSucceeds(r) ==
    LET a == target[r] IN
    /\ pc[r] = "claim"
    /\ IF ClaimGuard(a)
         THEN /\ SetStatus(a, "approved")
              /\ claimant' = [claimant EXCEPT ![a] = r]
              /\ Goto(r, "load") /\ UNCHANGED answer
         ELSE /\ Reply(r, "ok") /\ UNCHANGED <<status, claimant>>
    /\ UNCHANGED <<payload, history, target, held, applied, appliedAs, late>>

Claim(r) ==
    LET a == target[r] IN
    /\ pc[r] = "claim"
    /\ IF ClaimGuard(a)
         THEN /\ SetStatus(a, "approved")
              /\ claimant' = [claimant EXCEPT ![a] = r]
              /\ Goto(r, "load") /\ UNCHANGED answer
         ELSE /\ Reply(r, "conflict") /\ UNCHANGED <<status, claimant>>
    /\ UNCHANGED <<payload, history, target, held, applied, appliedAs, late>>

(* json.loads(pending.payload): the commit of the claim expired the row,   *)
(* so this reads the payload the row has now.                              *)
LoadPayload(r) ==
    /\ pc[r] = "load"
    /\ held' = [held EXCEPT ![r] = payload[target[r]]]
    /\ Goto(r, "gate")
    /\ UNCHANGED <<rows, history, target, answer, ghosts>>

(* enforce_user_rules: the user's own rules let the action pass or not.    *)
RuleGate(r) ==
    /\ pc[r] = "gate"
    /\ \E verdict \in {"apply", "fail"} : Goto(r, verdict)
    /\ UNCHANGED <<rows, history, target, held, answer, ghosts>>

\* A handler commits the mutation it stands for.
Mutate(r) ==
    LET a == target[r] IN
    /\ applied'   = [applied EXCEPT ![a] = @ + 1]
    /\ appliedAs' = [appliedAs EXCEPT ![a] = held[r]]
    /\ UNCHANGED <<claimant, late>>

(* The handler succeeds, refuses without writing, raises before its commit,*)
(* or raises after it while it builds its result.                          *)
RunHandler(r) ==
    /\ pc[r] = "apply"
    /\ \/ Mutate(r) /\ Goto(r, "finish")
       \/ Goto(r, "fail") /\ UNCHANGED ghosts
       \/ Faults /\ Mutate(r) /\ Goto(r, "fail")
    /\ UNCHANGED <<rows, history, target, held, answer>>

(* status='executed', committed apart from the handler's own commit.       *)
MarkExecuted(r) ==
    /\ pc[r] = "finish"
    /\ \/ SetStatus(target[r], "executed") /\ Goto(r, "message")
       \/ Faults /\ Goto(r, "fail") /\ UNCHANGED status
    /\ UNCHANGED <<payload, history, target, held, answer, ghosts>>

(* The result message is built inside the same try block, after the commit:*)
(* an exception here still leads to _mark_failed.                          *)
BuildMessage(r) ==
    /\ pc[r] = "message"
    /\ \/ Goto(r, "history")
       \/ Faults /\ Goto(r, "fail")
    /\ UNCHANGED <<rows, history, target, held, answer, ghosts>>

\* Mutants: the row left as it is; a router that goes on to the history although the
\* executor reported a failure.
MarkFailedForgets(r) ==
    /\ pc[r] = "fail" /\ Reply(r, "refused")
    /\ UNCHANGED <<rows, history, target, held, ghosts>>
MarkFailedRecords(r) ==
    /\ pc[r] = "fail"
    /\ SetStatus(target[r], "failed") /\ Goto(r, "history")
    /\ UNCHANGED <<payload, history, target, held, answer, ghosts>>

(* _mark_failed, then the router turns the result into 403 or 422.         *)
MarkFailed(r) ==
    /\ pc[r] = "fail"
    /\ SetStatus(target[r], "failed")
    /\ Reply(r, "refused")
    /\ UNCHANGED <<payload, history, target, held, ghosts>>

(* The router writes the action_history row from the reloaded row.         *)
WriteHistory(r) ==
    LET a == target[r] IN
    /\ pc[r] = "history"
    /\ history' = history \cup {[action |-> a, payload |-> payload[a], by |-> r]}
    /\ Reply(r, "ok")
    /\ UNCHANGED <<rows, target, held, ghosts>>

(* reject_pending_action: read and check ...                               *)
BeginReject(r, a) ==
    /\ pc[r] = "idle" /\ Exists(a)
    /\ target' = [target EXCEPT ![r] = a]
    /\ IF status[a] = "pending"
         THEN Goto(r, "write") /\ UNCHANGED answer
         ELSE Reply(r, "conflict")
    /\ UNCHANGED <<rows, history, held, ghosts>>

\* An UPDATE of the row by its primary key: it lands whatever the status is by now.
WrittenByKey(a) ==
    /\ late' = IF status[a] = "pending" THEN late ELSE late \cup {a}
    /\ UNCHANGED <<applied, appliedAs, claimant>>

(* ... then the UPDATE.                                                    *)
CommitReject(r) ==
    /\ pc[r] = "write"
    /\ SetStatus(target[r], "rejected")
    /\ WrittenByKey(target[r])
    /\ Reply(r, "ok")
    /\ UNCHANGED <<payload, history, target, held>>

(* edit_action: the row is looked up among the pending ones ...            *)
BeginEdit(r, a, p) ==
    /\ pc[r] = "idle" /\ Exists(a)
    /\ target' = [target EXCEPT ![r] = a]
    /\ IF status[a] = "pending"
         THEN /\ Goto(r, "write") /\ UNCHANGED answer
              /\ held' = [held EXCEPT ![r] = p]
         ELSE Reply(r, "conflict") /\ UNCHANGED held
    /\ UNCHANGED <<rows, history, ghosts>>

\* Mutant: an edited action waits for approval again.
CommitEditReopens(r) ==
    /\ pc[r] = "write"
    /\ payload' = [payload EXCEPT ![target[r]] = held[r]]
    /\ SetStatus(target[r], "pending") /\ WrittenByKey(target[r])
    /\ Reply(r, "ok")
    /\ UNCHANGED <<history, target, held>>

(* ... and its payload is overwritten, whatever the status is by now.      *)
CommitEdit(r) ==
    /\ pc[r] = "write"
    /\ payload' = [payload EXCEPT ![target[r]] = held[r]]
    /\ WrittenByKey(target[r])
    /\ Reply(r, "ok")
    /\ UNCHANGED <<status, history, target, held>>

(* A database call raises where the code does not turn the exception into  *)
(* a failed action: the request ends with a 500 and the row stays as it is.*)
Abort(r) ==
    /\ Faults
    /\ pc[r] \in Serving \ {"apply", "finish", "message"}
    /\ Reply(r, "error")
    /\ UNCHANGED <<rows, history, target, held, ghosts>>

(* The worker process dies; nothing re-reads its requests at start-up.     *)
Crash(r) ==
    /\ Crashes
    /\ pc[r] \in Serving
    /\ Goto(r, "crashed")
    /\ UNCHANGED <<rows, history, target, held, answer, ghosts>>

-----------------------------------------------------------------------------

Serve(r) ==
    \/ r \in Approvers /\ \/ Claim(r) \/ LoadPayload(r) \/ RuleGate(r)
                          \/ RunHandler(r) \/ MarkExecuted(r)
                          \/ BuildMessage(r) \/ MarkFailed(r) \/ WriteHistory(r)
    \/ r \in Rejecters /\ CommitReject(r)
    \/ r \in Editors   /\ CommitEdit(r)

Arrive ==
    \E a \in Actions :
        \/ \E r \in Approvers : BeginApprove(r, a)
        \/ \E r \in Rejecters : BeginReject(r, a)
        \/ \E r \in Editors, p \in Payloads : BeginEdit(r, a, p)

Next ==
    \/ \E a \in Actions, p \in Payloads : Propose(a, p)
    \/ Arrive
    \/ \E r \in Requests : Serve(r) \/ Abort(r) \/ Crash(r)

Spec == Init /\ [][Next]_vars

\* A request that a worker has accepted is served to its end.
FairSpec == Spec /\ \A r \in Requests : WF_vars(Serve(r))

-----------------------------------------------------------------------------
(* What the approval flow promises. *)

\* However many approvals race, the mutation of an action is committed at
\* most once (the conditional UPDATE of execute_pending_action, BUG #413).
AppliedOnce == \A a \in Actions : applied[a] <= 1

\* An action shown as executed has had its mutation committed, and one that
\* nobody was allowed to claim has had nothing done to it.
ExecutedIsApplied ==
    \A a \in Actions :
        /\ status[a] = "executed" => applied[a] = 1
        /\ status[a] \in {"absent", "pending"} => applied[a] = 0

\* The history has at most one row per action, written by the approval that
\* won the action and only after the mutation was committed.
HistoryIsOfApplied ==
    \A h \in history :
        /\ applied[h.action] = 1
        /\ claimant[h.action] = h.by
        /\ \A g \in history : g.action = h.action => g = h

\* An action that no reject or edit wrote after it had left pending: rejected
\* means that nothing was applied, and so does failed where no call raises after
\* a handler's commit; a row of the history means executed, and it shows the
\* payload that was applied.
OnTimeIsConsistent ==
    \A a \in Actions \ late :
        /\ status[a] = "rejected" => claimant[a] = None /\ applied[a] = 0
        /\ status[a] = "failed" /\ ~Faults => applied[a] = 0
        /\ \A h \in history : h.action = a =>
              status[a] = "executed" /\ h.payload = appliedAs[a]

\* An approval or a rejection answered 409, and an edit answered 404, found the
\* action decided: it has left pending for good, so that the client need not
\* retry, and an approval that was told so did not touch it.
ConflictIsFinal ==
    \A r \in Requests :
        answer[r] = "conflict" =>
            /\ status[target[r]] \notin {"absent", "pending"}
            /\ r \in Approvers => claimant[target[r]] # r

\* An approval answered with success applied the action itself and left its
\* row in the history.
SuccessIsRecorded ==
    \A r \in Approvers :
        answer[r] = "ok" =>
            /\ claimant[target[r]] = r
            /\ applied[target[r]] = 1
            /\ \E h \in history : h.by = r /\ h.action = target[r]

\* A rejection answered with success leaves the action rejected and untouched,
\* unless an approval took the action between the rejection's read and its write.
RejectionHolds ==
    \A r \in Rejecters :
        answer[r] = "ok" /\ target[r] \notin late =>
            status[target[r]] = "rejected" /\ applied[target[r]] = 0

\* What the row of an action and its history say of it is what was done, for executed actions
\* whatever races, raises and dies, and for the others unless a reject or an edit overtook the
\* action between its own read and its write (action_executor.py:574-691, routers/actions.py:366-484).
RecordsAgree == ExecutedIsApplied /\ HistoryIsOfApplied /\ OnTimeIsConsistent

\* What a client is told is so: a conflict to anybody and a success to an approval whatever races,
\* a success to a rejection unless it was overtaken (action_executor.py:574-683, routers/actions.py:257-428).
AnswersAreHonest == ConflictIsFinal /\ SuccessIsRecorded /\ RejectionHolds

\* What the endpoint and the executor say of a rejection: the row becomes rejected and nothing is
\* applied (routers/actions.py:439, action_executor.py:657).
RejectedIsUntouched ==
    \A r \in Rejecters :
        answer[r] = "ok" => status[target[r]] = "rejected" /\ applied[target[r]] = 0

\* A step may take an action into approved only from pending, and none takes
\* an action back to pending.
ClaimedOnlyWhenPending ==
    [][\A a \in Actions :
        /\ status'[a] = "approved" /\ status[a] # "approved" => status[a] = "pending"
        /\ status'[a] = "pending" => status[a] \in {"absent", "pending"}]_vars

\* A claimed action does not stay in approved, and an applied one reaches the history, unless
\* the process of its claimant died, a call of it raised where nothing catches it, or the
\* executor reported a failure after the handler's commit (action_executor.py:574-653).
Lost(a) == \E r \in Approvers : claimant[a] = r /\ (pc[r] = "crashed" \/ answer[r] = "error")
Misreported(a) == \E r \in Approvers : claimant[a] = r /\ answer[r] = "refused"
ClaimIsResolved == \A a \in Actions : status[a] = "approved" ~> status[a] \in Resolved \/ Lost(a)
AppliedIsShown ==
    \A a \in Actions :
        applied[a] = 1 ~> (\E h \in history : h.action = a) \/ Lost(a) \/ Misreported(a)
ServedToTheEnd == ClaimIsResolved /\ AppliedIsShown

\* Seen from outside, an action is offered, taken at most once while it is
\* open, and performed at most once, after it was taken.
Promise == INSTANCE ApprovalPromise WITH
    Takers    <- Approvers,
    offered   <- {a \in Actions : status[a] # "absent"},
    open      <- {a \in Actions : status[a] = "pending"},
    taker     <- claimant,
    performed <- applied

ImplementsPromise == Promise!PSpec

=============================================================================
