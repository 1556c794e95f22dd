--------------------------- MODULE ApprovalProofs ---------------------------
(***************************************************************************)
(* The approval flow, for any number of actions, payloads and requests,    *)
(* with faults and crashes allowed: type correctness, the mutation of an   *)
(* action applied at most once, records and answers that agree, and the    *)
(* promise it implements.  Then the recurring records that use it: one is  *)
(* marked as booked only for a month a transaction was applied for; and    *)
(* while nothing overlaps and nobody edits a proposal, the user is asked   *)
(* once and each month is booked once.  Every step of the composed system  *)
(* is, to the approval flow, a step of ActionLifecycle or none, so what is *)
(* proved there holds here.                                                *)
(***************************************************************************)
EXTENDS RecurringTrigger, FiniteSetTheorems, TLAPS

-----------------------------------------------------------------------------
(* The approval flow: its inductive invariant. *)

\* A request that is being served is about an existing row, every row has a
\* payload and so does an edit that is about to be written.
WellFormed ==
    /\ \A a \in Actions : status[a] # "absent" => payload[a] \in Payloads
    /\ \A r \in Requests :
          pc[r] \in Serving => target[r] \in Actions /\ status[target[r]] # "absent"
    /\ \A r \in Editors : pc[r] = "write" => held[r] \in Payloads

\* A claimed row has left pending, and only claimed rows are applied.
ClaimOrder ==
    \A a \in Actions :
        /\ claimant[a] # None => status[a] \notin {"absent", "pending"}
        /\ claimant[a] = None => applied[a] = 0

\* The requests past the claim are the claimants of their actions, and they
\* know whether the mutation is committed.
Ownership ==
    \A r \in Approvers :
        /\ pc[r] \in Owning => claimant[target[r]] = r
        /\ pc[r] \in {"load", "gate", "apply"} => applied[target[r]] = 0
        /\ pc[r] \in {"finish", "message", "history"} => applied[target[r]] = 1

\* A request that wrote its history row has been answered.
WriterIsDone == \A h \in history : pc[h.by] = "done"

\* Only an answered request is done, and one that won a claim is past it.
AnsweredIsDone ==
    /\ \A r \in Requests : answer[r] # "none" => pc[r] = "done"
    /\ \A a \in Actions, r \in Approvers :
          claimant[a] = r => pc[r] \notin {"idle", "claim"} /\ answer[r] # "conflict"
    /\ \A r \in Requests : answer[r] # "none" => target[r] \in Actions

\* Only an approval takes an action past rejected, its claimant leaves it failed
\* when it is done, and without faults fails it before the handler.
OnlyClaimantDecides ==
    /\ \A a \in Actions : claimant[a] = None => status[a] \in {"absent", "pending", "rejected"}
    /\ \A a \in Actions, r \in Approvers : claimant[a] = r /\ status[a] = "failed" => pc[r] = "done"
    /\ ~Faults => \A r \in Approvers : pc[r] = "fail" => applied[target[r]] = 0

\* The claimant of an action that nobody wrote since holds and applies the payload
\* of the row, and finds the status as it left it.
InHand ==
    \A r \in Approvers : target[r] \in Actions \ late =>
        /\ pc[r] \in {"gate", "apply", "finish"} => held[r] = payload[target[r]]
        /\ pc[r] \in {"finish", "message", "history"} => appliedAs[target[r]] = payload[target[r]]
        /\ pc[r] \in {"message", "history"} => status[target[r]] = "executed"

IInv ==
    /\ TypeOK
    /\ WellFormed
    /\ ClaimOrder
    /\ Ownership
    /\ WriterIsDone
    /\ AppliedOnce
    /\ ExecutedIsApplied
    /\ HistoryIsOfApplied
    /\ OnTimeIsConsistent
    /\ OnlyClaimantDecides
    /\ InHand
    /\ AnsweredIsDone
    /\ ConflictIsFinal
    /\ SuccessIsRecorded
    /\ RejectionHolds

-----------------------------------------------------------------------------

\* Init establishes the invariant: no row exists and no request is served.
LEMMA InitInv == Init => IInv
BY RequestsDisjoint, NoneIsNothing
   DEF Init, IInv, TypeOK, HistoryRow, WellFormed, ClaimOrder, Ownership, WriterIsDone, AppliedOnce, ExecutedIsApplied,
       HistoryIsOfApplied, OnTimeIsConsistent, OnlyClaimantDecides, InHand, AnsweredIsDone, ConflictIsFinal,
       SuccessIsRecorded, RejectionHolds, Requests, Owning, Serving, ActionStatus, Answers

\* Every step of the approval flow preserves it.
LEMMA StepInv == IInv /\ [Next]_vars => IInv'
<1> SUFFICES ASSUME IInv, [Next]_vars PROVE IInv'
  OBVIOUS
<1> USE RequestsDisjoint, NoneIsNothing, SwitchesBoolean
<1> USE DEF IInv, TypeOK, HistoryRow, WellFormed, ClaimOrder, Ownership, WriterIsDone, AppliedOnce,
           ExecutedIsApplied, HistoryIsOfApplied, OnTimeIsConsistent, OnlyClaimantDecides, InHand,
           AnsweredIsDone, ConflictIsFinal, SuccessIsRecorded, RejectionHolds, Requests, Owning, Serving, ActionStatus, Resolved, Answers,
           vars, rows, ghosts, Goto, Reply, SetStatus, Exists
<1>1. ASSUME NEW a \in Actions, NEW p \in Payloads, Propose(a, p) PROVE IInv'
  BY <1>1 DEF Propose
<1>2. ASSUME NEW a \in Actions, NEW r \in Approvers, BeginApprove(r, a) PROVE IInv'
  BY <1>2 DEF BeginApprove
<1>3. ASSUME NEW a \in Actions, NEW r \in Rejecters, BeginReject(r, a) PROVE IInv'
  BY <1>3 DEF BeginReject
<1>4. ASSUME NEW a \in Actions, NEW r \in Editors, NEW p \in Payloads, BeginEdit(r, a, p) PROVE IInv'
  BY <1>4 DEF BeginEdit
<1>5. ASSUME NEW r \in Approvers, Claim(r) PROVE IInv'
  BY <1>5 DEF Claim, ClaimGuard
<1>6. ASSUME NEW r \in Approvers, LoadPayload(r) PROVE IInv'
  BY <1>6 DEF LoadPayload
<1>7. ASSUME NEW r \in Approvers, RuleGate(r) PROVE IInv'
  BY <1>7 DEF RuleGate
<1>8. ASSUME NEW r \in Approvers, RunHandler(r) PROVE IInv'
  BY <1>8 DEF RunHandler, Mutate
<1>9. ASSUME NEW r \in Approvers, MarkExecuted(r) PROVE IInv'
  BY <1>9 DEF MarkExecuted
<1>10. ASSUME NEW r \in Approvers, MarkFailed(r) PROVE IInv'
  BY <1>10 DEF MarkFailed
<1>11. ASSUME NEW r \in Approvers, WriteHistory(r) PROVE IInv'
  <2> DEFINE new == [action |-> target[r], payload |-> payload[target[r]], by |-> r]
  <2>1. /\ pc[r] = "history" /\ target[r] \in Actions
        /\ new \in [action : Actions, payload : Payloads, by : Approvers]
        /\ claimant[target[r]] = r /\ applied[target[r]] = 1
    BY <1>11 DEF WriteHistory
  <2>2. \A h \in history : h.by # r /\ h.action # target[r]
    BY <2>1
  <2>3. history' = history \cup {new} /\ pc' = [pc EXCEPT ![r] = "done"]
    BY <1>11 DEF WriteHistory
  <2>4. /\ TypeOK' /\ WellFormed' /\ ClaimOrder' /\ Ownership' /\ AppliedOnce'
        /\ ExecutedIsApplied' /\ AnsweredIsDone' /\ ConflictIsFinal'
        /\ OnlyClaimantDecides' /\ InHand' /\ RejectionHolds'
    BY <1>11, <2>1 DEF WriteHistory
  <2>5. WriterIsDone'
    BY <2>1, <2>3
  <2>6. HistoryIsOfApplied'
    BY <1>11, <2>1, <2>2, <2>3 DEF WriteHistory
  <2>7. SuccessIsRecorded'
    <3>1. new \in history' /\ history \subseteq history'
      BY <2>3
    <3>2. ASSUME NEW q \in Approvers, answer'[q] = "ok"
          PROVE  \E h \in history' : h.by = q /\ h.action = target'[q]
      <4>1. target' = target
        BY <1>11 DEF WriteHistory
      <4>2. CASE q = r
        BY <3>1, <4>1, <4>2
      <4>3. CASE q # r
        <5>1. answer[q] = "ok"
          BY <1>11, <3>2, <4>3 DEF WriteHistory
        <5>2. PICK h \in history : h.by = q /\ h.action = target[q]
          BY <5>1
        <5> QED
          BY <3>1, <4>1, <5>2
      <4> QED
        BY <4>2, <4>3
    <3>3. ASSUME NEW q \in Approvers, answer'[q] = "ok"
          PROVE  claimant'[target'[q]] = q /\ applied'[target'[q]] = 1
      BY <1>11, <2>1, <3>3 DEF WriteHistory
    <3> HIDE DEF new
    <3> QED
      BY <3>2, <3>3, Zenon
  <2>8. OnTimeIsConsistent'
    <3>1. UNCHANGED <<status, payload, claimant, applied, appliedAs, late>>
      BY <1>11 DEF WriteHistory
    <3>2. target[r] \notin late =>
             status[target[r]] = "executed" /\ appliedAs[target[r]] = payload[target[r]]
      BY <2>1
    <3>3. new.action = target[r] /\ new.payload = payload[target[r]]
      OBVIOUS
    <3> HIDE DEF new
    <3> QED
      BY <2>3, <3>1, <3>2, <3>3
  <2> QED
    BY <2>4, <2>5, <2>6, <2>7, <2>8
<1>12. ASSUME NEW r \in Approvers, BuildMessage(r) PROVE IInv'
  BY <1>12 DEF BuildMessage
<1>13. ASSUME NEW r \in Rejecters, CommitReject(r) PROVE IInv'
  BY <1>13 DEF CommitReject, WrittenByKey
<1>14. ASSUME NEW r \in Editors, CommitEdit(r) PROVE IInv'
  BY <1>14 DEF CommitEdit, WrittenByKey
<1>15. ASSUME NEW r \in Requests, Abort(r) PROVE IInv'
  BY <1>15 DEF Abort
<1>16. ASSUME NEW r \in Requests, Crash(r) PROVE IInv'
  BY <1>16 DEF Crash
<1>17. CASE UNCHANGED vars
  BY <1>17
<1> QED
  BY <1>1, <1>2, <1>3, <1>4, <1>5, <1>6, <1>7, <1>8, <1>9, <1>10, <1>11, <1>13,
     <1>14, <1>15, <1>16, <1>17, <1>12
     DEF Next, Arrive, Serve

-----------------------------------------------------------------------------

LEMMA Invariance == Spec => []IInv
<1>1. Init => IInv
  BY InitInv
<1>2. IInv /\ [Next]_vars => IInv'
  BY StepInv
<1> QED
  BY <1>1, <1>2, PTL DEF Spec

\* Every variable keeps its type (the columns of pending_actions and
\* action_history, and the state of a request).
THEOREM TypeCorrect == Spec => []TypeOK
<1>1. IInv => TypeOK
  BY DEF IInv
<1> QED
  BY <1>1, Invariance, PTL

\* However many approvals, rejections and edits race, and whatever raises or
\* crashes, a mutation is committed at most once (BUG #413).
THEOREM AtMostOnce == Spec => []AppliedOnce
<1>1. IInv => AppliedOnce
  BY DEF IInv
<1> QED
  BY <1>1, Invariance, PTL

\* The status an action shows and the rows of its history agree with what was
\* done: executed means applied, pending means untouched, one history row at most,
\* written by the approval that won the claim; and for an action that no reject or
\* edit wrote after it had left pending, rejected means untouched and the history
\* shows the payload that was applied.
THEOREM StatusAndHistoryAgree == Spec => []RecordsAgree
<1>1. IInv => RecordsAgree
  BY DEF IInv, RecordsAgree
<1> QED
  BY <1>1, Invariance, PTL

\* What a client is told is true: a conflict means that another request decided
\* the action, an approval's success that it applied and recorded it, a rejection's
\* that nothing was or will be applied, unless an approval overtook it.
THEOREM AnswersAreTrue == Spec => []AnswersAreHonest
<1>1. IInv => AnswersAreHonest
  BY DEF IInv, AnswersAreHonest
<1> QED
  BY <1>1, Invariance, PTL

-----------------------------------------------------------------------------
(* Properties of a single step, and the refinement of ApprovalPromise. *)

LEMMA StepClaims ==
    ASSUME IInv, Next
    PROVE  \A a \in Actions :
             /\ status'[a] = "approved" /\ status[a] # "approved" => status[a] = "pending"
             /\ status'[a] = "pending" => status[a] \in {"absent", "pending"}
BY DEF IInv, TypeOK, Next, Arrive, Serve, Propose, BeginApprove, BeginReject, BeginEdit,
       Claim, ClaimGuard, LoadPayload, RuleGate, RunHandler, MarkExecuted, BuildMessage,
       MarkFailed, WriteHistory, CommitReject, WrittenByKey, CommitEdit, Abort, Crash, rows, SetStatus

\* No step takes an action into approved but from pending, nor back to pending.
THEOREM ClaimsAreOneWay == Spec => ClaimedOnlyWhenPending
<1> DEFINE Step == \A a \in Actions :
      /\ status'[a] = "approved" /\ status[a] # "approved" => status[a] = "pending"
      /\ status'[a] = "pending" => status[a] \in {"absent", "pending"}
<1>1. IInv /\ [Next]_vars => [Step]_vars
  BY StepClaims
<1> QED
  BY <1>1, Invariance, PTL DEF Spec, ClaimedOnlyWhenPending

LEMMA InitMaps == Init => Promise!PInit
BY DEF Init, Promise!PInit

LEMMA StepMaps ==
    ASSUME IInv, [Next]_vars
    PROVE  [Promise!PNext]_Promise!pvars
<1> USE DEF Promise!pvars, rows, ghosts, SetStatus
<1>1. ASSUME NEW a \in Actions, NEW p \in Payloads, Propose(a, p)
      PROVE  Promise!Offer(a)
  BY <1>1 DEF Promise!Offer, Propose, IInv, TypeOK
<1>2. ASSUME NEW r \in Approvers, Claim(r)
      PROVE  Promise!Take(target[r], r) \/ UNCHANGED Promise!pvars
  BY <1>2 DEF Promise!Take, Claim, ClaimGuard, IInv, TypeOK, WellFormed, Serving, Requests
<1>3. ASSUME NEW r \in Approvers, RunHandler(r)
      PROVE  Promise!Perform(target[r]) \/ UNCHANGED Promise!pvars
  BY <1>3, NoneIsNothing
     DEF Promise!Perform, RunHandler, Mutate, IInv, TypeOK, WellFormed, Ownership, Serving, Owning, Requests
<1>4. ASSUME NEW r \in Approvers, MarkExecuted(r) \/ MarkFailed(r)
      PROVE  UNCHANGED Promise!pvars
  BY <1>4, NoneIsNothing
     DEF MarkExecuted, MarkFailed, IInv, TypeOK, WellFormed, ClaimOrder, Ownership,
         Serving, Owning, Requests
<1>5. ASSUME NEW r \in Rejecters, CommitReject(r)
      PROVE  Promise!Close(target[r])
  BY <1>5 DEF Promise!Close, CommitReject, WrittenByKey, IInv, TypeOK, WellFormed, Serving, Requests
<1>6. ASSUME NEW r \in Requests,
             \/ LoadPayload(r) \/ RuleGate(r) \/ BuildMessage(r) \/ WriteHistory(r)
             \/ CommitEdit(r) \/ Abort(r) \/ Crash(r)
      PROVE  UNCHANGED Promise!pvars
  BY <1>6 DEF LoadPayload, RuleGate, BuildMessage, WriteHistory, CommitEdit,
             WrittenByKey, Abort, Crash
<1>7. ASSUME NEW a \in Actions, NEW r \in Requests,
             \/ BeginApprove(r, a) \/ BeginReject(r, a)
             \/ \E p \in Payloads : BeginEdit(r, a, p)
      PROVE  UNCHANGED Promise!pvars
  BY <1>7 DEF BeginApprove, BeginReject, BeginEdit
<1>8. ASSUME UNCHANGED vars
      PROVE  UNCHANGED Promise!pvars
  BY <1>8 DEF vars
<1> HIDE DEF Promise!pvars
<1>9. ASSUME Next
      PROVE  Promise!PNext \/ UNCHANGED Promise!pvars
  <2>1. ASSUME NEW r \in Requests, Serve(r)
        PROVE  Promise!PNext \/ UNCHANGED Promise!pvars
    <3>1. pc[r] \in Serving => target[r] \in Actions
      BY DEF IInv, WellFormed
    <3>2. CASE r \in Approvers /\ Claim(r)
      <4>1. pc[r] \in Serving
        BY <3>2 DEF Claim, Serving
      <4> QED
        BY <1>2, <3>1, <3>2, <4>1 DEF Promise!PNext
    <3>3. CASE r \in Approvers /\ RunHandler(r)
      <4>1. pc[r] \in Serving
        BY <3>3 DEF RunHandler, Serving, Owning
      <4> QED
        BY <1>3, <3>1, <3>3, <4>1 DEF Promise!PNext
    <3>4. CASE r \in Rejecters /\ CommitReject(r)
      <4>1. pc[r] \in Serving
        BY <3>4 DEF CommitReject, WrittenByKey, Serving
      <4>2. Promise!Close(target[r])
        BY <1>5, <3>4
      <4> QED
        BY <3>1, <4>1, <4>2, SMTT(20) DEF Promise!PNext, Promise!Close
    <3>5. CASE r \in Approvers /\ (MarkExecuted(r) \/ MarkFailed(r))
      BY <1>4, <3>5
    <3>6. CASE \/ LoadPayload(r) \/ RuleGate(r) \/ BuildMessage(r) \/ WriteHistory(r)
                \/ CommitEdit(r)
      BY <1>6, <3>6
    <3> QED
      BY <2>1, <3>2, <3>3, <3>4, <3>5, <3>6 DEF Serve
  <2>2. ASSUME NEW a \in Actions, NEW p \in Payloads, Propose(a, p)
        PROVE  Promise!PNext
    <3>1. Promise!Offer(a)
      BY <1>1, <2>2
    <3> QED
      BY <3>1 DEF Promise!PNext, Promise!Offer
  <2>3. ASSUME Arrive
        PROVE  UNCHANGED Promise!pvars
    BY <1>7, <2>3 DEF Arrive, Requests
  <2>4. ASSUME NEW r \in Requests, Abort(r) \/ Crash(r)
        PROVE  UNCHANGED Promise!pvars
    BY <1>6, <2>4
  <2> HIDE DEF Promise!PNext
  <2> QED
    BY <1>9, <2>1, <2>2, <2>3, <2>4 DEF Next
<1> QED
  BY <1>8, <1>9

\* The approval flow, with its faults, crashes and races, implements the
\* promise: an offer is taken at most once, while open, and performed at most
\* once, after it was taken.
THEOREM FlowKeepsPromise == Spec => ImplementsPromise
<1>1. IInv /\ [Next]_vars => [Promise!PNext]_Promise!pvars
  BY StepMaps
<1> QED
  BY <1>1, InitMaps, Invariance, PTL DEF Spec, ImplementsPromise, Promise!PSpec

-----------------------------------------------------------------------------
(* Recurring records: a mark is earned. *)

\* The request past the handler applied what it holds.
HeldIsKnown ==
    \A r \in Approvers :
        /\ pc[r] \in {"gate", "apply", "finish"} => held[r] \in Payloads
        /\ pc[r] = "finish" => appliedAs[target[r]] = held[r]

\* A trigger-due request knows the record it is looking at; the action it has
\* proposed is its own until it is linked, and is linked once.
Linking ==
    \A t \in Triggers :
        /\ t \in Triggering => looking[t] \in Recurrings
        /\ tpc[t] = "link" =>
              /\ created[t] \in Actions
              /\ status[created[t]] # "absent" /\ source[created[t]] = None
              /\ \A u \in Triggers : tpc[u] = "link" /\ created[u] = created[t] => u = t

\* Only rows that exist carry a record's id.
Sourced == \A a \in Actions : source[a] # None => status[a] # "absent"

Earned == \A c \in Recurrings : lastBooked[c] # None => Bookings(c, lastBooked[c]) # {}

MInv == IInv /\ RTypeOK /\ HeldIsKnown /\ Linking /\ Sourced /\ Earned

-----------------------------------------------------------------------------

\* What the steps of the approval flow leave alone, and what a handler's commit
\* records.
LEMMA FlowStep ==
    ASSUME IInv, HeldIsKnown, [Next]_vars
    PROVE  /\ HeldIsKnown'
           /\ \A a \in Actions :
                 /\ status[a] # "absent" => status'[a] # "absent"
                 /\ applied[a] > 0 => applied'[a] > 0 /\ appliedAs'[a] = appliedAs[a]
<1> DEFINE Kept ==
             /\ HeldIsKnown'
             /\ \A a \in Actions :
                   /\ status[a] # "absent" => status'[a] # "absent"
                   /\ applied[a] > 0 => applied'[a] > 0 /\ appliedAs'[a] = appliedAs[a]
<1> SUFFICES Kept
  OBVIOUS
<1> USE RequestsDisjoint, NoneIsNothing
<1> USE DEF IInv, TypeOK, HistoryRow, WellFormed, ClaimOrder, Ownership, AppliedOnce, Requests,
           Owning, Serving, ActionStatus, Answers, vars, rows, ghosts, Goto, Reply, SetStatus, Exists,
           HeldIsKnown
<1>1. ASSUME NEW a \in Actions, NEW p \in Payloads, Propose(a, p) PROVE Kept
  BY <1>1 DEF Propose
<1>2. ASSUME NEW a \in Actions, NEW r \in Approvers, BeginApprove(r, a) PROVE Kept
  BY <1>2 DEF BeginApprove
<1>3. ASSUME NEW a \in Actions, NEW r \in Rejecters, BeginReject(r, a) PROVE Kept
  BY <1>3 DEF BeginReject
<1>4. ASSUME NEW a \in Actions, NEW r \in Editors, NEW p \in Payloads, BeginEdit(r, a, p) PROVE Kept
  BY <1>4 DEF BeginEdit
<1>5. ASSUME NEW r \in Approvers, Claim(r) PROVE Kept
  BY <1>5 DEF Claim, ClaimGuard
<1>6. ASSUME NEW r \in Approvers, LoadPayload(r) PROVE Kept
  BY <1>6 DEF LoadPayload
<1>7. ASSUME NEW r \in Approvers, RuleGate(r) PROVE Kept
  BY <1>7 DEF RuleGate
<1>8. ASSUME NEW r \in Approvers, RunHandler(r) PROVE Kept
  BY <1>8 DEF RunHandler, Mutate
<1>9. ASSUME NEW r \in Approvers, MarkExecuted(r) PROVE Kept
  BY <1>9 DEF MarkExecuted
<1>10. ASSUME NEW r \in Approvers, MarkFailed(r) PROVE Kept
  BY <1>10 DEF MarkFailed
<1>11. ASSUME NEW r \in Approvers, WriteHistory(r) PROVE Kept
  BY <1>11 DEF WriteHistory
<1>12. ASSUME NEW r \in Approvers, BuildMessage(r) PROVE Kept
  BY <1>12 DEF BuildMessage
<1>13. ASSUME NEW r \in Rejecters, CommitReject(r) PROVE Kept
  BY <1>13 DEF CommitReject, WrittenByKey
<1>14. ASSUME NEW r \in Editors, CommitEdit(r) PROVE Kept
  BY <1>14 DEF CommitEdit, WrittenByKey
<1>15. ASSUME NEW r \in Requests, Abort(r) PROVE Kept
  BY <1>15 DEF Abort
<1>16. ASSUME NEW r \in Requests, Crash(r) PROVE Kept
  BY <1>16 DEF Crash
<1>17. CASE UNCHANGED vars
  BY <1>17
<1> QED
  BY <1>1, <1>2, <1>3, <1>4, <1>5, <1>6, <1>7, <1>8, <1>9, <1>10, <1>11, <1>12, <1>13,
     <1>14, <1>15, <1>16, <1>17
     DEF Next, Arrive, Serve

\* Only the executor's last commit takes a request from finish to message, and
\* it leaves what was applied and held as it is.
LEMMA FinishStep ==
    ASSUME IInv, NEW r \in Requests, Serve(r) \/ Abort(r) \/ Crash(r),
           pc[r] = "finish", pc'[r] = "message"
    PROVE  r \in Approvers /\ UNCHANGED <<target, held, applied, appliedAs>>
BY RequestsDisjoint
   DEF Serve, Claim, LoadPayload, RuleGate, RunHandler, MarkExecuted, BuildMessage, MarkFailed,
       WriteHistory, CommitReject, WrittenByKey, CommitEdit, Abort, Crash, Goto, Reply, Requests, ghosts,
       IInv, TypeOK

\* To the approval flow each step is one of its own, or none.
LEMMA FlowOf ==
    ASSUME MInv, [RNext]_rvars
    PROVE  [Next]_vars
<1>1. ASSUME NEW t \in Triggers, ProposeDue(t) PROVE Next
  <2>1. today[t] \in Payloads
    BY MonthsArePayloads DEF MInv, RTypeOK
  <2> QED BY <1>1, <2>1 DEF ProposeDue, Next
<1>2. ASSUME NEW r \in Requests, ServeAction(r) PROVE Next
  BY <1>2 DEF ServeAction, Next
<1>3. ASSUME ArriveAction PROVE Next
  BY <1>3 DEF ArriveAction, Next
<1>4. CASE UNCHANGED rvars
  BY <1>4 DEF rvars
<1> QED BY <1>1, <1>2, <1>3, <1>4
        DEF RNext, BeginTrigger, CheckPending, LinkSource, AbandonTrigger, CreateRecord,
            PauseRecord, DeleteRecord, Becomes, NextMonth

\* A mark goes to a month that was applied.
LEMMA MarkStep ==
    ASSUME MInv, NEW r \in Requests, ServeAction(r)
    PROVE  /\ source' = source
           /\ lastBooked' \in [Recurrings -> Months \cup {None}]
           /\ \A c \in Recurrings : lastBooked'[c] # None =>
                 \/ lastBooked'[c] = lastBooked[c]
                 \/ \E a \in Actions :
                       source[a] = c /\ applied[a] > 0 /\ appliedAs[a] = lastBooked'[c]
<1>0. source' = source /\ MarkBooked(r) /\ (Serve(r) \/ Abort(r) \/ Crash(r))
  BY DEF ServeAction
<1>1. CASE /\ pc[r] = "finish" /\ pc'[r] = "message"
           /\ source[target[r]] # None /\ Still(source[target[r]])
  <2>1. r \in Approvers
    BY <1>0, <1>1, FinishStep DEF MInv
  <2>2. target[r] \in Actions /\ applied[target[r]] = 1
    BY <1>1, <2>1 DEF MInv, IInv, WellFormed, Ownership, Serving, Owning, Requests
  <2>3. held[r] \in Months /\ appliedAs[target[r]] = held[r]
    BY <1>1, <2>1, MonthsArePayloads DEF MInv, HeldIsKnown
  <2>4. lastBooked' = [lastBooked EXCEPT ![source[target[r]]] = held[r]]
    BY <1>0, <1>1 DEF MarkBooked, BookedBy
  <2>5. source[target[r]] \in Recurrings /\ lastBooked \in [Recurrings -> Months \cup {None}]
    BY <1>1, <2>2 DEF MInv, RTypeOK
  <2> QED BY <1>0, <2>2, <2>3, <2>4, <2>5
<1>2. CASE lastBooked' = lastBooked
  BY <1>0, <1>2 DEF MInv, RTypeOK
<1> QED BY <1>0, <1>1, <1>2 DEF MarkBooked

LEMMA MInvStep == MInv /\ [RNext]_rvars => MInv'
<1> SUFFICES ASSUME MInv, [RNext]_rvars PROVE MInv'
  OBVIOUS
<1>0. /\ RTypeOK /\ HeldIsKnown /\ Linking /\ Sourced /\ Earned /\ IInv
      /\ source \in [Actions -> Recurrings \cup {None}]
      /\ tpc \in [Triggers -> {"idle", "dedup", "propose", "link", "done", "crashed"}]
      /\ looking \in [Triggers -> Recurrings \cup {None}]
      /\ today \in [Triggers -> Months]
      /\ created \in [Triggers -> Actions \cup {None}]
      /\ lastBooked \in [Recurrings -> Months \cup {None}]
      /\ kept \in [Recurrings -> {"unborn", "active", "paused", "deleted"}]
      /\ month \in Months
  BY DEF MInv, RTypeOK
<1>f. IInv' /\ HeldIsKnown' /\ TypeOK'
  BY <1>0, FlowOf, FlowStep, StepInv DEF IInv
<1>g. \A a \in Actions :
         /\ status[a] # "absent" => status'[a] # "absent"
         /\ applied[a] > 0 => applied'[a] > 0 /\ appliedAs'[a] = appliedAs[a]
  BY <1>0, FlowOf, FlowStep
<1>s. ASSUME source' = source PROVE Sourced'
  BY <1>0, <1>g, <1>s DEF Sourced
<1>l. ASSUME source' = source, created' = created, looking' = looking,
             \A t \in Triggers : /\ tpc'[t] = "link" => tpc[t] = "link"
                                 /\ t \in Triggering' => t \in Triggering
      PROVE  Linking'
  BY <1>0, <1>g, <1>l DEF Linking
<1>e. ASSUME source' = source,
             \A c \in Recurrings : lastBooked'[c] # None => lastBooked'[c] = lastBooked[c]
      PROVE  Earned'
  BY <1>0, <1>g, <1>e DEF Earned, Bookings
<1>1. ASSUME NEW t \in Triggers, NEW c \in Recurrings, BeginTrigger(t, c) PROVE MInv'
  <2>1. RTypeOK'
    BY <1>0, <1>1, <1>f DEF BeginTrigger, RTypeOK, TGoto
  <2>2. Linking'
    BY <1>0, <1>1, <1>g DEF BeginTrigger, Linking, Triggering, TGoto
  <2> QED BY <1>1, <1>e, <1>f, <1>s, <2>1, <2>2 DEF MInv, BeginTrigger
<1>2. ASSUME NEW t \in Triggers, CheckPending(t) PROVE MInv'
  <2>1. RTypeOK'
    BY <1>0, <1>2, <1>f DEF CheckPending, RTypeOK, TGoto
  <2>2. Linking'
    BY <1>0, <1>2, <1>l DEF CheckPending, Triggering, TGoto
  <2> QED BY <1>2, <1>e, <1>f, <1>s, <2>1, <2>2 DEF MInv, CheckPending
<1>3. ASSUME NEW t \in Triggers, ProposeDue(t) PROVE MInv'
  <2>1. PICK a \in Actions : Propose(a, today[t]) /\ created' = [created EXCEPT ![t] = a]
    BY <1>3 DEF ProposeDue
  <2>2. RTypeOK'
    BY <1>0, <1>3, <1>f, <2>1 DEF ProposeDue, RTypeOK, TGoto
  <2>3. status[a] = "absent" /\ status' = [status EXCEPT ![a] = "pending"] /\ source[a] = None
    BY <1>0, <2>1 DEF Propose, SetStatus, Sourced
  <2>4. \A u \in Triggers : tpc[u] = "link" => created[u] # a
    BY <1>0, <2>3 DEF Linking
  <2>5. tpc' = [tpc EXCEPT ![t] = "link"] /\ source' = source /\ looking' = looking
        /\ tpc[t] = "propose"
    BY <1>3 DEF ProposeDue, TGoto
  <2>6. status'[a] # "absent"
    BY <1>0, <2>3 DEF IInv, TypeOK
  <2>7. Linking'
    BY <1>0, <1>g, <2>1, <2>3, <2>4, <2>5, <2>6 DEF Linking, Triggering
  <2> QED BY <1>3, <1>e, <1>f, <1>s, <2>2, <2>7 DEF MInv, ProposeDue
<1>4. ASSUME NEW t \in Triggers, LinkSource(t) PROVE MInv'
  <2>1. /\ tpc[t] = "link" /\ created[t] \in Actions /\ looking[t] \in Recurrings
        /\ status[created[t]] # "absent" /\ source[created[t]] = None
        /\ \A u \in Triggers \ {t} : tpc[u] = "link" => created[u] # created[t]
    BY <1>0, <1>4 DEF LinkSource, Linking, Triggering
  <2>2. /\ source' = [source EXCEPT ![created[t]] = looking[t]]
        /\ tpc' = [tpc EXCEPT ![t] = "done"]
        /\ UNCHANGED <<vars, kept, month, lastBooked, looking, today, created, regime>>
    BY <1>4 DEF LinkSource, TGoto
  <2>3. RTypeOK'
    BY <1>0, <1>f, <2>1, <2>2 DEF RTypeOK
  <2>4. Linking'
    BY <1>0, <2>1, <2>2 DEF Linking, Triggering, vars, rows
  <2>5. Sourced'
    BY <1>0, <2>1, <2>2 DEF Sourced, vars, rows
  <2>6. Earned'
    <3>1. \A a \in Actions : source[a] # None => source'[a] = source[a]
      BY <1>0, <2>1, <2>2
    <3> QED BY <1>0, <1>g, <2>2, <3>1, NoneIsNoRecord DEF Earned, Bookings
  <2> QED BY <1>f, <2>3, <2>4, <2>5, <2>6 DEF MInv
<1>5. ASSUME NEW t \in Triggers, AbandonTrigger(t) PROVE MInv'
  <2>1. RTypeOK'
    BY <1>0, <1>5, <1>f DEF AbandonTrigger, RTypeOK, TGoto
  <2>2. Linking'
    BY <1>0, <1>5, <1>l DEF AbandonTrigger, Triggering, TGoto
  <2> QED BY <1>5, <1>e, <1>f, <1>s, <2>1, <2>2 DEF MInv, AbandonTrigger
<1>6. CASE ArriveAction
  <2>1. UNCHANGED <<kept, month, lastBooked, source, trig, regime>>
    BY <1>6 DEF ArriveAction
  <2>2. RTypeOK' /\ Linking'
    BY <1>0, <1>f, <1>l, <2>1 DEF RTypeOK, Triggering, trig
  <2> QED BY <1>e, <1>f, <1>s, <2>1, <2>2 DEF MInv
<1>7. ASSUME NEW r \in Requests, ServeAction(r) PROVE MInv'
  <2>1. UNCHANGED <<kept, month, source, trig, regime>>
    BY <1>7 DEF ServeAction
  <2>2. /\ lastBooked' \in [Recurrings -> Months \cup {None}]
        /\ \A c \in Recurrings : lastBooked'[c] # None =>
              \/ lastBooked'[c] = lastBooked[c]
              \/ \E a \in Actions :
                    source[a] = c /\ applied[a] > 0 /\ appliedAs[a] = lastBooked'[c]
    BY <1>7, MarkStep
  <2>3. RTypeOK' /\ Linking'
    BY <1>0, <1>f, <1>l, <2>1, <2>2 DEF RTypeOK, Triggering, trig
  <2>4. Earned'
    BY <1>0, <1>g, <2>1, <2>2 DEF Earned, Bookings
  <2> QED BY <1>f, <1>s, <2>1, <2>3, <2>4 DEF MInv
<1>8. ASSUME NEW c \in Recurrings, CreateRecord(c) \/ PauseRecord(c) \/ DeleteRecord(c) PROVE MInv'
  <2>1. UNCHANGED <<vars, month, source, trig, regime>>
    BY <1>8 DEF CreateRecord, PauseRecord, DeleteRecord, Becomes
  <2>2. /\ kept' \in [Recurrings -> {"unborn", "active", "paused", "deleted"}]
        /\ lastBooked' = lastBooked \/ lastBooked' = [lastBooked EXCEPT ![c] = None]
    BY <1>0, <1>8 DEF CreateRecord, PauseRecord, DeleteRecord, Becomes
  <2>3. RTypeOK' /\ Linking'
    BY <1>0, <1>f, <1>l, <2>1, <2>2 DEF RTypeOK, Triggering, trig
  <2>4. Earned'
    BY <1>0, <1>e, <2>1, <2>2
  <2> QED BY <1>f, <1>s, <2>1, <2>3, <2>4 DEF MInv
<1>9. CASE NextMonth
  <2>1. month' \in Months /\ UNCHANGED <<vars, kept, lastBooked, source, trig, regime>>
    BY <1>0, <1>9, MonthsArePayloads DEF NextMonth, Months
  <2>2. RTypeOK' /\ Linking'
    BY <1>0, <1>f, <1>l, <2>1 DEF RTypeOK, Triggering, trig
  <2> QED BY <1>e, <1>f, <1>s, <2>1, <2>2 DEF MInv
<1>10. CASE UNCHANGED rvars
  <2>1. RTypeOK' /\ Linking'
    BY <1>0, <1>f, <1>l, <1>10 DEF RTypeOK, Triggering, trig, rvars
  <2> QED BY <1>e, <1>f, <1>s, <1>10, <2>1 DEF MInv, rvars
<1> QED BY <1>1, <1>2, <1>3, <1>4, <1>5, <1>6, <1>7, <1>8, <1>9, <1>10 DEF RNext

LEMMA MInvInit == RInit => MInv
<1> SUFFICES ASSUME RInit PROVE MInv
  OBVIOUS
<1>1. IInv /\ TypeOK
  BY InitInv DEF RInit, IInv
<1>2. RTypeOK
  BY <1>1, MonthsArePayloads DEF RInit, RTypeOK, Months
<1>3. HeldIsKnown
  BY DEF RInit, Init, HeldIsKnown, Requests
<1>4. Linking /\ Sourced /\ Earned
  BY DEF RInit, Linking, Sourced, Earned, Triggering
<1> QED BY <1>1, <1>2, <1>3, <1>4 DEF MInv

\* A record marked as booked for a month has had a transaction of that month
\* applied, however triggers, approvals, rejections and edits overlap and
\* wherever a process dies (_mark_recurring_triggered, BUG #070).
THEOREM MarksAreEarned == RSpec => []MarkIsEarned
<1>1. MInv => MarkIsEarned
  BY DEF MInv, Earned, MarkIsEarned
<1> QED BY <1>1, MInvInit, MInvStep, PTL DEF RSpec

-----------------------------------------------------------------------------
(* What holds while nothing overlaps. *)

OneAtATime ==
    /\ \A t, u \in Triggering : t = u
    /\ \A r, q \in InService : r = q
    /\ Triggering = {} \/ InService = {}

\* An action that may still be applied: it waits, or it is being approved.
Open(a) ==
    \/ status[a] = "pending"
    \/ \E r \in Approvers : target[r] = a /\ pc[r] \in {"load", "gate", "apply"}

Booked(a) == source[a] # None /\ applied[a] > 0
OfOneRecord(a, b) == source[a] # None /\ source[a] = source[b]

\* A record has one open action, of a month after all those it is booked for,
\* and each month is booked once.
OpenOnce  == \A a, b \in Actions : OfOneRecord(a, b) /\ Open(a) /\ Open(b) => a = b
OpenIsNew == \A a, b \in Actions :
                OfOneRecord(a, b) /\ Open(a) /\ applied[b] > 0 => appliedAs[b] < payload[a]
BookedOnce == \A a, b \in Actions :
                OfOneRecord(a, b) /\ applied[a] > 0 /\ applied[b] > 0 /\ appliedAs[a] = appliedAs[b]
                    => a = b

\* No month lies ahead of the calendar.
NotAhead ==
    /\ \A a \in Actions : status[a] # "absent" => payload[a] <= month
    /\ \A t \in Triggers : today[t] <= month
    /\ \A a \in Actions : applied[a] > 0 => appliedAs[a] \in Months /\ appliedAs[a] <= month

\* An approval applies the payload of its action, and what it has applied is
\* the latest booking.
HeldIsRow ==
    \A r \in Approvers :
        /\ pc[r] \in {"gate", "apply"} => held[r] = payload[target[r]]
        /\ pc[r] = "finish" =>
              \A b \in Actions : OfOneRecord(target[r], b) /\ applied[b] > 0 => appliedAs[b] <= held[r]

\* A record that is kept is marked for the latest month it was booked for, but
\* for the booking of an approval that has not yet come to mark it.
Marking(a) == \E r \in Approvers : target[r] = a /\ pc[r] = "finish"
LatestIsMarked ==
    \A a \in Actions :
        Booked(a) /\ kept[source[a]] # "deleted" /\ ~Marking(a)
            => lastBooked[source[a]] # None /\ appliedAs[a] <= lastBooked[source[a]]

\* A trigger-due request is about a month that is not booked, and about to
\* propose or to link, finds no open action.
TriggerIsDue ==
    \A t \in Triggering :
        /\ \A a \in Actions : source[a] = looking[t] /\ applied[a] > 0 => appliedAs[a] < today[t]
        /\ tpc[t] \in {"propose", "link"} => \A a \in Actions : source[a] = looking[t] => ~Open(a)
        /\ tpc[t] = "link" => payload[created[t]] = today[t] /\ applied[created[t]] = 0

Quiet ==
    /\ OneAtATime /\ OpenOnce /\ OpenIsNew /\ BookedOnce
    /\ NotAhead /\ HeldIsRow /\ LatestIsMarked /\ TriggerIsDue

QuietInv == MInv /\ (regime # "rough" => Quiet)

-----------------------------------------------------------------------------

\* Months are numbers, and what is applied or exists has one.
LEMMA MonthsAreNumbers ==
    ASSUME MInv, Quiet
    PROVE  /\ month \in Nat
           /\ \A a \in Actions :
                 /\ status[a] # "absent" => payload[a] \in Nat
                 /\ applied[a] > 0 => appliedAs[a] \in Nat
           /\ \A t \in Triggers : today[t] \in Nat
           /\ \A r \in Approvers : pc[r] \in {"gate", "apply", "finish"} => held[r] \in Nat
           /\ \A c \in Recurrings : lastBooked[c] # None => lastBooked[c] \in Nat
BY MonthsArePayloads
   DEF MInv, IInv, WellFormed, RTypeOK, HeldIsKnown, Quiet, NotAhead, Months

\* When nothing is applied and no action of a record opens, what a record has
\* open and booked stays in order.
LEMMA StaysInOrder ==
    ASSUME Quiet, MInv, source' = source, applied' = applied, appliedAs' = appliedAs,
           \A a \in Actions : status[a] # "absent" => payload'[a] = payload[a],
           \A a \in Actions : source[a] # None /\ Open(a)' => Open(a)
    PROVE  OpenOnce' /\ OpenIsNew' /\ BookedOnce'
<1>1. \A a \in Actions : source[a] # None => payload'[a] = payload[a]
  BY DEF MInv, Sourced
<1>2. OpenOnce' /\ BookedOnce'
  BY DEF Quiet, OpenOnce, BookedOnce, OfOneRecord
<1>3. OpenIsNew'
  BY <1>1 DEF Quiet, OpenIsNew, OfOneRecord
<1> QED BY <1>2, <1>3

\* The same for the approvals that are under way and the marks.
LEMMA StaysMarked ==
    ASSUME Quiet, MInv, MInv', UNCHANGED <<vars, source, trig>>, month' \in Nat, month <= month',
           \A c \in Recurrings :
              kept'[c] # "deleted" => kept[c] # "deleted" /\ lastBooked'[c] = lastBooked[c]
    PROVE  Quiet'
<1>1. \A a \in Actions : Open(a)' = Open(a) /\ Marking(a)' = Marking(a)
  BY DEF Open, Marking, vars, rows
<1>2. OpenOnce' /\ OpenIsNew' /\ BookedOnce'
  BY <1>1, StaysInOrder DEF vars, rows, ghosts
<1>3. OneAtATime' /\ HeldIsRow' /\ TriggerIsDue'
  BY <1>1 DEF Quiet, OneAtATime, HeldIsRow, TriggerIsDue, OfOneRecord, Triggering, InService,
              vars, rows, ghosts, trig
<1>4. NotAhead'
  BY MonthsAreNumbers DEF Quiet, NotAhead, vars, rows, ghosts, trig
<1>5. LatestIsMarked'
  <2>1. \A a \in Actions : source[a] # None => source[a] \in Recurrings
    BY DEF MInv, RTypeOK
  <2> QED BY <1>1, <2>1 DEF Quiet, LatestIsMarked, Booked, vars, rows, ghosts
<1> QED BY <1>2, <1>3, <1>4, <1>5 DEF Quiet

\* A trigger-due request begins when nothing else is going on, so the mark of
\* its record is the latest month it was booked for.
LEMMA BeginTriggerQuiet ==
    ASSUME Quiet, MInv, regime # "rough", NEW t \in Triggers, NEW c \in Recurrings, BeginTrigger(t, c)
    PROVE  Quiet'
<1>1. /\ Triggering = {} /\ InService = {} /\ kept[c] = "active"
      /\ looking' = [looking EXCEPT ![t] = c] /\ today' = [today EXCEPT ![t] = month]
      /\ \/ lastBooked[c] # month /\ tpc' = [tpc EXCEPT ![t] = "dedup"]
         \/ tpc' = [tpc EXCEPT ![t] = "done"]
      /\ UNCHANGED <<vars, kept, month, lastBooked, source, created, regime>>
  BY DEF BeginTrigger, MayBegin, Alone, NotBooked, TGoto
<1>2. /\ tpc \in [Triggers -> {"idle", "dedup", "propose", "link", "done", "crashed"}]
      /\ looking \in [Triggers -> Recurrings \cup {None}] /\ today \in [Triggers -> Months]
  BY DEF MInv, RTypeOK
<1>3. \A a \in Actions : Open(a)' = Open(a) /\ Marking(a)' = Marking(a) /\ ~Marking(a)
  BY <1>1 DEF Open, Marking, vars, rows, InService, Serving, Owning, Requests
<1>4. OpenOnce' /\ OpenIsNew' /\ BookedOnce'
  BY <1>1, <1>3, StaysInOrder DEF vars, rows, ghosts
<1>5. Triggering' \in SUBSET {t} /\ InService' = {}
  BY <1>1, <1>2 DEF Triggering, InService, vars
<1>6. OneAtATime'
  BY <1>5 DEF OneAtATime
<1>7. HeldIsRow' /\ LatestIsMarked'
  BY <1>1, <1>3 DEF Quiet, HeldIsRow, LatestIsMarked, OfOneRecord, Booked, vars, rows, ghosts
<1>8. NotAhead'
  BY <1>1, <1>2, MonthsAreNumbers DEF Quiet, NotAhead, vars, rows, ghosts
<1>9. ASSUME lastBooked[c] # month, NEW a \in Actions, source[a] = c, applied[a] > 0
      PROVE  appliedAs[a] < month
  <2>1. lastBooked[c] # None /\ appliedAs[a] <= lastBooked[c]
    BY <1>1, <1>3, <1>9, NoneIsNoRecord DEF Quiet, LatestIsMarked, Booked
  <2>2. PICK b \in Actions : applied[b] > 0 /\ appliedAs[b] = lastBooked[c]
    BY <2>1 DEF MInv, Earned, Bookings
  <2>3. lastBooked[c] <= month
    BY <2>2 DEF Quiet, NotAhead
  <2> QED BY <1>9, <2>1, <2>3, MonthsAreNumbers
<1>10. TriggerIsDue'
  <2> SUFFICES ASSUME t \in Triggering'
               PROVE  /\ looking'[t] = c /\ today'[t] = month /\ tpc'[t] = "dedup"
                      /\ lastBooked[c] # month
    BY <1>1, <1>5, <1>9 DEF TriggerIsDue, vars, ghosts
  <2> QED BY <1>1, <1>2 DEF Triggering
<1> QED BY <1>4, <1>6, <1>7, <1>8, <1>10 DEF Quiet

LEMMA CheckPendingQuiet ==
    ASSUME Quiet, MInv, NEW t \in Triggers, CheckPending(t)
    PROVE  Quiet'
<1>1. /\ tpc[t] = "dedup"
      /\ \/ ~Awaiting(looking[t]) /\ tpc' = [tpc EXCEPT ![t] = "propose"]
         \/ tpc' = [tpc EXCEPT ![t] = "done"]
      /\ UNCHANGED <<vars, kept, month, lastBooked, source, looking, today, created, regime>>
  BY DEF CheckPending, TGoto
<1>2. tpc \in [Triggers -> {"idle", "dedup", "propose", "link", "done", "crashed"}]
  BY DEF MInv, RTypeOK
<1>3. /\ t \in Triggering /\ Triggering = {t} /\ InService = {}
      /\ Triggering' \in SUBSET {t} /\ InService' = {}
  BY <1>1, <1>2 DEF Quiet, OneAtATime, Triggering, InService, vars
<1>4. \A a \in Actions : Open(a)' = Open(a) /\ Marking(a)' = Marking(a)
  BY <1>1 DEF Open, Marking, vars, rows
<1>5. OpenOnce' /\ OpenIsNew' /\ BookedOnce'
  BY <1>1, <1>4, StaysInOrder DEF vars, rows, ghosts
<1>6. OneAtATime' /\ NotAhead'
  BY <1>1, <1>3 DEF Quiet, OneAtATime, NotAhead, vars, rows, ghosts
<1>7. HeldIsRow' /\ LatestIsMarked'
  BY <1>1, <1>4 DEF Quiet, HeldIsRow, LatestIsMarked, OfOneRecord, Booked, vars, rows, ghosts
<1>8. ~Awaiting(looking[t]) => \A a \in Actions : source[a] = looking[t] => ~Open(a)
  BY <1>3 DEF Awaiting, Open, InService, Serving, Owning, Requests
<1>9. TriggerIsDue'
  <2>1. \A a \in Actions : source[a] = looking[t] /\ applied[a] > 0 => appliedAs[a] < today[t]
    BY <1>3 DEF Quiet, TriggerIsDue
  <2>2. t \in Triggering' => tpc'[t] = "propose" /\ ~Awaiting(looking[t])
    BY <1>1, <1>2 DEF Triggering
  <2> QED BY <1>1, <1>3, <1>4, <1>8, <2>1, <2>2 DEF TriggerIsDue, vars, ghosts
<1> QED BY <1>5, <1>6, <1>7, <1>9 DEF Quiet

LEMMA ProposeDueQuiet ==
    ASSUME Quiet, MInv, NEW t \in Triggers, ProposeDue(t)
    PROVE  Quiet'
<1>1. PICK a \in Actions : Propose(a, today[t]) /\ created' = [created EXCEPT ![t] = a]
  BY DEF ProposeDue
<1>2. /\ tpc[t] = "propose" /\ tpc' = [tpc EXCEPT ![t] = "link"]
      /\ UNCHANGED <<kept, month, lastBooked, source, looking, today, regime>>
  BY DEF ProposeDue, TGoto
<1>3. /\ status[a] = "absent" /\ status' = [status EXCEPT ![a] = "pending"]
      /\ payload' = [payload EXCEPT ![a] = today[t]]
      /\ UNCHANGED <<history, pc, target, held, answer, applied, appliedAs, claimant>>
  BY <1>1 DEF Propose, SetStatus, ghosts
<1>4. /\ tpc \in [Triggers -> {"idle", "dedup", "propose", "link", "done", "crashed"}]
      /\ created \in [Triggers -> Actions \cup {None}]
      /\ status \in [Actions -> ActionStatus \cup {"absent"}]
      /\ payload \in [Actions -> Payloads \cup {None}]
  BY DEF MInv, RTypeOK, IInv, TypeOK
<1>5. source[a] = None /\ applied[a] = 0 /\ looking[t] # None
  BY <1>2, <1>3, NoneIsNoRecord
     DEF MInv, Sourced, IInv, ExecutedIsApplied, Linking, Triggering
<1>6. /\ t \in Triggering /\ Triggering = {t} /\ InService = {}
      /\ Triggering' = {t} /\ InService' = {}
  BY <1>2, <1>3, <1>4 DEF Quiet, OneAtATime, Triggering, InService
<1>7. /\ \A b \in Actions : source[b] # None /\ Open(b)' => Open(b)
      /\ \A b \in Actions : Marking(b)' = Marking(b)
  BY <1>3, <1>4, <1>5 DEF Open, Marking
<1>8. OpenOnce' /\ OpenIsNew' /\ BookedOnce'
  BY <1>2, <1>3, <1>4, <1>7, StaysInOrder
<1>9. OneAtATime' /\ LatestIsMarked'
  BY <1>2, <1>3, <1>6, <1>7 DEF Quiet, OneAtATime, LatestIsMarked, Booked
<1>10. NotAhead'
  BY <1>2, <1>3, <1>4 DEF Quiet, NotAhead
<1>11. HeldIsRow'
  BY <1>3, <1>6 DEF HeldIsRow, InService, Serving, Owning, Requests
<1>12. TriggerIsDue'
  <2>1. \A b \in Actions : source[b] = looking[t] /\ applied[b] > 0 => appliedAs[b] < today[t]
    BY <1>6 DEF Quiet, TriggerIsDue
  <2>2. \A b \in Actions : source[b] = looking[t] => ~Open(b)'
    BY <1>2, <1>5, <1>6, <1>7 DEF Quiet, TriggerIsDue
  <2>3. created'[t] = a /\ payload'[a] = today[t]
    BY <1>1, <1>3, <1>4
  <2> QED BY <1>2, <1>3, <1>5, <1>6, <2>1, <2>2, <2>3 DEF TriggerIsDue
<1> QED BY <1>8, <1>9, <1>10, <1>11, <1>12 DEF Quiet

\* The action that gets its record's id is the only open one of the record.
LEMMA LinkSourceQuiet ==
    ASSUME Quiet, MInv, NEW t \in Triggers, LinkSource(t)
    PROVE  Quiet'
<1>1. PICK a, c : a = created[t] /\ c = looking[t]
  OBVIOUS
<1>2. /\ tpc[t] = "link" /\ tpc' = [tpc EXCEPT ![t] = "done"]
      /\ source' = [source EXCEPT ![a] = c]
      /\ UNCHANGED <<vars, kept, month, lastBooked, looking, today, created, regime>>
  BY <1>1 DEF LinkSource, TGoto
<1>3. /\ tpc \in [Triggers -> {"idle", "dedup", "propose", "link", "done", "crashed"}]
      /\ source \in [Actions -> Recurrings \cup {None}]
  BY DEF MInv, RTypeOK
<1>4. a \in Actions /\ c \in Recurrings /\ source[a] = None
  BY <1>1, <1>2 DEF MInv, Linking, Triggering
<1>5. /\ t \in Triggering /\ Triggering = {t} /\ InService = {}
      /\ Triggering' = {} /\ InService' = {}
  BY <1>2, <1>3 DEF Quiet, OneAtATime, Triggering, InService, vars
<1>6. /\ \A b \in Actions : source[b] = c /\ applied[b] > 0 => appliedAs[b] < payload[a]
      /\ \A b \in Actions : source[b] = c => ~Open(b)
      /\ applied[a] = 0
  BY <1>1, <1>2, <1>5 DEF Quiet, TriggerIsDue
<1>7. \A b \in Actions : Open(b)' = Open(b) /\ Marking(b)' = Marking(b)
  BY <1>2 DEF Open, Marking, vars, rows
<1>8. \A b, d \in Actions : OfOneRecord(b, d)' =>
         \/ OfOneRecord(b, d) \/ b = d
         \/ b = a /\ source[d] = c
         \/ d = a /\ source[b] = c
  BY <1>2, <1>3, <1>4 DEF OfOneRecord
<1>9. OpenOnce' /\ OpenIsNew' /\ BookedOnce'
  <2>1. OpenOnce'
    BY <1>6, <1>7, <1>8 DEF Quiet, OpenOnce
  <2>2. UNCHANGED <<applied, appliedAs, payload>>
    BY <1>2 DEF vars, rows, ghosts
  <2>3. BookedOnce'
    BY <1>6, <1>8, <2>2 DEF Quiet, BookedOnce
  <2>4. ASSUME NEW b \in Actions, NEW d \in Actions, OfOneRecord(b, d)', Open(b), applied[d] > 0
        PROVE  appliedAs[d] < payload[b]
    <3>1. CASE OfOneRecord(b, d)
      BY <2>4, <3>1 DEF Quiet, OpenIsNew
    <3>2. CASE b = d /\ b # a
      BY <1>2, <1>3, <2>4, <3>2 DEF Quiet, OpenIsNew, OfOneRecord
    <3>3. CASE b = d /\ b = a
      BY <1>6, <2>4, <3>3
    <3>4. CASE b = a /\ source[d] = c
      BY <1>6, <2>4, <3>4
    <3>5. CASE d = a /\ source[b] = c
      BY <1>6, <2>4, <3>5
    <3> QED BY <1>8, <2>4, <3>1, <3>2, <3>3, <3>4, <3>5
  <2>5. OpenIsNew'
    BY <1>7, <2>2, <2>4 DEF OpenIsNew
  <2> QED BY <2>1, <2>3, <2>5
<1>10. OneAtATime' /\ NotAhead' /\ TriggerIsDue'
  BY <1>2, <1>5 DEF Quiet, OneAtATime, NotAhead, TriggerIsDue, vars, rows, ghosts
<1>11. HeldIsRow'
  BY <1>2, <1>5 DEF HeldIsRow, InService, Serving, Owning, Requests, vars
<1>12. LatestIsMarked'
  BY <1>2, <1>3, <1>6, <1>7 DEF Quiet, LatestIsMarked, Booked, vars, rows, ghosts
<1> QED BY <1>9, <1>10, <1>11, <1>12 DEF Quiet

LEMMA ArriveQuiet ==
    ASSUME Quiet, MInv, regime # "rough", Editors = {}, ArriveAction
    PROVE  Quiet'
<1>1. /\ Triggering = {} /\ InService = {} /\ Arrive
      /\ UNCHANGED <<kept, month, lastBooked, source, trig, regime>>
  BY DEF ArriveAction, MayBegin, Alone
<1>2. PICK r \in Requests :
         /\ \E place \in {"claim", "write", "done"} : pc' = [pc EXCEPT ![r] = place]
         /\ \E a \in Actions : target' = [target EXCEPT ![r] = a]
         /\ UNCHANGED <<rows, held, ghosts>>
  <2>1. ASSUME NEW a \in Actions, NEW r \in Approvers, BeginApprove(r, a)
        PROVE  /\ \E place \in {"claim", "write", "done"} : pc' = [pc EXCEPT ![r] = place]
               /\ target' = [target EXCEPT ![r] = a]
               /\ UNCHANGED <<rows, held, ghosts>>
    BY <2>1 DEF BeginApprove, Goto, Reply
  <2>2. ASSUME NEW a \in Actions, NEW r \in Rejecters, BeginReject(r, a)
        PROVE  /\ \E place \in {"claim", "write", "done"} : pc' = [pc EXCEPT ![r] = place]
               /\ target' = [target EXCEPT ![r] = a]
               /\ UNCHANGED <<rows, held, ghosts>>
    BY <2>2 DEF BeginReject, Goto, Reply
  <2> QED BY <1>1, <2>1, <2>2 DEF Arrive, Requests
<1>3. pc \in [Requests -> Serving \cup {"idle", "done", "crashed"}]
      /\ target \in [Requests -> Actions \cup {None}]
  BY DEF MInv, IInv, TypeOK
<1>4. InService' \in SUBSET {r} /\ Triggering' = {}
  BY <1>1, <1>2, <1>3 DEF InService, Triggering, trig
<1>5. \A a \in Actions : (Open(a)' => Open(a)) /\ ~Marking(a) /\ ~Marking(a)'
  BY <1>1, <1>2, <1>3 DEF Open, Marking, InService, Serving, Owning, Requests, rows
<1>6. OpenOnce' /\ OpenIsNew' /\ BookedOnce'
  BY <1>1, <1>2, <1>5, StaysInOrder DEF rows, ghosts
<1>7. OneAtATime' /\ NotAhead' /\ TriggerIsDue'
  BY <1>1, <1>2, <1>4 DEF Quiet, OneAtATime, NotAhead, TriggerIsDue, rows, ghosts, trig
<1>8. HeldIsRow'
  BY <1>1, <1>2, <1>3 DEF HeldIsRow, InService, Serving, Owning, Requests
<1>9. LatestIsMarked'
  BY <1>1, <1>2, <1>5 DEF Quiet, LatestIsMarked, Booked, rows, ghosts
<1> QED BY <1>6, <1>7, <1>8, <1>9 DEF Quiet

\* A step of the one request in service: what it may do to its action and to
\* itself while nothing fails after a handler's commit.
LEMMA ServeSteps ==
    ASSUME Quiet, MInv, regime # "rough", Editors = {}, NEW r \in Requests, ServeAction(r)
    PROVE  /\ r \in InService /\ Serve(r) /\ MarkBooked(r)
           /\ UNCHANGED <<kept, month, source, trig, regime, target, payload>>
           /\ \A q \in Requests \ {r} : pc'[q] = pc[q] /\ held'[q] = held[q]
           /\ \/ /\ RunHandler(r) /\ r \in Approvers /\ Mutate(r)
                 /\ pc' = [pc EXCEPT ![r] = "finish"]
              \/ /\ MarkExecuted(r) /\ r \in Approvers /\ pc'[r] = "message"
                 /\ UNCHANGED <<applied, appliedAs>>
              \/ /\ pc[r] # "finish" /\ pc'[r] # "finish"
                 /\ UNCHANGED <<applied, appliedAs>>
<1>1. /\ Serve(r) /\ MarkBooked(r) /\ (RaisesLate(r) => regime = "rough")
      /\ UNCHANGED <<kept, month, source, trig, regime>>
  BY DEF ServeAction
<1>2. r \in InService
  BY <1>1 DEF Serve, Claim, LoadPayload, RuleGate, RunHandler, MarkExecuted, BuildMessage,
              MarkFailed, WriteHistory, CommitReject, WrittenByKey, CommitEdit, InService, Serving, Owning
<1>3. pc \in [Requests -> Serving \cup {"idle", "done", "crashed"}]
      /\ held \in [Requests -> Payloads \cup {None}]
      /\ applied \in [Actions -> Nat] /\ target[r] \in Actions
  BY <1>2 DEF MInv, IInv, TypeOK, WellFormed, InService
<1>4. ~(pc'[r] = "fail" /\ applied'[target[r]] > 0) \/ target'[r] # target[r]
  BY <1>1 DEF RaisesLate
<1>5. CASE r \in Approvers /\ RunHandler(r)
  <2>1. Mutate(r) => applied'[target[r]] > 0
    BY <1>3 DEF Mutate
  <2>2. /\ UNCHANGED <<target, payload, held>>
        /\ \/ Mutate(r) /\ pc' = [pc EXCEPT ![r] = "finish"]
           \/ pc' = [pc EXCEPT ![r] = "fail"] /\ UNCHANGED ghosts
           \/ Mutate(r) /\ pc' = [pc EXCEPT ![r] = "fail"]
        /\ pc[r] = "apply"
    BY <1>5 DEF RunHandler, Goto, rows
  <2> QED BY <1>1, <1>2, <1>3, <1>4, <1>5, <2>1, <2>2 DEF ghosts
<1>6. CASE r \in Approvers /\ MarkExecuted(r)
  <2>1. /\ UNCHANGED <<target, payload, held, applied, appliedAs>>
        /\ pc[r] = "finish"
        /\ \/ pc' = [pc EXCEPT ![r] = "message"]
           \/ pc' = [pc EXCEPT ![r] = "fail"]
    BY <1>6 DEF MarkExecuted, Goto, ghosts
  <2>2. applied[target[r]] = 1
    BY <1>6, <2>1 DEF MInv, IInv, Ownership
  <2> QED BY <1>1, <1>2, <1>3, <1>4, <1>6, <2>1, <2>2
<1>7. CASE /\ r \in Approvers
           /\ \/ Claim(r) \/ LoadPayload(r) \/ RuleGate(r) \/ BuildMessage(r)
              \/ MarkFailed(r) \/ WriteHistory(r)
  BY <1>1, <1>2, <1>3, <1>7
     DEF Claim, LoadPayload, RuleGate, BuildMessage, MarkFailed, WriteHistory, Goto, Reply,
         rows, ghosts
<1>8. CASE r \in Rejecters /\ CommitReject(r)
  BY <1>1, <1>2, <1>3, <1>8 DEF CommitReject, WrittenByKey, Reply, Goto, ghosts
<1> QED BY <1>1, <1>5, <1>6, <1>7, <1>8 DEF Serve

\* The action of the request in service stays open only where it was.
LEMMA ServeOpens ==
    ASSUME Quiet, MInv, regime # "rough", Editors = {}, NEW r \in Requests, ServeAction(r)
    PROVE  /\ \A a \in Actions : Open(a)' => Open(a)
           /\ \A q \in Approvers : pc'[q] \in {"gate", "apply"} => held'[q] = payload[target[q]]
<1>1. /\ r \in InService /\ Serve(r) /\ UNCHANGED <<target, payload>>
      /\ \A q \in Requests \ {r} : pc'[q] = pc[q] /\ held'[q] = held[q]
  BY ServeSteps
<1>2. /\ \A q \in Approvers : q # r => pc[q] \notin {"load", "gate", "apply"}
      /\ target[r] \in Actions
  BY <1>1 DEF Quiet, OneAtATime, InService, Serving, Owning, Requests, MInv, IInv, WellFormed
<1>3. /\ status \in [Actions -> ActionStatus \cup {"absent"}]
      /\ pc \in [Requests -> Serving \cup {"idle", "done", "crashed"}]
      /\ held \in [Requests -> Payloads \cup {None}]
  BY DEF MInv, IInv, TypeOK
<1> DEFINE Kept == /\ pc'[r] = "load" => Open(target[r])
                   /\ pc'[r] \in {"gate", "apply"} /\ r \in Approvers =>
                         Open(target[r]) /\ held'[r] = payload[target[r]]
                   /\ \A a \in Actions : status'[a] = "pending" => status[a] = "pending"
<1>4. ASSUME r \in Approvers /\ Claim(r) PROVE Kept
  BY <1>3, <1>4 DEF Claim, ClaimGuard, Goto, Reply, SetStatus, Open
<1>5. ASSUME r \in Approvers /\ LoadPayload(r) PROVE Kept
  BY <1>3, <1>5 DEF LoadPayload, Goto, Open, rows
<1>6. ASSUME r \in Approvers /\ RuleGate(r) PROVE Kept
  BY <1>3, <1>6 DEF RuleGate, Goto, Open, rows, Quiet, HeldIsRow
<1>7. ASSUME r \in Approvers /\ RunHandler(r) PROVE Kept
  BY <1>3, <1>7 DEF RunHandler, Goto, rows
<1>8. ASSUME r \in Approvers,
             MarkExecuted(r) \/ BuildMessage(r) \/ MarkFailed(r) \/ WriteHistory(r)
      PROVE  Kept
  BY <1>3, <1>8 DEF MarkExecuted, BuildMessage, MarkFailed, WriteHistory, Goto, Reply, SetStatus, rows
<1>9. ASSUME r \in Rejecters /\ CommitReject(r) PROVE Kept
  BY <1>3, <1>9 DEF CommitReject, WrittenByKey, Goto, Reply, SetStatus
<1>10. Kept
  <2> HIDE DEF Kept
  <2> QED BY <1>1, <1>4, <1>5, <1>6, <1>7, <1>8, <1>9 DEF Serve
<1>11. \A q \in Approvers : q # r => pc'[q] \notin {"load", "gate", "apply"}
  BY <1>1, <1>2 DEF Requests
<1>12. ASSUME NEW a \in Actions, Open(a)' PROVE Open(a)
  BY <1>1, <1>10, <1>11, <1>12 DEF Open
<1> QED BY <1>10, <1>11, <1>12

LEMMA ServeQuiet ==
    ASSUME Quiet, MInv, regime # "rough", Editors = {}, NEW r \in Requests, ServeAction(r), MInv'
    PROVE  Quiet'
<1>1. /\ r \in InService /\ MarkBooked(r)
      /\ UNCHANGED <<kept, month, source, trig, regime, target, payload>>
      /\ \A q \in Requests \ {r} : pc'[q] = pc[q] /\ held'[q] = held[q]
  BY ServeSteps
<1>2. /\ \A a \in Actions : Open(a)' => Open(a)
      /\ \A q \in Approvers : pc'[q] \in {"gate", "apply"} => held'[q] = payload[target[q]]
  BY ServeOpens
<1>3. /\ Triggering = {} /\ Triggering' = {} /\ InService = {r} /\ InService' \in SUBSET {r}
      /\ target[r] \in Actions /\ status[target[r]] # "absent"
  BY <1>1 DEF Quiet, OneAtATime, Triggering, InService, trig, MInv, IInv, WellFormed
<1>4. OneAtATime' /\ TriggerIsDue'
  BY <1>3 DEF OneAtATime, TriggerIsDue
<1>5. \A q \in Approvers : q # r => pc[q] # "finish" /\ pc'[q] # "finish"
  BY <1>1, <1>3 DEF InService, Serving, Owning, Requests
<1>6. /\ \A a \in Actions : status'[a] # "absent" => status[a] # "absent"
      /\ lastBooked \in [Recurrings -> Months \cup {None}]
      /\ source \in [Actions -> Recurrings \cup {None}]
  <2>1. status \in [Actions -> ActionStatus \cup {"absent"}]
    BY DEF MInv, IInv, TypeOK
  <2>2. status' = status \/ \E s : status' = [status EXCEPT ![target[r]] = s]
    BY ServeSteps DEF Serve, Claim, LoadPayload, RuleGate, RunHandler, MarkExecuted, BuildMessage,
       MarkFailed, WriteHistory, CommitReject, WrittenByKey, CommitEdit, SetStatus, rows
  <2> QED BY <1>3, <2>1, <2>2 DEF MInv, RTypeOK
<1>7. CASE UNCHANGED <<applied, appliedAs>>
  <2>1. OpenOnce' /\ OpenIsNew' /\ BookedOnce'
    BY <1>1, <1>2, <1>7, StaysInOrder
  <2>2. NotAhead'
    BY <1>1, <1>6, <1>7 DEF Quiet, NotAhead, trig
  <2>3. CASE MarkExecuted(r) /\ r \in Approvers /\ pc'[r] = "message"
    <3>1. pc[r] = "finish" /\ held' = held
      BY <2>3 DEF MarkExecuted
    <3>2. HeldIsRow'
      BY <1>1, <1>2, <1>5, <2>3 DEF HeldIsRow
    <3>3. ASSUME NEW a \in Actions, Booked(a), kept[source[a]] # "deleted"
          PROVE  lastBooked'[source[a]] # None /\ appliedAs[a] <= lastBooked'[source[a]]
      <4>1. CASE source[a] = source[target[r]]
        <5>1. appliedAs[a] <= held[r]
          BY <1>3, <2>3, <3>1, <3>3, <4>1 DEF Quiet, HeldIsRow, OfOneRecord, Booked
        <5>2. lastBooked' = [lastBooked EXCEPT ![source[a]] = held[r]]
          BY <1>1, <2>3, <3>1, <3>3, <4>1 DEF MarkBooked, BookedBy, Still, Booked
        <5>3. held[r] # None
          BY <2>3, <3>1, NoneIsNothing DEF MInv, HeldIsKnown
        <5> QED BY <1>6, <3>3, <5>1, <5>2, <5>3 DEF Booked
      <4>2. CASE source[a] # source[target[r]]
        <5>1. ~Marking(a)
          BY <1>5, <4>2 DEF Marking
        <5>2. lastBooked'[source[a]] = lastBooked[source[a]]
          BY <1>1, <1>3, <1>6, <3>3, <4>2 DEF MarkBooked, BookedBy, Booked
        <5> QED BY <3>3, <5>1, <5>2 DEF Quiet, LatestIsMarked
      <4> QED BY <4>1, <4>2
    <3>4. LatestIsMarked'
      BY <1>1, <1>7, <3>3 DEF LatestIsMarked, Booked
    <3> QED BY <1>4, <2>1, <2>2, <3>2, <3>4 DEF Quiet
  <2>4. CASE pc[r] # "finish" /\ pc'[r] # "finish"
    <3>1. HeldIsRow'
      BY <1>1, <1>2, <1>5, <2>4 DEF HeldIsRow
    <3>2. lastBooked' = lastBooked
      BY <1>1, <2>4 DEF MarkBooked
    <3>3. \A a \in Actions : ~Marking(a)
      BY <1>5, <2>4 DEF Marking
    <3>4. LatestIsMarked'
      BY <1>1, <1>7, <3>2, <3>3 DEF Quiet, LatestIsMarked, Booked
    <3> QED BY <1>4, <2>1, <2>2, <3>1, <3>4 DEF Quiet
  <2>5. ~(Mutate(r) /\ UNCHANGED <<applied, appliedAs>>)
    BY <1>3 DEF Mutate, MInv, IInv, TypeOK
  <2> QED BY <1>7, <2>3, <2>4, <2>5, ServeSteps
<1>8. CASE /\ RunHandler(r) /\ r \in Approvers /\ Mutate(r)
           /\ pc' = [pc EXCEPT ![r] = "finish"]
  <2> PICK a \in Actions : a = target[r]
    BY <1>3
  <2>1. /\ pc[r] = "apply" /\ held' = held /\ status' = status
    BY <1>8 DEF RunHandler, rows
  <2>2. /\ applied[a] = 0 /\ Open(a)
        /\ held[r] = payload[a] /\ held[r] \in Months /\ payload[a] <= month
    BY <1>3, <1>8, <2>1, MonthsArePayloads
       DEF MInv, IInv, Ownership, HeldIsKnown, Quiet, HeldIsRow, NotAhead, Open
  <2>3. /\ applied' = [applied EXCEPT ![a] = 1] /\ appliedAs' = [appliedAs EXCEPT ![a] = payload[a]]
        /\ applied \in [Actions -> Nat] /\ appliedAs \in [Actions -> Payloads \cup {None}]
    BY <1>8, <2>2 DEF Mutate, MInv, IInv, TypeOK
  <2>4. ~Open(a)'
    <3>1. status[a] # "pending"
      BY <1>3, <1>8, <2>1, NoneIsNothing
         DEF MInv, IInv, ClaimOrder, Ownership, Owning, Requests
    <3>2. pc'[r] = "finish" /\ \A q \in Approvers : q # r => pc'[q] \notin {"load", "gate", "apply"}
      BY <1>1, <1>3, <1>8 DEF InService, Serving, Owning, Requests, MInv, IInv, TypeOK
    <3> QED BY <2>1, <3>1, <3>2 DEF Open
  <2>5. \A b \in Actions : b # a => applied'[b] = applied[b] /\ appliedAs'[b] = appliedAs[b]
    BY <2>3
  <2>6. applied'[a] = 1 /\ appliedAs'[a] = payload[a] /\ payload[a] \in Nat /\ month \in Nat
    BY <2>2, <2>3, MonthsAreNumbers DEF Months
  <2>7. ASSUME NEW b \in Actions, b # a, OfOneRecord(a, b), applied[b] > 0
        PROVE  appliedAs[b] < payload[a] /\ appliedAs[b] \in Nat
    BY <2>2, <2>7, MonthsAreNumbers DEF Quiet, OpenIsNew
  <2>8. OpenOnce'
    BY <1>1, <1>2 DEF Quiet, OpenOnce, OfOneRecord
  <2>9. ASSUME NEW x \in Actions, NEW b \in Actions, OfOneRecord(x, b), Open(x)', applied'[b] > 0
        PROVE  appliedAs'[b] < payload[x]
    <3>1. Open(x) /\ x # a
      BY <1>2, <2>4, <2>9
    <3>2. b # a
      BY <2>2, <2>9, <3>1 DEF Quiet, OpenOnce
    <3> QED BY <2>5, <2>9, <3>1, <3>2 DEF Quiet, OpenIsNew
  <2>10. OpenIsNew'
    BY <1>1, <2>9 DEF OpenIsNew, OfOneRecord
  <2>11. BookedOnce'
    <3> SUFFICES ASSUME NEW x \in Actions, NEW y \in Actions, OfOneRecord(x, y),
                        applied'[x] > 0, applied'[y] > 0, appliedAs'[x] = appliedAs'[y]
                 PROVE  x = y
      BY <1>1 DEF BookedOnce, OfOneRecord
    <3>1. CASE x # a /\ y # a
      BY <2>5, <3>1 DEF Quiet, BookedOnce
    <3>2. CASE x = a /\ y # a
      BY <2>5, <2>6, <2>7, <3>2
    <3>3. CASE x # a /\ y = a
      <4>1. OfOneRecord(a, x)
        BY <3>3 DEF OfOneRecord
      <4> QED BY <2>5, <2>6, <2>7, <3>3, <4>1
    <3> QED BY <3>1, <3>2, <3>3
  <2>12. NotAhead'
    <3>1. \A b \in Actions : applied'[b] > 0 => appliedAs'[b] \in Months /\ appliedAs'[b] <= month
      BY <2>2, <2>5, <2>6 DEF Quiet, NotAhead
    <3> QED BY <1>1, <2>1, <3>1 DEF Quiet, NotAhead, trig
  <2>13. HeldIsRow'
    <3>1. ASSUME NEW b \in Actions, OfOneRecord(a, b), applied'[b] > 0
          PROVE  appliedAs'[b] <= held[r]
      <4>1. CASE b = a
        BY <2>2, <2>6, <4>1
      <4>2. CASE b # a
        BY <2>2, <2>5, <2>6, <2>7, <3>1, <4>2
      <4> QED BY <4>1, <4>2
    <3> QED BY <1>1, <1>2, <1>5, <2>1, <3>1 DEF HeldIsRow, OfOneRecord
  <2>14. LatestIsMarked'
    <3>1. lastBooked' = lastBooked
      BY <1>1, <2>1 DEF MarkBooked
    <3>2. Marking(a)'
      BY <1>1, <1>8 DEF Marking, MInv, IInv, TypeOK, Requests
    <3>3. \A b \in Actions : ~Marking(b)
      BY <1>5, <2>1 DEF Marking
    <3>4. \A b \in Actions : ~Marking(b)' => b # a
      BY <3>2
    <3> QED BY <1>1, <2>5, <3>1, <3>3, <3>4 DEF Quiet, LatestIsMarked, Booked
  <2> QED BY <1>4, <2>8, <2>10, <2>11, <2>12, <2>13, <2>14 DEF Quiet
<1> QED BY <1>7, <1>8, ServeSteps

LEMMA QuietStep ==
    ASSUME Editors = {}, QuietInv, [RNext]_rvars
    PROVE  QuietInv'
<1>1. MInv /\ MInv'
  BY MInvStep DEF QuietInv
<1>2. regime' = regime
  BY DEF RNext, rvars, BeginTrigger, CheckPending, ProposeDue, LinkSource, AbandonTrigger,
         ArriveAction, ServeAction, CreateRecord, PauseRecord, DeleteRecord, Becomes, NextMonth
<1>3. ASSUME regime # "rough" PROVE Quiet'
  <2>0. Quiet /\ month \in Nat
    BY <1>1, <1>3, MonthsAreNumbers DEF QuietInv
  <2>1. ASSUME NEW t \in Triggers, NEW c \in Recurrings, BeginTrigger(t, c) PROVE Quiet'
    BY <1>1, <1>3, <2>0, <2>1, BeginTriggerQuiet
  <2>2. ASSUME NEW t \in Triggers, CheckPending(t) PROVE Quiet'
    BY <1>1, <2>0, <2>2, CheckPendingQuiet
  <2>3. ASSUME NEW t \in Triggers, ProposeDue(t) PROVE Quiet'
    BY <1>1, <2>0, <2>3, ProposeDueQuiet
  <2>4. ASSUME NEW t \in Triggers, LinkSource(t) PROVE Quiet'
    BY <1>1, <2>0, <2>4, LinkSourceQuiet
  <2>5. ASSUME NEW t \in Triggers, AbandonTrigger(t) PROVE Quiet'
    BY <1>3, <2>5 DEF AbandonTrigger
  <2>6. CASE ArriveAction
    BY <1>1, <1>3, <2>0, <2>6, ArriveQuiet
  <2>7. ASSUME NEW r \in Requests, ServeAction(r) PROVE Quiet'
    BY <1>1, <1>3, <2>0, <2>7, ServeQuiet
  <2>8. ASSUME NEW c \in Recurrings, CreateRecord(c) \/ PauseRecord(c) \/ DeleteRecord(c)
        PROVE  Quiet'
    <3>1. /\ UNCHANGED <<vars, source, trig, month>>
          /\ \A b \in Recurrings :
                kept'[b] # "deleted" => kept[b] # "deleted" /\ lastBooked'[b] = lastBooked[b]
      BY <1>1, <2>8 DEF CreateRecord, PauseRecord, DeleteRecord, Becomes, MInv, RTypeOK
    <3> QED BY <1>1, <2>0, <3>1, StaysMarked
  <2>9. CASE NextMonth
    <3>1. /\ UNCHANGED <<vars, source, trig, kept, lastBooked>>
          /\ month' \in Nat /\ month <= month'
      BY <2>0, <2>9 DEF NextMonth
    <3> QED BY <1>1, <2>0, <3>1, StaysMarked
  <2>10. CASE UNCHANGED rvars
    <3>1. UNCHANGED <<vars, source, trig, kept, lastBooked, month>>
      BY <2>10 DEF rvars
    <3> QED BY <1>1, <2>0, <3>1, StaysMarked
  <2> QED BY <2>1, <2>2, <2>3, <2>4, <2>5, <2>6, <2>7, <2>8, <2>9, <2>10 DEF RNext
<1> QED BY <1>1, <1>2, <1>3 DEF QuietInv

LEMMA QuietInit == RInit => QuietInv
<1> SUFFICES ASSUME RInit PROVE QuietInv
  OBVIOUS
<1>1. /\ Triggering = {} /\ InService = {}
      /\ \A a \in Actions : applied[a] = 0 /\ status[a] = "absent" /\ source[a] = None
  BY DEF RInit, Init, Triggering, InService, Serving, Owning
<1>2. OneAtATime /\ OpenOnce /\ OpenIsNew /\ BookedOnce /\ LatestIsMarked /\ TriggerIsDue
  BY <1>1 DEF OneAtATime, OpenOnce, OpenIsNew, BookedOnce, LatestIsMarked, TriggerIsDue,
              OfOneRecord, Booked
<1>3. NotAhead /\ HeldIsRow
  BY <1>1 DEF NotAhead, HeldIsRow, RInit, Init, Requests
<1> QED BY <1>2, <1>3, MInvInit DEF QuietInv, Quiet

LEMMA NoMoreThanOne ==
    ASSUME NEW S, \A x, y \in S : x = y
    PROVE  Cardinality(S) <= 1
<1>1. CASE S = {}
  BY <1>1, FS_EmptySet
<1>2. CASE S # {}
  <2>1. PICK x : S = {x}
    BY <1>2
  <2> QED BY <2>1, FS_Singleton
<1> QED BY <1>1, <1>2

\* While nothing overlaps, nothing fails late and nobody edits a proposal, no
\* record waits twice and each month of a record is booked once, whatever is
\* rejected, paused, deleted or approved in a later month ("Dedup: ... ayni ay
\* tekrar cagirmaz", incomes.py:132-138).
THEOREM AskedAndBookedOnce ==
    ASSUME Editors = {}
    PROVE  RSpec => []QuietlyOnce
<1>1. QuietInv => QuietlyOnce
  <2> SUFFICES ASSUME QuietInv, regime # "rough" PROVE AskedOnce /\ BookedOncePerMonth
    BY DEF QuietlyOnce
  <2>1. OpenOnce /\ BookedOnce
    BY DEF QuietInv, Quiet
  <2>2. ASSUME NEW c \in Recurrings
        PROVE  Cardinality({a \in Actions : source[a] = c /\ status[a] = "pending"}) <= 1
    <3> DEFINE S == {a \in Actions : source[a] = c /\ status[a] = "pending"}
    <3>1. \A x, y \in S : x = y
      BY <2>1, NoneIsNoRecord DEF OpenOnce, OfOneRecord, Open
    <3> HIDE DEF S
    <3>2. Cardinality(S) <= 1
      BY <3>1, NoMoreThanOne
    <3> QED BY <3>2 DEF S
  <2>3. ASSUME NEW c \in Recurrings, NEW m \in Months PROVE Cardinality(Bookings(c, m)) <= 1
    <3>1. \A x, y \in Bookings(c, m) : x = y
      BY <2>1, NoneIsNoRecord DEF BookedOnce, OfOneRecord, Bookings
    <3> QED BY <3>1, NoMoreThanOne
  <2> QED BY <2>2, <2>3 DEF AskedOnce, BookedOncePerMonth
<1> QED BY <1>1, QuietInit, QuietStep, PTL DEF RSpec
=============================================================================
