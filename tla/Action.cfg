\* Three approvals, a rejection and an edit of one action race; calls raise, processes die.
SPECIFICATION FairSpec
CONSTANTS
    Actions = {a1}
    Payloads = {p1, p2}
    Approvers = {ap1, ap2, ap3}
    Rejecters = {rj1}
    Editors = {ed1}
    Faults = TRUE
    Crashes = TRUE
    None = None
CHECK_DEADLOCK FALSE
INVARIANTS AppliedOnce RecordsAgree AnswersAreHonest
PROPERTIES ImplementsPromise ServedToTheEnd
