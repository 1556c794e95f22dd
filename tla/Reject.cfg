\* One approval and one rejection of one action; nothing raises or dies.
SPECIFICATION Spec
CONSTANTS
    Actions = {a1}
    Payloads = {p1}
    Approvers = {ap1}
    Rejecters = {rj1}
    Editors = {}
    Faults = FALSE
    Crashes = FALSE
    None = None
CHECK_DEADLOCK FALSE
INVARIANT RejectedIsUntouched
