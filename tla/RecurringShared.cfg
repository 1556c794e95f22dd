\* The record and its account belong to a shared workspace.
SPECIFICATION RSpec
CONSTANTS
    Actions = {a1, a2}
    Payloads <- MCPayloads
    Approvers = {ap1, ap2}
    Rejecters = {rj1}
    Editors = {}
    Faults = FALSE
    Crashes = FALSE
    None = None
    Recurrings = {c1}
    Triggers = {t1, t2}
    LastMonth = 2
    Home <- MCShared
    Regimes = {"orderly"}
SYMMETRY Symmetry
CHECK_DEADLOCK FALSE
INVARIANTS NoDeadEnds
