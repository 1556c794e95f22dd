\* Requests interleave, raise and die, or are served one after another.
SPECIFICATION RSpec
CONSTANTS
    Actions = {a1, a2}
    Payloads <- MCPayloads
    Approvers = {ap1, ap2}
    Rejecters = {rj1}
    Editors = {}
    Faults = TRUE
    Crashes = TRUE
    None = None
    Recurrings = {c1}
    Triggers = {t1, t2}
    LastMonth = 2
    Home <- MCPersonal
    Regimes = {"rough", "quiet"}
SYMMETRY Symmetry
CHECK_DEADLOCK FALSE
INVARIANTS MarkIsEarned QuietlyOnce
