\* Tokens of two people; or three people, their workspaces and invitations.
SPECIFICATION PeopleSpec
CONSTANTS
    Emails     = {p2, p3}
    MaxPeople  = 2
    MaxTokens  = 5
    MaxVersion = 1
    Requests   = {q1}
    Alone      = TRUE
    VerifyModes = {TRUE, FALSE}
    ReusesIds  = FALSE
    None       = None
    p1 = p1  p2 = p2  p3 = p3  c1 = c1  c2 = c2
    People   = {p1, p2, p3}
    Shared   = {w1}
    Codes    = {c1, c2}
    CodeFor  <- MCCodeFor
    Entries  = {x1, x2}
    Registrations = {r1, r2}
    AloneModes = {TRUE, FALSE}
    Null     = Null
INVARIANTS SingleUse SessionsHold OwnersAndInvites
PROPERTY OthersKeepTheirs
SYMMETRY MCSymmetry
CHECK_DEADLOCK FALSE
