SPECIFICATION Spec
CONSTANTS
    Slots <- MCSlots
    Rules <- MCRules
    Categories <- MCCategories
    Accounts <- MCAccounts
    ActionTypes <- MCActionTypes
    Components <- MCComponents
    Debts <- MCDebts
    Anchored <- MCAnchored
    Size <- MCSize
    T <- MCT
    Jobs <- MCJobs
    Scenes <- MCScenes
    Order <- MCOrder
    Alone <- MCAlone
    Keyless <- MCKeyless
    Attempts = 3
    Said <- MCSaid
    Windows <- MCWindows
    HistoryRows = 6
    HistorySize = 12
    LongMessage = 3
    Pondered <- MCPondered
    FewestWays = 3
    MostWays = 5
INVARIANT ReplayableHistory
INVARIANT RedLinesAreRemembered
INVARIANT CriticalIsRemembered
INVARIANT OutcomeIsLinked
INVARIANT ActiveAreJustified
INVARIANT AtMostTwoDaysBehind
PROPERTIES HonestReply NightsAreCaughtUp
CHECK_DEADLOCK FALSE
