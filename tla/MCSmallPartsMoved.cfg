SPECIFICATION PartsSpec
CONSTANTS
    Clients = {a, b}
    Requests = {r1, r2}
    NoClient = NoClient
    Full = 2
    Cost = 2
    SweepEvery = 1
    IdleTTL = 4
    MaxDelay = 1
    MaxClock = 6
    ParsedRows <- MCParsedRows
    NoItem = NoItem
    NoMatch = NoMatch
    MaxRows = 3
    MaxCommits = 2
    MaxInt = 1023
    Texts <- MCTexts
    Fractions <- MCFractions
    NoAmount = NoAmount
INVARIANTS FoundWhereverMoved
SYMMETRY Symmetry
CHECK_DEADLOCK FALSE
