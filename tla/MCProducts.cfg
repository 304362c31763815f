SPECIFICATION FairSpec
CONSTANTS
    NRequests = 3
    Attributes = {a1, a2}
    Axes = {a2}
    Tiers = {t1}
    Amounts = {low, high}
    Keep = Keep
    MaxOpen = 2
INVARIANTS ValuesFit ProjectionAgrees
PROPERTIES SavesLoseNothing PricesAsSaved RequestsEnd
CHECK_DEADLOCK FALSE
