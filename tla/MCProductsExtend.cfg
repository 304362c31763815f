SPECIFICATION Spec
CONSTANTS
    NRequests = 2
    Attributes = {a1, a2}
    Axes = {a2}
    Tiers = {t1}
    Amounts = {low, high}
    Keep = Keep
    MaxOpen = 2
PROPERTY NothingIsLost
CHECK_DEADLOCK FALSE
