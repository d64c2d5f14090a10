SPECIFICATION Spec
CONSTANTS
    x = x  y = y
    Agents = {x, y}
    NoAgent = NoAgent
    Orphan = Orphan
    Saves <- Editions
    MaxDelivery = 2
    MaxStarts <- Starts
    Reporting = {x}
    Conditions = {"die","slow","stop"}
INVARIANTS TypeOK StatusInv TimerFollowsService
PROPERTIES NoStepBack SettledIsReported CommandIsTaken
CHECK_DEADLOCK FALSE
