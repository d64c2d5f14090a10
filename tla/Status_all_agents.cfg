SPECIFICATION Spec
CONSTANTS
    x = x  y = y
    Agents = {x, y}
    NoAgent = NoAgent
    Orphan = Orphan
    Saves <- Editions
    MaxDelivery = 2
    MaxStarts <- Starts
    Reporting = {x}
    Conditions = {}
PROPERTIES AllServicesChange
CHECK_DEADLOCK FALSE
