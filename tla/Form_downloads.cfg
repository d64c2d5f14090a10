SPECIFICATION Spec
CONSTANTS
    p = p  q = q  text = text
    Addresses = {p, q, text}
    Invalid = {text}
    MaxAdded <- Adds
    MaxClicks = 2
INVARIANTS TypeOK FormInv StartedOncePerAdd CanceledMakesNoFile CancellableWhileRunning
PROPERTIES OnlyCancelFailsWait FinishedLeavesList
CHECK_DEADLOCK FALSE
