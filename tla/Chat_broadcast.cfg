SPECIFICATION Spec
CONSTANTS
    a = a  b = b  c = c
    Clients = {a, b, c}
    NoClient = NoClient
    MaxSaid <- Talk
    Cancelled = {a}
    Lost = {c}
    Conditions = {"race", "accept"}
INVARIANTS TypeOK ChatInv HeardIsContiguous ClosedIsUnlisted
PROPERTIES WholeBroadcast ExitClosesAll
CONSTRAINT RunBound
CHECK_DEADLOCK FALSE
