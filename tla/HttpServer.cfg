CONSTANTS
    r1 = r1
    r2 = r2
    r3 = r3
    Requests = {r1, r2, r3}
    Limits = {0, 1, 2}
    MaxPermits = 4
SPECIFICATION Spec
INVARIANT LimitHolds
PROPERTY TurnComes
