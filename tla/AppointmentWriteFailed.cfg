\* No fault at all, and still a committed change is reported as failed.
SPECIFICATION Spec
CONSTANTS
    Requests = {r1, r2, r3}
    Appointments = {a1}
    Reasons = {customer_cancelled}
    NoReason = NoReason
    NoTransition = NoTransition
    MaxClock = 0
    Faults = FALSE
INVARIANT WriteFailedMeansUnwritten
