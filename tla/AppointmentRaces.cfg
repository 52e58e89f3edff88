\* One appointment, a booking and three status changes that race.  Two of the
\* changes can move a status away and back (ABA) while the third one is between
\* its second read and its batch.  The clock moves, D1 calls fail, answers get
\* lost after the commit and invocations are terminated.
SPECIFICATION Spec
CONSTANTS
    Requests = {r1, r2, r3, r4}
    Appointments = {a1}
    Reasons = {customer_cancelled}
    NoReason = NoReason
    NoTransition = NoTransition
    MaxClock = 1
    Faults = TRUE
SYMMETRY RequestSymmetry
VIEW LiveState
INVARIANTS AuditReplaysRow AnswersAreTrue ConflictHasRival AuditTimesAreOrdered
PROPERTIES EndedStaysEnded ImplementsLedger
