\* Two decisions race with each other and with one change of the policy.
SPECIFICATION Spec
CONSTANTS
    Deciders = {d1, d2}
    Admins = {p1}
    MaxLimit = 1
    Payload <- OneUnitEach
    Null = Null
    Faults = TRUE
INVARIANTS TypeOK ApprovalIsAttributed AuditTracksDecisions ApprovalRestsOnAPolicy
