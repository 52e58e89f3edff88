\* Six authorizations: one token in both windows, one key with three budgets or
\* tokens.  Eight pieces of evidence.
SPECIFICATION Spec
CONSTANTS
    off1 = off1  off2 = off2  off1wide = off1wide  offmix = offmix
    peak1 = peak1  peak2 = peak2
    e1 = e1  e1again = e1again  e1dirty = e1dirty  e1wide = e1wide
    e2 = e2  mixed = mixed  p1 = p1  p2 = p2
    Auths = {off1, off2, off1wide, offmix, peak1, peak2}
    WindowOf <- AuthWindow
    KeyOf <- Nonces
    DigestOf <- Digest
    Evidence = {e1, e1again, e1dirty, e1wide, e2, mixed, p1, p2}
    EvidenceWindow <- RunWindow
    Clean <- CleanRuns
    BoundTo <- Bindings
    Fingerprint <- RunPrint
    NoEvidence = NoEvidence
INVARIANTS GrantedOnce CertifiedWasAuthorized OverallAgreesWithTracks CombinedIsCertified
CHECK_DEADLOCK FALSE
