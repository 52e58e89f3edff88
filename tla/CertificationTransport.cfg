\* Two requests over two packages; a lost answer, an expiry or a change of
\* the window at every await.
SPECIFICATION LiveSpec
CONSTANTS
    r1 = r1  r2 = r2
    Requests = {r1, r2}
    off = off  peak = peak
    Packages = {off, peak}
    NoPackage = NoPackage
    Free = Free
    ExpiresAt <- Expiry
    Window <- SignedWindow
    Budget <- SignedBudget
    WindowAt <- Hours
    TaskCount = 3
    Charges <- Prices
    MaxCharge = 3
    MaxClock = 3
    LiveEnabled = TRUE
INVARIANTS DispatchOwnsReservation OverspendIsOneCall CandidateCountsEverything ReplayRefusalNamesAnother
PROPERTIES SentInTime ImplementsSingleUse EveryRequestEnds
CHECK_DEADLOCK FALSE
