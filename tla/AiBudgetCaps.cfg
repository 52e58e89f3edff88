\* Three requests, two at a time, over failing, malformed and unpriced
\* providers with D1 faults, prompts of the estimated size and of twice that; a
\* day takes one run, a month of two days has room for one or two of them, and
\* a second month begins.
SPECIFICATION Spec
CONSTANTS
    r1 = r1  r2 = r2  r3 = r3
    Requests = {r1, r2, r3}
    CandidateLists <- AllLists
    Pricing <- TwoPriced
    DefaultOutput <- Defaults
    MaxTokens = {0, 2000}
    PromptTokens = {2000, 4000}
    OutputTokens = {1000}
    DailyLimit = 1
    MonthlyCap = 4
    DaysPerMonth = 2
    MaxDay = 2
    MaxConcurrent = 2
    Faults = TRUE
SYMMETRY RequestSymmetry
VIEW LiveState
INVARIANTS DailyWithinLimit SpendWithinCap RefusalIsJustified CompletedRowPaysForItsCall AnsweredIsRecorded
