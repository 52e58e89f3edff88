---------------------------- MODULE AiBudgetGate ----------------------------
(***************************************************************************)
(* AIRouter.execute as concurrent worker invocations of one organization    *)
(* (worker/ai/aiRouter.ts, budgetManager.ts, aiRunRepository.ts): the       *)
(* policy check, the two-query budget check before every provider call, the *)
(* failover over the candidate providers, and the ai_runs ledger those      *)
(* queries read.  Nothing is reserved between the check and the record.     *)
(***************************************************************************)
EXTENDS Naturals, Sequences, FiniteSets, FiniteSetsExt, SequencesExt

CONSTANTS
    Requests,       \* calls of execute for the organization
    CandidateLists, \* sequences of providers that may serve a request
    Pricing,        \* provider -> [in, out, cap]; unpriced ones are absent
    MaxTokens,      \* values of envelope.maxTokens, 0 when it is not given
    DefaultOutput,  \* provider -> the token limit it sends when none is given
    PromptTokens,   \* prompt sizes the providers may report
    OutputTokens,   \* completion sizes they may report
    DailyLimit,     \* policy.maxDailyRequests
    MonthlyCap,     \* policy.maxMonthlyCostMicroUsd
    DaysPerMonth,
    MaxDay,         \* bound on the calendar
    MaxConcurrent,  \* bound on the invocations that overlap
    Faults          \* TRUE: D1 calls may fail or lose their answer

Candidates == UNION {Range(c) : c \in CandidateLists}

ASSUME BudgetAssumption ==
    /\ DailyLimit \in Nat /\ MonthlyCap \in Nat /\ MaxDay \in Nat
    /\ DaysPerMonth \in Nat \ {0} /\ MaxConcurrent \in Nat \ {0}
    /\ IsFiniteSet(Requests) /\ IsFiniteSet(Candidates)
    /\ IsFiniteSet(MaxTokens) /\ MaxTokens \subseteq Nat
    /\ \A c \in CandidateLists : c \in Seq(Range(c)) /\ IsInjective(c)
    /\ PromptTokens \subseteq Nat /\ OutputTokens \subseteq Nat
    /\ \A p \in DOMAIN Pricing : Pricing[p] \in [in: Nat, out: Nat, cap: Nat]
    /\ Faults \in BOOLEAN

VARIABLES
    ai_runs,             \* the organization's ledger rows, by request
    external_ai_enabled, \* of its policy row
    today,
    req,                 \* what an invocation holds between two awaits
    calls                \* what each request asked of the providers

vars == <<ai_runs, external_ai_enabled, today, req, calls>>

-----------------------------------------------------------------------------
(* Prices.  Integer microUSD per thousand tokens, each part rounded up.     *)

EstimatedPromptTokens == 2000

PerThousand(tokens, rate) == (tokens * rate + 999) \div 1000

CalculateCost(p, prompt, completion) ==
    PerThousand(prompt, Pricing[p].in) + PerThousand(completion, Pricing[p].out)

\* requestedMaxTokens || pricing.maxPerRequestTokens || 4000
MaxOutput(p, max) ==
    CASE max # 0 -> max
      [] max = 0 /\ Pricing[p].cap # 0 -> Pricing[p].cap
      [] OTHER -> 4000

\* The limit the adapters send: envelope.maxTokens || their own default.
OutputLimit(p, max) == IF max # 0 THEN max ELSE DefaultOutput[p]

ProjectedCost(p, max) ==
    CalculateCost(p, EstimatedPromptTokens, MaxOutput(p, max))

\* preflightCheck throws for a provider without a price or over its token cap.
PreflightPasses(p, max) ==
    /\ p \in DOMAIN Pricing
    /\ ~(Pricing[p].cap # 0 /\ max > Pricing[p].cap)

-----------------------------------------------------------------------------
(* Values.                                                                  *)

Day == 0..MaxDay

Run == [status: {"completed", "blocked_by_policy", "budget_exceeded"},
        cost: Nat, day: Day]
NoRun == [status |-> "none", cost |-> 0, day |-> 0]

Steps == {"idle", "policy", "daily", "monthly", "generate", "save", "done"}
Answers == {"none", "completed", "blocked_by_policy", "budget_exceeded",
            "malformed_output", "pricing_not_configured", "unavailable",
            "database_error", "write_failed"}

Invocation == [step: Steps, candidates: CandidateLists \cup {<<>>},
               max: MaxTokens \cup {0}, at: Nat, day: Day,
               run: Run \cup {NoRun}, answer: Answers]
Idle == [step |-> "idle", candidates |-> <<>>, max |-> 0, at |-> 0, day |-> 0,
         run |-> NoRun, answer |-> "none"]

\* Outcome of a provider call.  A "failed" call may still have been billed: an
\* answer whose body does not parse makes generate throw.
Call == [provider: Candidates, cost: Nat, outcome: {"ok", "malformed", "failed"}]

\* Every value has its type, and an invocation about to call a provider holds a
\* candidate that passed the preflight.
TypeOK ==
    /\ ai_runs \in [Requests -> Run \cup {NoRun}]
    /\ external_ai_enabled \in BOOLEAN
    /\ today \in Day
    /\ req \in [Requests -> Invocation]
    /\ calls \in [Requests -> Seq(Call)]
    /\ \A r \in Requests : req[r].step = "generate" =>
           PreflightPasses(req[r].candidates[req[r].at], req[r].max)

Init ==
    /\ ai_runs = [r \in Requests |-> NoRun]
    /\ external_ai_enabled = TRUE
    /\ today = 0
    /\ req = [r \in Requests |-> Idle]
    /\ calls = [r \in Requests |-> <<>>]

-----------------------------------------------------------------------------
(* The ledger the budget queries see.                                       *)

Recorded == {r \in Requests : ai_runs[r] # NoRun}
MonthStart(day) == day - (day % DaysPerMonth)

\* SELECT COUNT(*) ... WHERE created_at >= dayStart
DailyCount(day) == Cardinality({r \in Recorded : ai_runs[r].day >= day})

\* SELECT SUM(estimated_cost_microusd) ... WHERE created_at >= monthStart
Cost == [r \in Requests |-> ai_runs[r].cost]
MonthlySpent(day) ==
    SumFunctionOnSet(Cost, {r \in Recorded : ai_runs[r].day >= MonthStart(day)})

-----------------------------------------------------------------------------
(* execute, one action per await.                                           *)

At(r, step) == req[r].step = step
Current(r) == req[r].candidates[req[r].at]
Answer(r, a) == req' = [req EXCEPT ![r].step = "done", ![r].answer = a]

Active == {r \in Requests : req[r].step \notin {"idle", "done"}}

\* The row an invocation is about to save, stamped when it is built.
Saving(r, status, cost) ==
    req' = [req EXCEPT ![r].step = "save",
                       ![r].run = [status |-> status, cost |-> cost, day |-> today]]

Receive(r) ==
    /\ At(r, "idle")
    /\ Cardinality(Active) < MaxConcurrent
    /\ \E c \in CandidateLists, m \in MaxTokens :
           req' = [req EXCEPT ![r].step = "policy", ![r].candidates = c, ![r].max = m]
    /\ UNCHANGED <<ai_runs, external_ai_enabled, today, calls>>

\* Mutant: a refused request throws without waiting for its row
CheckPolicy_Unrecorded(r) ==
    /\ At(r, "policy")
    /\ \E safe \in BOOLEAN :
           IF external_ai_enabled /\ safe
           THEN req' = [req EXCEPT ![r].step = "daily", ![r].day = today]
           ELSE Answer(r, "blocked_by_policy")
    /\ UNCHANGED <<ai_runs, external_ai_enabled, today, calls>>

\* getOrganizationPolicy answers; the redaction finds the payload safe or not.
\* checkBudget fixes dayStart and monthStart before its first query.
CheckPolicy(r) ==
    /\ At(r, "policy")
    /\ \E safe \in BOOLEAN :
           IF external_ai_enabled /\ safe
           THEN req' = [req EXCEPT ![r].step = "daily", ![r].day = today]
           ELSE Saving(r, "blocked_by_policy", 0)
    /\ UNCHANGED <<ai_runs, external_ai_enabled, today, calls>>

\* Mutant: the daily count is compared with > instead of >=
CountDaily_OffByOne(r) ==
    /\ At(r, "daily")
    /\ IF DailyCount(req[r].day) > DailyLimit
       THEN Saving(r, "budget_exceeded", 0)
       ELSE req' = [req EXCEPT ![r].step = "monthly"]
    /\ UNCHANGED <<ai_runs, external_ai_enabled, today, calls>>

CountDaily(r) ==
    /\ At(r, "daily")
    /\ IF DailyCount(req[r].day) >= DailyLimit
       THEN Saving(r, "budget_exceeded", 0)
       ELSE req' = [req EXCEPT ![r].step = "monthly"]
    /\ UNCHANGED <<ai_runs, external_ai_enabled, today, calls>>

Priced(r) ==
    {i \in DOMAIN req[r].candidates : PreflightPasses(req[r].candidates[i], req[r].max)}

\* Mutant: the loop restarts from the first candidate after a failure
TryNextCandidate_Restarts(r, failed) ==
    IF Priced(r) # {} THEN req' = [req EXCEPT ![r].step = "daily", ![r].at = Min(Priced(r))]
                      ELSE Answer(r, "unavailable")

\* The loop over the candidates, from the one after the current one: the next
\* that passes the preflight has its budget checked; with none left execute
\* throws.
TryNextCandidate(r, failed) ==
    LET left == {i \in Priced(r) : i > req[r].at}
        skipped == Priced(r) # DOMAIN req[r].candidates
    IN  \/ \E i \in left :
              /\ \A j \in left : i <= j
              /\ req' = [req EXCEPT ![r].step = "daily", ![r].at = i, ![r].day = today]
        \/ /\ left = {}
           /\ Answer(r, IF skipped /\ ~failed THEN "pricing_not_configured"
                                               ELSE "unavailable")

\* The baseline check projects nothing.
Projected(r) == IF req[r].at = 0 THEN 0 ELSE ProjectedCost(Current(r), req[r].max)

\* Mutant: only the money already spent is compared with the cap
OverCap_NoProjection(r) == MonthlySpent(req[r].day) >= MonthlyCap

\* Mutant: >= where the code compares with >
OverCap_Inclusive(r) == MonthlySpent(req[r].day) + Projected(r) >= MonthlyCap

OverCap(r) ==
    LET spent == MonthlySpent(req[r].day)
    IN  spent >= MonthlyCap \/ spent + Projected(r) > MonthlyCap

SumMonthly(r) ==
    /\ At(r, "monthly")
    /\ CASE OverCap(r) -> Saving(r, "budget_exceeded", 0)
         [] ~OverCap(r) /\ req[r].at = 0 -> TryNextCandidate(r, FALSE)
         [] OTHER -> req' = [req EXCEPT ![r].step = "generate"]
    /\ UNCHANGED <<ai_runs, external_ai_enabled, today, calls>>

\* provider.generate: an answer that validates is costed at the price of the
\* provider that gave it; one that does not ends the request unrecorded; a
\* thrown error moves on to the next candidate.
Generate(r) ==
    /\ At(r, "generate")
    /\ \E outcome \in {"ok", "malformed", "failed"},
          prompt \in PromptTokens, completion \in OutputTokens :
           LET cost == CalculateCost(Current(r), prompt, completion)
               call == [provider |-> Current(r), cost |-> cost, outcome |-> outcome]
           IN  /\ completion <= OutputLimit(Current(r), req[r].max)
               /\ calls' = [calls EXCEPT ![r] = Append(@, call)]
               /\ CASE outcome = "ok" -> Saving(r, "completed", cost)
                    [] outcome = "malformed" -> Answer(r, "malformed_output")
                    [] outcome = "failed" -> TryNextCandidate(r, TRUE)
    /\ UNCHANGED <<ai_runs, external_ai_enabled, today>>

\* AIRunRepository.saveRun; a refused request throws only after its row is in.
Save(r) ==
    /\ At(r, "save")
    /\ ai_runs' = [ai_runs EXCEPT ![r] = req[r].run]
    /\ Answer(r, req[r].run.status)
    /\ UNCHANGED <<external_ai_enabled, today, calls>>

\* The INSERT fails, or it commits and its answer is lost.
SaveFails(r) ==
    /\ Faults
    /\ At(r, "save")
    /\ ai_runs' \in {ai_runs, [ai_runs EXCEPT ![r] = req[r].run]}
    /\ Answer(r, "write_failed")
    /\ UNCHANGED <<external_ai_enabled, today, calls>>

ReadFails(r) ==
    /\ Faults
    /\ req[r].step \in {"policy", "daily", "monthly"}
    /\ Answer(r, "database_error")
    /\ UNCHANGED <<ai_runs, external_ai_enabled, today, calls>>

\* An administrator turns external AI off or on (AIPolicyRepository.savePolicy,
\* whose other fields, the limits and the allowed providers, are constants here).
SavePolicy ==
    /\ external_ai_enabled' = ~external_ai_enabled
    /\ UNCHANGED <<ai_runs, today, req, calls>>

Midnight ==
    /\ today < MaxDay
    /\ today' = today + 1
    /\ UNCHANGED <<ai_runs, external_ai_enabled, req, calls>>

Execute(r) ==
    \/ Receive(r) \/ CheckPolicy(r) \/ CountDaily(r) \/ SumMonthly(r)
    \/ Generate(r) \/ Save(r) \/ SaveFails(r) \/ ReadFails(r)

Next == (\E r \in Requests : Execute(r)) \/ SavePolicy \/ Midnight

Spec == Init /\ [][Next]_vars

-----------------------------------------------------------------------------
(* Properties.                                                              *)

MaxProjected ==
    Max({0} \cup {ProjectedCost(x[1], x[2]) :
                    x \in {y \in Candidates \X MaxTokens : PreflightPasses(y[1], y[2])}})

CompletedIn(days) == {r \in Recorded : ai_runs[r].status = "completed" /\ ai_runs[r].day \in days}
MonthOf(day) == {d \in Day : MonthStart(d) = MonthStart(day)}

\* What the row of r cost beyond the projection that its budget check used.
Overrun == [r \in Requests |->
    IF ai_runs[r].cost > Projected(r) THEN ai_runs[r].cost - Projected(r) ELSE 0]

\* The monthly spend cap of budgetManager: what a calendar month's runs cost in
\* the ledger exceeds the cap by at most one projected maximum for every other
\* invocation that can overlap, because checks and records interleave and
\* nothing is reserved, and by what these runs cost beyond their own
\* projections.  The code calls a projection a conservative maximum but takes
\* every prompt for 2000 tokens: a longer one costs more and adds the rest here.
SpendWithinCap ==
    \A d \in Day :
        LET month == CompletedIn(MonthOf(d))
        IN  SumFunctionOnSet(Cost, month)
                <= MonthlyCap + (MaxConcurrent - 1) * MaxProjected
                     + SumFunctionOnSet(Overrun, month)

\* The daily request limit, with the same slack: a run checked before midnight
\* and recorded after it must not give the new day more than its limit.
DailyWithinLimit ==
    \A d \in Day : Cardinality(CompletedIn({d})) <= DailyLimit + MaxConcurrent - 1

\* A request is refused for budget only when the ledger it was checked against
\* left no room for it: its daily limit was reached, or its own projection does
\* not fit under the cap.
RefusalIsJustified ==
    \A r \in Requests : req[r].run.status = "budget_exceeded" =>
        LET others == {q \in Recorded \ {r} : ai_runs[q].day >= MonthStart(req[r].day)}
        IN  \/ Cardinality({q \in others : ai_runs[q].day >= req[r].day}) >= DailyLimit
            \/ SumFunctionOnSet(Cost, others) + Max({1, Projected(r)}) > MonthlyCap

\* A completed row charges exactly the provider call that answered, and only
\* the last call of a request: the calls before it all failed, in the order of
\* the candidates, each candidate asked at most once.
CompletedRowPaysForItsCall ==
    \A r \in Requests :
        /\ \A i, j \in DOMAIN calls[r] : i < j =>
               /\ calls[r][i].outcome = "failed"
               /\ calls[r][i].provider # calls[r][j].provider
        /\ ai_runs[r].status = "completed" =>
               /\ calls[r] # <<>>
               /\ Last(calls[r]).outcome = "ok"
               /\ Last(calls[r]).cost = ai_runs[r].cost

\* The client is answered with a result, or with a refusal, only once the row
\* that counts it is in the ledger; no other answer but a failed write leaves one.
AnsweredIsRecorded ==
    \A r \in Requests :
        /\ req[r].answer \in {"completed", "blocked_by_policy", "budget_exceeded"}
               => ai_runs[r].status = req[r].answer
        /\ ai_runs[r] # NoRun => req[r].answer \in {"write_failed", ai_runs[r].status}

-----------------------------------------------------------------------------
(* The inductive invariant.                                                 *)

\* Where the loop over the candidates is: nowhere yet, or at a candidate that
\* passed the preflight.
LoopOK(r) ==
    /\ req[r].at # 0 =>
           /\ req[r].at \in DOMAIN req[r].candidates
           /\ PreflightPasses(Current(r), req[r].max)
    /\ req[r].step = "generate" => req[r].at # 0
    /\ req[r].step \in {"idle", "policy"} => calls[r] = <<>> /\ req[r].at = 0

\* The calls so far failed and were of candidates before the current one.
CallsOK(r) ==
    /\ \A i, j \in DOMAIN calls[r] : i < j =>
           /\ calls[r][i].outcome = "failed"
           /\ calls[r][i].provider # calls[r][j].provider
    /\ req[r].step \notin {"save", "done"} =>
           \A i \in DOMAIN calls[r] :
               /\ calls[r][i].outcome = "failed"
               /\ \E k \in DOMAIN req[r].candidates :
                      k < req[r].at /\ calls[r][i].provider = req[r].candidates[k]

\* The row is built once, saved as it was built and pays for the last call.
RowOK(r) ==
    /\ req[r].step \notin {"save", "done"} => req[r].run = NoRun
    /\ req[r].step = "save" => req[r].run \in Run
    /\ req[r].step # "done" => ai_runs[r] = NoRun /\ req[r].answer = "none"
    /\ ai_runs[r] \in {NoRun, req[r].run}
    /\ req[r].day <= today
    /\ req[r].run.status = "completed" =>
           /\ calls[r] # <<>> /\ Last(calls[r]).outcome = "ok"
           /\ Last(calls[r]).cost = req[r].run.cost
           /\ req[r].run.day >= req[r].day

\* Runs of a day, and requests that passed the daily check and may still be
\* recorded in it.
MayStillCount(r, d) ==
    /\ \/ req[r].step \in {"monthly", "generate"}
       \/ req[r].step = "save" /\ req[r].run.status = "completed"
    /\ req[r].day <= d
Counted(d) == CompletedIn({d}) \cup {r \in Requests : MayStillCount(r, d)}

DailyRoom == \A d \in Day : Cardinality(Counted(d)) <= DailyLimit + MaxConcurrent - 1

Inv ==
    /\ TypeOK /\ \A r \in Requests : LoopOK(r) /\ CallsOK(r) /\ RowOK(r)
    /\ AnsweredIsRecorded /\ DailyRoom
    /\ Cardinality(Active) <= MaxConcurrent

\* No call costs more than it was projected to cost: prompts stay within the
\* estimate and answers within the projected output.  The code relies on this
\* and does not enforce it.
ProjectionCovers ==
    \A p \in Candidates, m \in MaxTokens, prompt \in PromptTokens, completion \in OutputTokens :
        PreflightPasses(p, m) /\ completion <= OutputLimit(p, m)
            => CalculateCost(p, prompt, completion) <= ProjectedCost(p, m)

\* The part of a run's cost that its budget check foresaw.
Foreseen(r) == IF req[r].run.cost > Projected(r) THEN Projected(r) ELSE req[r].run.cost

\* What was foreseen of request r's cost in month d: that of its row, or of the
\* call it was admitted to, or of the row that it is about to save.
Booked(r, d) == IF r \in CompletedIn(MonthOf(d)) THEN Foreseen(r) ELSE 0
Pending(r, d) ==
    CASE At(r, "generate") /\ MonthStart(req[r].day) <= MonthStart(d) -> Projected(r)
      [] /\ At(r, "save") /\ req[r].run.status = "completed"
         /\ MonthStart(req[r].run.day) = MonthStart(d) -> Foreseen(r)
      [] OTHER -> 0
Committed(d) == [r \in Requests |-> Booked(r, d) + Pending(r, d)]

SpendRoom ==
    \A d \in Day : SumFunctionOnSet(Committed(d), Requests)
                       <= MonthlyCap + (MaxConcurrent - 1) * MaxProjected

\* A request in the loop has an envelope.
Fits(r) == req[r].step # "idle" => req[r].max \in MaxTokens

SpendInv == Inv /\ SpendRoom /\ \A r \in Requests : Fits(r)
=============================================================================
