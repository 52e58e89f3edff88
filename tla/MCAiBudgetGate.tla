--------------------------- MODULE MCAiBudgetGate ---------------------------
(* AiBudgetGate for TLC: interchangeable requests, a price list.            *)
EXTENDS AiBudgetGate, TLC

RequestSymmetry == Permutations(Requests)

\* A finished request's locals are gone and no action reads them.  Of the
\* properties only RefusalIsJustified does, the day and the projection of a
\* refusal, and SpendWithinCap, the projection of a completed row.  The answers
\* of requests that end without a row are one to every property.
Unrecorded == {"malformed_output", "pricing_not_configured", "unavailable", "database_error"}
Kept(r) ==
    CASE req[r].step # "done" -> req[r]
      [] req[r].run.status = "budget_exceeded" ->
            <<"refused", req[r].answer, req[r].day, Projected(r)>>
      [] OTHER -> <<"done", IF req[r].answer \in Unrecorded THEN "unavailable" ELSE req[r].answer,
                    IF ai_runs[r].status = "completed" THEN Projected(r) ELSE 0>>

\* What a call cost is read of the one that answered only.
Told(r) ==
    [i \in DOMAIN calls[r] |->
        IF calls[r][i].outcome = "ok" THEN calls[r][i] ELSE [calls[r][i] EXCEPT !.cost = 0]]

LiveState ==
    <<ai_runs, external_ai_enabled, today,
      [r \in Requests |-> <<Kept(r), Told(r)>>]>>

\* Projected: gemini 2*1+1*1 = 3, deepseek 2*1+0 = 2 microUSD; kimi is unpriced.
TwoPriced == ("gemini" :> [in |-> 1, out |-> 1, cap |-> 1000])
          @@ ("deepseek" :> [in |-> 1, out |-> 0, cap |-> 0])
GeminiThenDeepSeek == {<<"gemini", "deepseek">>}
AllLists == GeminiThenDeepSeek \cup {<<"kimi">>}
Defaults == [p \in {"gemini", "deepseek", "kimi"} |-> IF p = "kimi" THEN 4096 ELSE 2048]
=============================================================================
