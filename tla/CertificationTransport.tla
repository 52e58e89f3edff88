------------------------ MODULE CertificationTransport ------------------------
(***************************************************************************)
(* A live DeepSeek certification run behind the operational route           *)
(* (worker/ai/canary): each request carries a signed human authorization,   *)
(* reserves it in the D1 replay ledger, reads the credential and sends the  *)
(* sealed tasks one after the other.  A handler is cut at its awaits; what  *)
(* it does between two of them is one action.                               *)
(***************************************************************************)
EXTENDS Naturals

CONSTANTS
    Requests,       \* POSTs to the operational route
    Packages,       \* signed authorization packages, one replay key each
    NoPackage,      \* a request whose body is not read yet
    Free,           \* no ledger row
    ExpiresAt,      \* package -> payload.expiresAt
    Window,         \* package -> payload.pricingWindow
    Budget,         \* package -> payload.maxBudgetMicroUsd
    WindowAt,       \* time -> getPricingWindow
    TaskCount,      \* GUARDED_CANONICAL_TASK_COUNT
    Charges,        \* what the provider may charge for one call
    MaxCharge,      \* the largest of them
    MaxClock,       \* bound on the clock
    LiveEnabled     \* the route and live gates, constants of the build

ASSUME TransportAssumption ==
    /\ NoPackage \notin Packages /\ Free \notin Requests
    /\ MaxClock \in Nat /\ TaskCount \in Nat \ {0} /\ MaxCharge \in Nat
    /\ ExpiresAt \in [Packages -> Nat] /\ Budget \in [Packages -> Nat]
    /\ Charges \subseteq 0..MaxCharge
    /\ LiveEnabled \in BOOLEAN

VARIABLES
    clock,
    ledger,         \* authorization_replay_ledger: the request whose INSERT
                    \* made the row of a package, or Free
    pc,             \* the await each request is at
    pkg,            \* the immutable package snapshot
    reply,          \* the classified answer to reserveIfAbsent
    calls,          \* providerNetworkCalls
    recorded,       \* observedTotalCostMicroUsd
    charged,        \* what the provider charged, recorded or not
    status          \* the result, a preflight refusal by its reason

vars == <<clock, ledger, pc, pkg, reply, calls, recorded, charged, status>>

Refusals == {"LIVE_EXECUTION_BLOCKED", "SOURCE_PROVENANCE_NOT_VERIFIED",
    "AUTHORIZATION_NOT_VERIFIED", "AUTHORIZATION_EXPIRED", "REPLAY_ALREADY_RESERVED",
    "REPLAY_BACKEND_UNAVAILABLE", "AUTHORIZATION_EXPIRED_AFTER_RESERVATION",
    "PRICING_WINDOW_CHANGED", "CREDENTIAL_RESOLUTION_FAILED",
    "AUTHORIZATION_EXPIRED_POST_CREDENTIAL"}
Results == {"WINDOW_CROSSING_TERMINATED", "TRANSPORT_EXECUTION_FAILED",
    "BUDGET_BREACH_TERMINATED", "QUALITY_GATE_FAILED",
    "TRANSPORT_COMPLETED_PENDING_FINALIZATION"}

\* The counters are counts and the awaits are those of the handler.
TypeOK ==
    /\ clock \in 0..MaxClock
    /\ ledger \in [Packages -> Requests \cup {Free}]
    /\ pc \in [Requests -> {"idle", "reserve", "answer", "credential", "call", "done"}]
    /\ pkg \in [Requests -> Packages \cup {NoPackage}]
    /\ \A r \in Requests : pc[r] \notin {"idle", "done"} => pkg[r] \in Packages
    /\ reply \in [Requests -> {"none", "RESERVED", "ALREADY_RESERVED", "BACKEND_UNAVAILABLE"}]
    /\ calls \in [Requests -> 0..TaskCount]
    /\ recorded \in [Requests -> Nat]
    /\ charged \in [Requests -> Nat]
    /\ status \in [Requests -> {"none", "terminated"} \cup Refusals \cup Results]

Init ==
    /\ clock = 0
    /\ ledger = [p \in Packages |-> Free]
    /\ pc = [r \in Requests |-> "idle"]
    /\ pkg = [r \in Requests |-> NoPackage]
    /\ reply = [r \in Requests |-> "none"]
    /\ calls = [r \in Requests |-> 0]
    /\ recorded = [r \in Requests |-> 0]
    /\ charged = [r \in Requests |-> 0]
    /\ status = [r \in Requests |-> "none"]

Goto(r, c) == pc' = [pc EXCEPT ![r] = c] /\ UNCHANGED status
Return(r, s) == pc' = [pc EXCEPT ![r] = "done"] /\ status' = [status EXCEPT ![r] = s]

IsLive(p) == clock < ExpiresAt[p]
InWindow(p) == WindowAt[clock] = Window[p]

-----------------------------------------------------------------------------
(* From the route to the reservation.                                       *)

\* Signature, trust and canonical replay request of a package.
VerifyAuthorization(p, signed) ==
    IF ~signed THEN "AUTHORIZATION_NOT_VERIFIED"
    ELSE IF ~IsLive(p) THEN "AUTHORIZATION_EXPIRED"
    ELSE "none"

\* The coordinator up to its await: the receipt, its attestation, the package.
Coordinate(p, provenance, signed) ==
    IF ~provenance THEN "SOURCE_PROVENANCE_NOT_VERIFIED" ELSE VerifyAuthorization(p, signed)

\* The live gate comes before anything the caller sent is looked at.
Preflight(p, provenance, signed) ==
    IF ~LiveEnabled THEN "LIVE_EXECUTION_BLOCKED" ELSE Coordinate(p, provenance, signed)

\* The route has authenticated the caller and read the body; up to the first
\* statement sent to D1 the boundary, the transport and the coordinator do not
\* wait for anything.
Receive(r) ==
    /\ pc[r] = "idle"
    /\ \E p \in Packages, provenance, signed \in BOOLEAN :
        LET refusal == Preflight(p, provenance, signed)
        IN  /\ pkg' = [pkg EXCEPT ![r] = p]
            /\ IF refusal = "none" THEN Goto(r, "reserve") ELSE Return(r, refusal)
    /\ UNCHANGED <<clock, ledger, reply, calls, recorded, charged>>

\* Mutant: INSERT OR REPLACE.
Insert_Replace(r) ==
    /\ ledger' = [ledger EXCEPT ![pkg[r]] = r]
    /\ reply' = [reply EXCEPT ![r] = "RESERVED"]

\* INSERT ... ON CONFLICT(replay_key) DO NOTHING RETURNING replay_key.
Insert(r) ==
    IF ledger[pkg[r]] = Free
    THEN /\ ledger' = [ledger EXCEPT ![pkg[r]] = r]
         /\ reply' = [reply EXCEPT ![r] = "RESERVED"]
    ELSE /\ reply' = [reply EXCEPT ![r] = "ALREADY_RESERVED"]
         /\ UNCHANGED ledger

\* The statement ran, but its answer is lost or contradicts itself.
InsertUnanswered(r) ==
    /\ ledger' = [ledger EXCEPT ![pkg[r]] = IF @ = Free THEN r ELSE @]
    /\ reply' = [reply EXCEPT ![r] = "BACKEND_UNAVAILABLE"]

InsertFails(r) ==
    /\ reply' = [reply EXCEPT ![r] = "BACKEND_UNAVAILABLE"]
    /\ UNCHANGED ledger

Reserve(r) ==
    /\ pc[r] = "reserve"
    /\ Insert(r) \/ InsertUnanswered(r) \/ InsertFails(r)
    /\ Goto(r, "answer")
    /\ UNCHANGED <<clock, pkg, calls, recorded, charged>>

\* Mutant: a reservation without an answer is tried again.
Resume_Retry(r) ==
    /\ pc[r] = "answer"
    /\ IF reply[r] = "ALREADY_RESERVED" THEN Return(r, "REPLAY_ALREADY_RESERVED")
       ELSE IF reply[r] = "BACKEND_UNAVAILABLE" THEN Goto(r, "reserve")
       ELSE IF ~IsLive(pkg[r]) THEN Return(r, "AUTHORIZATION_EXPIRED_AFTER_RESERVATION")
       ELSE IF ~InWindow(pkg[r]) THEN Return(r, "PRICING_WINDOW_CHANGED")
       ELSE Goto(r, "credential")
    /\ UNCHANGED <<clock, ledger, pkg, reply, calls, recorded, charged>>

\* Mutant: the row of a request that goes no further is deleted again.
Resume_Release(r) ==
    /\ pc[r] = "answer"
    /\ IF reply[r] = "RESERVED" /\ IsLive(pkg[r]) /\ InWindow(pkg[r])
       THEN Goto(r, "credential") /\ UNCHANGED ledger
       ELSE /\ Return(r, "AUTHORIZATION_EXPIRED_AFTER_RESERVATION")
            /\ ledger' = [ledger EXCEPT ![pkg[r]] = IF @ = r THEN Free ELSE @]
    /\ UNCHANGED <<clock, pkg, reply, calls, recorded, charged>>

\* The answer is classified and the clock read again before the credential is
\* asked for.  The row stays whatever the outcome.
Resume(r) ==
    /\ pc[r] = "answer"
    /\ IF reply[r] = "ALREADY_RESERVED" THEN Return(r, "REPLAY_ALREADY_RESERVED")
       ELSE IF reply[r] = "BACKEND_UNAVAILABLE" THEN Return(r, "REPLAY_BACKEND_UNAVAILABLE")
       ELSE IF ~IsLive(pkg[r]) THEN Return(r, "AUTHORIZATION_EXPIRED_AFTER_RESERVATION")
       ELSE IF ~InWindow(pkg[r]) THEN Return(r, "PRICING_WINDOW_CHANGED")
       ELSE Goto(r, "credential")
    /\ UNCHANGED <<clock, ledger, pkg, reply, calls, recorded, charged>>

-----------------------------------------------------------------------------
(* From the credential to the last task.                                    *)

\* Mutant: the window is not looked at before a task.
Dispatch_Unchecked(r) == calls' = [calls EXCEPT ![r] = @ + 1] /\ Goto(r, "call")

\* The window check in front of every task, and its fetch.
Dispatch(r) ==
    IF InWindow(pkg[r])
    THEN calls' = [calls EXCEPT ![r] = @ + 1] /\ Goto(r, "call")
    ELSE Return(r, "WINDOW_CROSSING_TERMINATED") /\ UNCHANGED calls

\* getRuntimeCredential answers or throws; expiry is checked once more, and
\* never again between the tasks.
Credential(r) ==
    /\ pc[r] = "credential"
    /\ \/ Return(r, "CREDENTIAL_RESOLUTION_FAILED") /\ UNCHANGED calls
       \/ IF IsLive(pkg[r])
          THEN Dispatch(r)
          ELSE Return(r, "AUTHORIZATION_EXPIRED_POST_CREDENTIAL") /\ UNCHANGED calls
    /\ UNCHANGED <<clock, ledger, pkg, reply, recorded, charged>>

\* Mutant: a task that failed in transport is left out and the next one sent.
CallFails_GoesOn(r) ==
    /\ IF calls[r] < TaskCount
       THEN Dispatch(r)
       ELSE Return(r, "TRANSPORT_EXECUTION_FAILED") /\ UNCHANGED calls
    /\ UNCHANGED recorded

\* fetch throws, the abort timer fires or the body does not parse: nothing is
\* recorded, whatever the provider charges for the call.
CallFails(r) ==
    /\ Return(r, "TRANSPORT_EXECUTION_FAILED")
    /\ UNCHANGED <<calls, recorded>>

\* Mutant: the budget is compared with the cost before this call.
CallRecorded_LateCheck(r, charge) ==
    /\ recorded' = [recorded EXCEPT ![r] = @ + charge]
    /\ \E success \in BOOLEAN :
        IF recorded[r] > Budget[pkg[r]]
        THEN Return(r, "BUDGET_BREACH_TERMINATED") /\ UNCHANGED calls
        ELSE IF ~success
        THEN Return(r, "QUALITY_GATE_FAILED") /\ UNCHANGED calls
        ELSE IF calls[r] = TaskCount
        THEN Return(r, "TRANSPORT_COMPLETED_PENDING_FINALIZATION") /\ UNCHANGED calls
        ELSE Dispatch(r)

\* The answer is priced and scored; a task that did not succeed ends the run.
CallRecorded(r, charge) ==
    /\ recorded' = [recorded EXCEPT ![r] = @ + charge]
    /\ \E success \in BOOLEAN :
        IF recorded[r] + charge > Budget[pkg[r]]
        THEN Return(r, "BUDGET_BREACH_TERMINATED") /\ UNCHANGED calls
        ELSE IF ~success
        THEN Return(r, "QUALITY_GATE_FAILED") /\ UNCHANGED calls
        ELSE IF calls[r] = TaskCount
        THEN Return(r, "TRANSPORT_COMPLETED_PENDING_FINALIZATION") /\ UNCHANGED calls
        ELSE Dispatch(r)

CallReturns(r) ==
    /\ pc[r] = "call"
    /\ \E charge \in Charges :
        /\ charged' = [charged EXCEPT ![r] = @ + charge]
        /\ CallFails(r) \/ CallRecorded(r, charge)
    /\ UNCHANGED <<clock, ledger, pkg, reply>>

-----------------------------------------------------------------------------
(* The runtime and the clock.                                               *)

\* The invocation ends at an await.  A statement or a call that was sent takes
\* its effect or not.
Terminate(r) ==
    /\ pc[r] \notin {"idle", "done"}
    /\ Return(r, "terminated")
    /\ \/ UNCHANGED <<ledger, charged>>
       \/ /\ pc[r] = "reserve"
          /\ ledger' = [ledger EXCEPT ![pkg[r]] = IF @ = Free THEN r ELSE @]
          /\ UNCHANGED charged
       \/ /\ pc[r] = "call"
          /\ \E charge \in Charges : charged' = [charged EXCEPT ![r] = @ + charge]
          /\ UNCHANGED ledger
    /\ UNCHANGED <<clock, pkg, reply, calls, recorded>>

Tick ==
    /\ clock < MaxClock
    /\ clock' = clock + 1
    /\ UNCHANGED <<ledger, pc, pkg, reply, calls, recorded, charged, status>>

Work(r) == Reserve(r) \/ Resume(r) \/ Credential(r) \/ CallReturns(r)

Next ==
    \/ \E r \in Requests : Receive(r) \/ Work(r) \/ Terminate(r)
    \/ Tick

Spec == Init /\ [][Next]_vars

\* A D1 statement is answered or fails, the credential is at hand and a call
\* has a 15 s abort timer: what a request awaits comes.
LiveSpec == Spec /\ \A r \in Requests : WF_vars(Work(r))

-----------------------------------------------------------------------------
(* Properties.                                                              *)

\* The request may still send something on behalf of its package.
Holds(r) ==
    \/ pc[r] \in {"credential", "call"}
    \/ pc[r] = "answer" /\ reply[r] = "RESERVED"

\* Only the request whose INSERT made the row of an authorization reads the
\* credential or calls the provider on its behalf, whatever races with it and
\* whichever answer is lost: no authorization is dispatched twice.
DispatchOwnsReservation ==
    \A r \in Requests :
        Holds(r) \/ calls[r] > 0 \/ charged[r] > 0 => ledger[pkg[r]] = r

\* The charges of a run, of calls whose answers were never recorded included,
\* exceed the signed budget by no more than one call.
OverspendIsOneCall ==
    \A r \in Requests :
        charged[r] > 0 => charged[r] <= Budget[pkg[r]] + MaxCharge

\* A candidate for certification accounts for every task and every charge, and
\* is within the signed budget.
CandidateCountsEverything ==
    \A r \in Requests :
        status[r] = "TRANSPORT_COMPLETED_PENDING_FINALIZATION" =>
            /\ calls[r] = TaskCount
            /\ recorded[r] = charged[r]
            /\ charged[r] <= Budget[pkg[r]]

\* A request is told that its authorization was used before only if another
\* request used it.
ReplayRefusalNamesAnother ==
    \A r \in Requests :
        status[r] = "REPLAY_ALREADY_RESERVED" => ledger[pkg[r]] \notin {Free, r}

\* Every call leaves in the signed pricing window and the first one before the
\* authorization expires, however long D1, the credential or the calls before
\* it took.
SentInTime ==
    [][\A r \in Requests :
        calls'[r] > calls[r] =>
            InWindow(pkg[r]) /\ (calls[r] = 0 => IsLive(pkg[r]))]_vars

\* A request that was received ends.
EveryRequestEnds == \A r \in Requests : pc[r] # "idle" ~> pc[r] = "done"

\* The rows are the used authorizations; a request has the right from the
\* INSERT that made its row until it ends.
Unused == {p \in Packages : ledger[p] = Free}
Rights == {<<r, pkg[r]>> : r \in {s \in Requests : Holds(s)}}
Ledger == INSTANCE SingleUseAuthorization WITH
    Holders <- Requests, unused <- Unused, rights <- Rights

\* The handlers use each authorization at most once.
ImplementsSingleUse == Ledger!Spec

-----------------------------------------------------------------------------
(* The inductive invariant.                                                 *)

\* A request that has not executed its INSERT has no row.
NoRowBeforeInsert ==
    \A r \in Requests, p \in Packages : pc[r] \in {"idle", "reserve"} => ledger[p] # r

\* A classified answer agrees with the row.
ReplyAgreesWithRow ==
    \A r \in Requests :
        pc[r] = "answer" =>
            /\ reply[r] # "none"
            /\ reply[r] = "RESERVED" => ledger[pkg[r]] = r
            /\ reply[r] = "ALREADY_RESERVED" => ledger[pkg[r]] \notin {Free, r}

\* Nothing is charged before the first call; while a run goes on all is
\* recorded and within budget.
AccountsAgree ==
    \A r \in Requests :
        /\ pc[r] \in {"idle", "reserve", "answer", "credential"} =>
            calls[r] = 0 /\ charged[r] = 0 /\ recorded[r] = 0
        /\ pc[r] = "call" =>
            /\ calls[r] > 0 /\ recorded[r] = charged[r]
            /\ charged[r] <= Budget[pkg[r]]

\* A request without a result is not done.
ResultAtTheEnd ==
    \A r \in Requests : pc[r] # "done" => status[r] = "none"

Inv ==
    /\ TypeOK /\ NoRowBeforeInsert /\ ReplyAgreesWithRow /\ AccountsAgree
    /\ ResultAtTheEnd /\ DispatchOwnsReservation /\ OverspendIsOneCall
    /\ CandidateCountsEverything /\ ReplayRefusalNamesAnother
===============================================================================
