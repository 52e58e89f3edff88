-------------------- MODULE CertificationTransport_proofs --------------------
(***************************************************************************)
(* Proofs about CertificationTransport for any number of requests, packages *)
(* and tasks, any prices and any course of the pricing windows.             *)
(***************************************************************************)
EXTENDS CertificationTransport, TLAPS

USE TransportAssumption

LEMMA InitInv == Init => Inv
BY DEF Init, Inv, TypeOK, NoRowBeforeInsert, ReplyAgreesWithRow, AccountsAgree,
   ResultAtTheEnd, DispatchOwnsReservation, OverspendIsOneCall, Holds,
   CandidateCountsEverything, ReplayRefusalNamesAnother

LEMMA ReceiveInv == ASSUME Inv, NEW r \in Requests, Receive(r) PROVE Inv'
<1> USE DEF Inv, TypeOK, NoRowBeforeInsert, ReplyAgreesWithRow, AccountsAgree,
      ResultAtTheEnd, DispatchOwnsReservation, OverspendIsOneCall, Holds,
      CandidateCountsEverything, ReplayRefusalNamesAnother
<1>1. PICK p \in Packages, s \in {"none"} \cup Refusals :
        /\ pc[r] = "idle"
        /\ pkg' = [pkg EXCEPT ![r] = p]
        /\ status' = [status EXCEPT ![r] = s]
        /\ \/ s # "none" /\ s # "REPLAY_ALREADY_RESERVED" /\ pc' = [pc EXCEPT ![r] = "done"]
           \/ s = "none" /\ pc' = [pc EXCEPT ![r] = "reserve"]
        /\ UNCHANGED <<clock, ledger, reply, calls, recorded, charged>>
  <2>1. status = [status EXCEPT ![r] = "none"]
    BY DEF Receive
  <2>2. PICK p \in Packages :
          /\ pkg' = [pkg EXCEPT ![r] = p]
          /\ \/ Goto(r, "reserve")
             \/ \E s \in Refusals : s # "REPLAY_ALREADY_RESERVED" /\ Return(r, s)
    BY DEF Receive, Preflight, Coordinate, VerifyAuthorization, Refusals
  <2>3. pc[r] = "idle" /\ UNCHANGED <<clock, ledger, reply, calls, recorded, charged>>
    BY DEF Receive
  <2>4. CASE Goto(r, "reserve")
    BY <2>1, <2>2, <2>3, <2>4 DEF Goto
  <2>5. CASE \E s \in Refusals : s # "REPLAY_ALREADY_RESERVED" /\ Return(r, s)
    BY <2>2, <2>3, <2>5 DEF Return, Refusals
  <2> QED
    BY <2>2, <2>4, <2>5
<1>2. TypeOK'
  BY <1>1
<1>3. s \notin Results
  BY DEF Refusals, Results
<1>4. NoRowBeforeInsert' /\ ReplyAgreesWithRow'
  BY <1>1
<1>5. AccountsAgree'
  BY <1>1
<1>6. ResultAtTheEnd' /\ DispatchOwnsReservation' /\ OverspendIsOneCall'
  BY <1>1
<1>7. CandidateCountsEverything' /\ ReplayRefusalNamesAnother'
  BY <1>1, <1>3 DEF Results
<1> QED
  BY <1>2, <1>4, <1>5, <1>6, <1>7
LEMMA ReserveInv == ASSUME Inv, NEW r \in Requests, Reserve(r) PROVE Inv'
<1> USE DEF Inv, TypeOK, NoRowBeforeInsert, ReplyAgreesWithRow, AccountsAgree,
      ResultAtTheEnd, DispatchOwnsReservation, OverspendIsOneCall, Holds,
      CandidateCountsEverything, ReplayRefusalNamesAnother
<1>1. /\ pc[r] = "reserve" /\ pkg[r] \in Packages
      /\ pc' = [pc EXCEPT ![r] = "answer"]
      /\ UNCHANGED <<clock, pkg, calls, recorded, charged, status>>
  BY DEF Reserve, Goto
<1>2. PICK h \in Requests \cup {Free}, a \in {"RESERVED", "ALREADY_RESERVED", "BACKEND_UNAVAILABLE"} :
        /\ ledger' = [ledger EXCEPT ![pkg[r]] = h]
        /\ reply' = [reply EXCEPT ![r] = a]
        /\ ledger[pkg[r]] = Free \/ h = ledger[pkg[r]]
        /\ a = "RESERVED" => h = r
        /\ a = "ALREADY_RESERVED" => h \notin {Free, r}
  BY <1>1 DEF Reserve, Insert, InsertUnanswered, InsertFails
<1>3. TypeOK'
  BY <1>1, <1>2
<1>4. NoRowBeforeInsert'
  <2>1. h \in {ledger[pkg[r]], r, Free}
    BY <1>1, <1>2 DEF Reserve, Insert, InsertUnanswered, InsertFails
  <2> QED
    BY <1>1, <1>2, <2>1
<1>5. ReplyAgreesWithRow'
  BY <1>1, <1>2
<1>6. AccountsAgree' /\ ResultAtTheEnd' /\ OverspendIsOneCall' /\ CandidateCountsEverything'
  BY <1>1, <1>2
<1>7. DispatchOwnsReservation'
  BY <1>1, <1>2
<1>8. ReplayRefusalNamesAnother'
  BY <1>1, <1>2
<1> QED
  BY <1>3, <1>4, <1>5, <1>6, <1>7, <1>8

\* A request that only moves on or ends, and has sent nothing.
LEMMA ResumeInv == ASSUME Inv, NEW r \in Requests, Resume(r) PROVE Inv'
<1> USE DEF Inv, TypeOK, NoRowBeforeInsert, ReplyAgreesWithRow, AccountsAgree,
      ResultAtTheEnd, DispatchOwnsReservation, OverspendIsOneCall, Holds,
      CandidateCountsEverything, ReplayRefusalNamesAnother
<1>1. /\ pc[r] = "answer"
      /\ UNCHANGED <<clock, ledger, pkg, reply, calls, recorded, charged>>
  BY DEF Resume
<1>2. PICK c \in {"credential", "done"}, s \in {"none"} \cup Refusals :
        /\ pc' = [pc EXCEPT ![r] = c]
        /\ status' = [status EXCEPT ![r] = s]
        /\ s = "REPLAY_ALREADY_RESERVED" => reply[r] = "ALREADY_RESERVED"
        /\ c = "credential" =>
            s = "none" /\ reply[r] \notin {"ALREADY_RESERVED", "BACKEND_UNAVAILABLE"}
  <2>1. status = [status EXCEPT ![r] = "none"]
    BY <1>1
  <2> QED
    BY <1>1, <2>1 DEF Resume, Goto, Return, Refusals
<1>3. TypeOK'
  BY <1>1, <1>2
<1>4. NoRowBeforeInsert' /\ ReplyAgreesWithRow'
  BY <1>1, <1>2
<1>5. AccountsAgree' /\ ResultAtTheEnd' /\ OverspendIsOneCall'
  BY <1>1, <1>2
<1>6. DispatchOwnsReservation'
  <2>1. c = "credential" => ledger[pkg[r]] = r
    BY <1>1, <1>2
  <2>2. ASSUME NEW q \in Requests, Holds(q)' \/ calls'[q] > 0 \/ charged'[q] > 0
        PROVE  ledger[pkg[q]] = q
    BY <1>1, <1>2, <2>1, <2>2
  <2> QED
    BY <1>1, <2>2
<1>7. CandidateCountsEverything'
  BY <1>1, <1>2 DEF Refusals
<1>8. ReplayRefusalNamesAnother'
  BY <1>1, <1>2
<1> QED
  BY <1>3, <1>4, <1>5, <1>6, <1>7, <1>8

\* What a dispatch does to the request's count and place.
LEMMA DispatchStep ==
    ASSUME Inv, NEW r \in Requests, pc[r] \in {"credential", "call"}, Dispatch(r)
    PROVE  \/ /\ calls' = [calls EXCEPT ![r] = @ + 1]
              /\ pc' = [pc EXCEPT ![r] = "call"] /\ status' = status
           \/ /\ calls' = calls /\ pc' = [pc EXCEPT ![r] = "done"]
              /\ status' = [status EXCEPT ![r] = "WINDOW_CROSSING_TERMINATED"]
BY DEF Dispatch, Goto, Return

LEMMA CredentialInv == ASSUME Inv, NEW r \in Requests, Credential(r) PROVE Inv'
<1> USE DEF Inv, TypeOK, NoRowBeforeInsert, ReplyAgreesWithRow, AccountsAgree,
      ResultAtTheEnd, DispatchOwnsReservation, OverspendIsOneCall, Holds,
      CandidateCountsEverything, ReplayRefusalNamesAnother
<1>1. /\ pc[r] = "credential"
      /\ UNCHANGED <<clock, ledger, pkg, reply, recorded, charged>>
  BY DEF Credential
<1>2. \/ /\ calls' = [calls EXCEPT ![r] = @ + 1]
         /\ pc' = [pc EXCEPT ![r] = "call"] /\ status' = status
      \/ \E s \in {"WINDOW_CROSSING_TERMINATED", "CREDENTIAL_RESOLUTION_FAILED",
                   "AUTHORIZATION_EXPIRED_POST_CREDENTIAL"} :
            /\ calls' = calls /\ pc' = [pc EXCEPT ![r] = "done"]
            /\ status' = [status EXCEPT ![r] = s]
  BY <1>1, DispatchStep DEF Credential, Return
<1>3. TypeOK'
  BY <1>1, <1>2 DEF Refusals, Results
<1>4. NoRowBeforeInsert' /\ ReplyAgreesWithRow'
  BY <1>1, <1>2
<1>5. AccountsAgree' /\ ResultAtTheEnd' /\ OverspendIsOneCall'
  BY <1>1, <1>2
<1>6. DispatchOwnsReservation'
  BY <1>1, <1>2
<1>7. CandidateCountsEverything' /\ ReplayRefusalNamesAnother'
  BY <1>1, <1>2
<1> QED
  BY <1>3, <1>4, <1>5, <1>6, <1>7
\* A call that comes back: what is charged, what is recorded and how the run
\* goes on are related in one of five ways.
LEMMA CallStep ==
    ASSUME Inv, NEW r \in Requests, CallReturns(r)
    PROVE \E charge \in Nat, n, cost \in Nat, c \in {"call", "done"}, s \in {"none"} \cup Results :
        /\ charge <= MaxCharge
        /\ charged' = [charged EXCEPT ![r] = @ + charge]
        /\ recorded' = [recorded EXCEPT ![r] = cost]
        /\ calls' = [calls EXCEPT ![r] = n]
        /\ pc' = [pc EXCEPT ![r] = c]
        /\ status' = [status EXCEPT ![r] = s]
        /\ n \in 1..TaskCount
        /\ c = "call" =>
            s = "none" /\ cost = recorded[r] + charge /\ cost <= Budget[pkg[r]]
        /\ s = "TRANSPORT_COMPLETED_PENDING_FINALIZATION" =>
            n = TaskCount /\ cost = recorded[r] + charge /\ cost <= Budget[pkg[r]]
<1> USE DEF Inv, TypeOK, AccountsAgree, ResultAtTheEnd
<1>1. pc[r] = "call" /\ status[r] = "none" /\ pkg[r] \in Packages /\ Budget[pkg[r]] \in Nat
  BY DEF CallReturns
<1>2. PICK charge \in Charges :
        /\ charged' = [charged EXCEPT ![r] = @ + charge]
        /\ CallFails(r) \/ CallRecorded(r, charge)
  BY DEF CallReturns
<1>3. charge \in Nat /\ charge <= MaxCharge
  BY <1>2
<1>4. calls[r] \in 1..TaskCount /\ recorded[r] \in Nat
  BY <1>1
<1>5. CASE CallFails(r)
  <2>1. /\ pc' = [pc EXCEPT ![r] = "done"]
        /\ status' = [status EXCEPT ![r] = "TRANSPORT_EXECUTION_FAILED"]
        /\ calls' = [calls EXCEPT ![r] = calls[r]]
        /\ recorded' = [recorded EXCEPT ![r] = recorded[r]]
    BY <1>5 DEF CallFails, Return
  <2>2. "TRANSPORT_EXECUTION_FAILED" \in {"none"} \cup Results
    BY DEF Results
  <2>3. calls[r] \in Nat
    BY <1>4
  <2> WITNESS charge \in Nat, calls[r] \in Nat, recorded[r] \in Nat,
              "done" \in {"call", "done"},
              "TRANSPORT_EXECUTION_FAILED" \in {"none"} \cup Results
  <2> QED
    BY <1>2, <1>3, <1>4, <2>1
<1>6. CASE CallRecorded(r, charge)
  <2>1. recorded' = [recorded EXCEPT ![r] = recorded[r] + charge]
    BY <1>6 DEF CallRecorded
  <2>2. CASE recorded[r] + charge <= Budget[pkg[r]] /\ calls[r] # TaskCount /\ Dispatch(r)
    <3>1. \/ /\ calls' = [calls EXCEPT ![r] = calls[r] + 1]
             /\ pc' = [pc EXCEPT ![r] = "call"] /\ status' = [status EXCEPT ![r] = "none"]
          \/ /\ calls' = [calls EXCEPT ![r] = calls[r]] /\ pc' = [pc EXCEPT ![r] = "done"]
             /\ status' = [status EXCEPT ![r] = "WINDOW_CROSSING_TERMINATED"]
      BY <1>1, <2>2, DispatchStep
    <3>2. calls[r] + 1 \in 1..TaskCount /\ recorded[r] + charge \in Nat
      BY <1>3, <1>4, <2>2
    <3>3. CASE /\ calls' = [calls EXCEPT ![r] = calls[r] + 1]
               /\ pc' = [pc EXCEPT ![r] = "call"] /\ status' = [status EXCEPT ![r] = "none"]
      <4> WITNESS charge \in Nat, calls[r] + 1 \in Nat, recorded[r] + charge \in Nat,
                  "call" \in {"call", "done"}, "none" \in {"none"} \cup Results
      <4> QED
        BY <1>2, <1>3, <2>1, <2>2, <3>2, <3>3
    <3>4. CASE /\ calls' = [calls EXCEPT ![r] = calls[r]]
               /\ pc' = [pc EXCEPT ![r] = "done"]
               /\ status' = [status EXCEPT ![r] = "WINDOW_CROSSING_TERMINATED"]
      <4>1. "WINDOW_CROSSING_TERMINATED" \in {"none"} \cup Results
        BY DEF Results
      <4>2. calls[r] \in Nat
        BY <1>4
      <4> WITNESS charge \in Nat, calls[r] \in Nat, recorded[r] + charge \in Nat,
                  "done" \in {"call", "done"},
                  "WINDOW_CROSSING_TERMINATED" \in {"none"} \cup Results
      <4> QED
        BY <1>2, <1>3, <1>4, <2>1, <3>4
    <3> QED
      BY <3>1, <3>3, <3>4
  <2>3. CASE \E s \in Results :
          /\ s = "TRANSPORT_COMPLETED_PENDING_FINALIZATION" =>
                calls[r] = TaskCount /\ recorded[r] + charge <= Budget[pkg[r]]
          /\ Return(r, s) /\ UNCHANGED calls
    <3>1. PICK s \in Results :
            /\ s = "TRANSPORT_COMPLETED_PENDING_FINALIZATION" =>
                calls[r] = TaskCount /\ recorded[r] + charge <= Budget[pkg[r]]
            /\ pc' = [pc EXCEPT ![r] = "done"] /\ status' = [status EXCEPT ![r] = s]
            /\ calls' = [calls EXCEPT ![r] = calls[r]]
      BY <2>3 DEF Return
    <3>2. recorded[r] + charge \in Nat
      BY <1>3, <1>4
    <3>3. calls[r] \in Nat /\ s \in {"none"} \cup Results
      BY <1>4, <3>1
    <3> WITNESS charge \in Nat, calls[r] \in Nat, recorded[r] + charge \in Nat,
                "done" \in {"call", "done"}, s \in {"none"} \cup Results
    <3> QED
      BY <1>2, <1>3, <1>4, <2>1, <3>1
  <2>4. recorded[r] + charge > Budget[pkg[r]] \/ recorded[r] + charge <= Budget[pkg[r]]
    BY <1>1, <1>3, <1>4
  <2> QED
    BY <1>6, <2>2, <2>3, <2>4 DEF CallRecorded, Results
<1> QED
  BY <1>2, <1>5, <1>6

LEMMA CallReturnsInv == ASSUME Inv, NEW r \in Requests, CallReturns(r) PROVE Inv'
<1> USE DEF Inv, TypeOK, NoRowBeforeInsert, ReplyAgreesWithRow, AccountsAgree,
      ResultAtTheEnd, DispatchOwnsReservation, OverspendIsOneCall, Holds,
      CandidateCountsEverything, ReplayRefusalNamesAnother
<1>1. /\ pc[r] = "call"
      /\ UNCHANGED <<clock, ledger, pkg, reply>>
  BY DEF CallReturns
<1>2. PICK charge \in Nat, n, cost \in Nat, c \in {"call", "done"}, s \in {"none"} \cup Results :
        /\ charge <= MaxCharge
        /\ charged' = [charged EXCEPT ![r] = @ + charge]
        /\ recorded' = [recorded EXCEPT ![r] = cost]
        /\ calls' = [calls EXCEPT ![r] = n]
        /\ pc' = [pc EXCEPT ![r] = c]
        /\ status' = [status EXCEPT ![r] = s]
        /\ n \in 1..TaskCount
        /\ c = "call" =>
            s = "none" /\ cost = recorded[r] + charge /\ cost <= Budget[pkg[r]]
        /\ s = "TRANSPORT_COMPLETED_PENDING_FINALIZATION" =>
            n = TaskCount /\ cost = recorded[r] + charge /\ cost <= Budget[pkg[r]]
  BY CallStep
<1>3. /\ pkg[r] \in Packages /\ Budget[pkg[r]] \in Nat
      /\ recorded[r] = charged[r] /\ charged[r] <= Budget[pkg[r]] /\ charged[r] \in Nat
      /\ s # "REPLAY_ALREADY_RESERVED" /\ ledger[pkg[r]] = r
  BY <1>1 DEF Results
<1>4. TypeOK'
  <2>1. charged[r] + charge \in Nat /\ n \in 0..TaskCount
    BY <1>2, <1>3
  <2> QED
    BY <1>1, <1>2, <2>1
<1>5. NoRowBeforeInsert' /\ ReplyAgreesWithRow' /\ ResultAtTheEnd'
  BY <1>1, <1>2
<1>6. AccountsAgree'
  BY <1>1, <1>2, <1>3
<1>7. OverspendIsOneCall'
  BY <1>1, <1>2, <1>3
<1>8. DispatchOwnsReservation'
  BY <1>1, <1>2, <1>3
<1>9. CandidateCountsEverything' /\ ReplayRefusalNamesAnother'
  BY <1>1, <1>2, <1>3
<1> QED
  BY <1>4, <1>5, <1>6, <1>7, <1>8, <1>9
LEMMA TerminateInv == ASSUME Inv, NEW r \in Requests, Terminate(r) PROVE Inv'
<1> USE DEF Inv, TypeOK, NoRowBeforeInsert, ReplyAgreesWithRow, AccountsAgree,
      ResultAtTheEnd, DispatchOwnsReservation, OverspendIsOneCall, Holds,
      CandidateCountsEverything, ReplayRefusalNamesAnother
<1>1. /\ pc[r] \notin {"idle", "done"}
      /\ pc' = [pc EXCEPT ![r] = "done"]
      /\ status' = [status EXCEPT ![r] = "terminated"]
      /\ UNCHANGED <<clock, pkg, reply, calls, recorded>>
  BY DEF Terminate, Return
<1>2. pkg[r] \in Packages /\ Budget[pkg[r]] \in Nat
  BY <1>1
<1>3. CASE UNCHANGED <<ledger, charged>>
  BY <1>1, <1>3
<1>4. CASE /\ pc[r] = "reserve"
           /\ ledger' = [ledger EXCEPT ![pkg[r]] = IF @ = Free THEN r ELSE @]
           /\ UNCHANGED charged
  <2>1. TypeOK' /\ ResultAtTheEnd' /\ AccountsAgree' /\ OverspendIsOneCall'
    BY <1>1, <1>4
  <2>2. NoRowBeforeInsert'
    BY <1>1, <1>4
  <2>3. ReplyAgreesWithRow'
    BY <1>1, <1>4
  <2>4. DispatchOwnsReservation' /\ CandidateCountsEverything'
    BY <1>1, <1>4
  <2>5. ReplayRefusalNamesAnother'
    BY <1>1, <1>4
  <2> QED
    BY <2>1, <2>2, <2>3, <2>4, <2>5
<1>5. CASE /\ pc[r] = "call"
           /\ \E charge \in Charges : charged' = [charged EXCEPT ![r] = @ + charge]
           /\ UNCHANGED ledger
  <2>1. PICK charge \in 0..MaxCharge : charged' = [charged EXCEPT ![r] = charged[r] + charge]
    BY <1>5
  <2>2. charged[r] + charge \in Nat /\ charged[r] + charge <= Budget[pkg[r]] + MaxCharge
    BY <1>2, <1>5, <2>1
  <2>3. TypeOK' /\ ResultAtTheEnd' /\ AccountsAgree'
    BY <1>1, <1>5, <2>1, <2>2
  <2>4. OverspendIsOneCall'
    BY <1>1, <1>5, <2>1, <2>2
  <2>5. NoRowBeforeInsert' /\ ReplyAgreesWithRow' /\ DispatchOwnsReservation'
    BY <1>1, <1>5, <2>1
  <2>6. CandidateCountsEverything' /\ ReplayRefusalNamesAnother'
    BY <1>1, <1>5, <2>1
  <2> QED
    BY <2>3, <2>4, <2>5, <2>6
<1> QED
  BY <1>3, <1>4, <1>5 DEF Terminate

LEMMA NextInv == Inv /\ [Next]_vars => Inv'
<1> SUFFICES ASSUME Inv, [Next]_vars PROVE Inv'
  OBVIOUS
<1>1. ASSUME NEW r \in Requests, Work(r) PROVE Inv'
  BY <1>1, ReserveInv, ResumeInv, CredentialInv, CallReturnsInv DEF Work
<1>2. CASE Tick
  BY <1>2 DEF Tick, Inv, TypeOK, NoRowBeforeInsert, ReplyAgreesWithRow, AccountsAgree,
     ResultAtTheEnd, DispatchOwnsReservation, OverspendIsOneCall, Holds,
     CandidateCountsEverything, ReplayRefusalNamesAnother
<1>3. CASE UNCHANGED vars
  BY <1>3 DEF vars, Inv, TypeOK, NoRowBeforeInsert, ReplyAgreesWithRow, AccountsAgree,
     ResultAtTheEnd, DispatchOwnsReservation, OverspendIsOneCall, Holds,
     CandidateCountsEverything, ReplayRefusalNamesAnother
<1> QED
  BY <1>1, <1>2, <1>3, ReceiveInv, TerminateInv DEF Next

-----------------------------------------------------------------------------
(* Theorems.                                                                *)

\* All that is said of the states of the requests holds in every one of them.
THEOREM TransportInvariance == Spec => []Inv
<1> QED
  BY InitInv, NextInv, PTL DEF Spec

\* No authorization is ever dispatched by two requests.
THEOREM SingleDispatch == Spec => []DispatchOwnsReservation
<1>1. Inv => DispatchOwnsReservation
  BY DEF Inv
<1> QED
  BY <1>1, TransportInvariance, PTL

\* The charges against an authorization exceed its budget by at most one call.
THEOREM BoundedOverspend == Spec => []OverspendIsOneCall
<1>1. Inv => OverspendIsOneCall
  BY DEF Inv
<1> QED
  BY <1>1, TransportInvariance, PTL

\* A candidate accounts for every charge and is within budget.
THEOREM CompleteCandidate == Spec => []CandidateCountsEverything
<1>1. Inv => CandidateCountsEverything
  BY DEF Inv
<1> QED
  BY <1>1, TransportInvariance, PTL

\* A replay refusal has another request as its cause.
THEOREM TrueReplayRefusal == Spec => []ReplayRefusalNamesAnother
<1>1. Inv => ReplayRefusalNamesAnother
  BY DEF Inv
<1> QED
  BY <1>1, TransportInvariance, PTL
\* A call is only sent in the signed window, the first one before expiry.
THEOREM TimelyDispatch == Spec => SentInTime
<1> DEFINE Timely == \A r \in Requests :
              calls'[r] > calls[r] => InWindow(pkg[r]) /\ (calls[r] = 0 => IsLive(pkg[r]))
<1>1. Inv /\ [Next]_vars => [Timely]_vars
  <2> SUFFICES ASSUME Inv, Next PROVE Timely
    OBVIOUS
  <2> SUFFICES ASSUME NEW q \in Requests, calls'[q] > calls[q]
               PROVE  InWindow(pkg[q]) /\ (calls[q] = 0 => IsLive(pkg[q]))
    OBVIOUS
  <2> USE DEF Inv, TypeOK
  <2>1. calls[q] \in Nat /\ calls' # calls
    OBVIOUS
  <2>2. PICK r \in Requests : Credential(r) \/ CallReturns(r)
    BY <2>1 DEF Next, Work, Receive, Reserve, Resume, Terminate, Tick
  <2>3. Dispatch(r) /\ (Credential(r) => IsLive(pkg[r])) /\ (CallReturns(r) => pc[r] = "call")
    BY <2>1, <2>2 DEF Credential, CallReturns, CallFails, CallRecorded
  <2>4. q = r /\ InWindow(pkg[r])
    BY <2>1, <2>3 DEF Dispatch, Return
  <2>5. calls[q] = 0 => IsLive(pkg[r])
    BY <2>2, <2>3, <2>4 DEF AccountsAgree
  <2> QED
    BY <2>4, <2>5
<1> QED
  BY <1>1, TransportInvariance, PTL DEF Spec, SentInTime

-----------------------------------------------------------------------------
(* Refinement.                                                              *)

\* Only the request that moves gains or loses the right to its package.
LEMMA RightsStep ==
    ASSUME Inv, NEW r \in Requests, NEW c, NEW a,
           pc' = [pc EXCEPT ![r] = c], reply' = [reply EXCEPT ![r] = a],
           \A q \in Requests \ {r} : pkg'[q] = pkg[q],
           pkg'[r] = pkg[r] \/ ~Holds(r)
    PROVE  /\ Holds(r)' => Rights' = Rights \cup {<<r, pkg'[r]>>}
           /\ ~Holds(r)' => Rights' = Rights \ {<<r, pkg[r]>>}
           /\ ~Holds(r)' /\ ~Holds(r) => Rights' = Rights
           /\ Holds(r)' /\ Holds(r) => Rights' = Rights
<1> USE DEF Inv, TypeOK
<1>1. \A q \in Requests \ {r} : Holds(q)' <=> Holds(q)
  BY DEF Holds
<1>2. Rights' = {<<q, pkg'[q]>> : q \in {s \in Requests : Holds(s)'}}
  BY DEF Rights
<1>3. ~Holds(r) => \A p : <<r, p>> \notin Rights
  BY DEF Rights
<1>4. ~Holds(r)' /\ ~Holds(r) => Rights' = Rights
  BY <1>1, <1>2 DEF Rights
<1>5. Holds(r)' /\ Holds(r) => Rights' = Rights
  BY <1>1, <1>2 DEF Rights
<1> QED
  BY <1>1, <1>2, <1>3, <1>4, <1>5 DEF Rights

\* A step that leaves the ledger, and after which the request holds its
\* package only if it did before.
LEMMA LapseOrStutter ==
    ASSUME Inv, NEW r \in Requests, NEW c,
           pc' = [pc EXCEPT ![r] = c], UNCHANGED <<ledger, pkg, reply>>,
           Holds(r)' => Holds(r)
    PROVE  Ledger!Next \/ UNCHANGED Ledger!vars
<1> USE DEF Inv, TypeOK
<1>1. reply' = [reply EXCEPT ![r] = reply[r]]
  OBVIOUS
<1>2. Unused' = Unused
  BY DEF Unused
<1>3. CASE Holds(r)'
  <2>1. Rights' = Rights
    BY <1>1, <1>3, RightsStep
  <2> QED
    BY <1>2, <2>1 DEF Ledger!vars
<1>4. CASE ~Holds(r)' /\ Holds(r)
  <2>1. <<r, pkg[r]>> \in Rights /\ pkg[r] \in Packages
    BY <1>4 DEF Rights, Holds
  <2>2. Ledger!Lapse(r, pkg[r])
    BY <1>1, <1>2, <1>4, <2>1, RightsStep DEF Ledger!Lapse
  <2> QED
    BY <2>1, <2>2 DEF Ledger!Next
<1>5. CASE ~Holds(r)
  <2>1. ~Holds(r)'
    BY <1>5
  <2>2. Rights' = Rights
    BY <1>1, <1>5, <2>1, RightsStep
  <2> QED
    BY <1>2, <2>2 DEF Ledger!vars
<1> QED
  BY <1>3, <1>4, <1>5

\* A free row that is made uses up its package; a row that exists stays.
LEMMA UnusedStep ==
    ASSUME Inv, NEW r \in Requests, pkg[r] \in Packages,
           ledger' = [ledger EXCEPT ![pkg[r]] = IF @ = Free THEN r ELSE @]
    PROVE  /\ ledger[pkg[r]] = Free => pkg[r] \in Unused /\ Unused' = Unused \ {pkg[r]}
           /\ ledger[pkg[r]] # Free => Unused' = Unused
BY DEF Inv, TypeOK, Unused

LEMMA ReserveRefines ==
    ASSUME Inv, NEW r \in Requests, Reserve(r)
    PROVE  Ledger!Next \/ UNCHANGED Ledger!vars
<1> USE DEF Inv, TypeOK
<1>1. /\ pc[r] = "reserve" /\ pkg[r] \in Packages /\ ~Holds(r)
      /\ pc' = [pc EXCEPT ![r] = "answer"] /\ pkg' = pkg
  BY DEF Reserve, Goto, Holds
<1>3. CASE reply' = [reply EXCEPT ![r] = "RESERVED"]
  <2>1. ledger[pkg[r]] = Free /\ ledger' = [ledger EXCEPT ![pkg[r]] = r]
    BY <1>1, <1>3 DEF Reserve, Insert, InsertUnanswered, InsertFails
  <2>2. Rights' = Rights \cup {<<r, pkg[r]>>}
    BY <1>1, <1>3, RightsStep DEF Holds
  <2>3. pkg[r] \in Unused /\ Unused' = Unused \ {pkg[r]}
    BY <1>1, <2>1, UnusedStep
  <2>4. Ledger!Use(pkg[r])
    BY <2>2, <2>3 DEF Ledger!Use
  <2> QED
    BY <1>1, <2>4 DEF Ledger!Next
<1>4. CASE \E a \in {"ALREADY_RESERVED", "BACKEND_UNAVAILABLE"} : reply' = [reply EXCEPT ![r] = a]
  <2>1. Rights' = Rights
    <3>1. PICK a \in {"ALREADY_RESERVED", "BACKEND_UNAVAILABLE"} : reply' = [reply EXCEPT ![r] = a]
      BY <1>4
    <3>2. ~Holds(r)'
      BY <1>1, <3>1 DEF Holds
    <3> QED
      BY <1>1, <3>1, <3>2, RightsStep
  <2>2. CASE UNCHANGED ledger
    BY <2>1, <2>2 DEF Ledger!vars, Unused
  <2>3. CASE ledger' = [ledger EXCEPT ![pkg[r]] = IF @ = Free THEN r ELSE @]
    BY <1>1, <2>1, <2>3, UnusedStep DEF Ledger!vars, Ledger!Next, Ledger!Use
  <2> QED
    BY <1>4, <2>2, <2>3 DEF Reserve, Insert, InsertUnanswered, InsertFails
<1> QED
  BY <1>3, <1>4 DEF Reserve, Insert, InsertUnanswered, InsertFails

LEMMA TerminateRefines ==
    ASSUME Inv, NEW r \in Requests, Terminate(r)
    PROVE  Ledger!Next \/ UNCHANGED Ledger!vars
<1> USE DEF Inv, TypeOK
<1>1. /\ pc' = [pc EXCEPT ![r] = "done"] /\ pkg[r] \in Packages /\ ~Holds(r)'
      /\ UNCHANGED <<pkg, reply>>
  BY DEF Terminate, Return, Holds
<1>2. CASE UNCHANGED ledger
  BY <1>1, <1>2, LapseOrStutter
<1>3. CASE /\ pc[r] = "reserve"
           /\ ledger' = [ledger EXCEPT ![pkg[r]] = IF @ = Free THEN r ELSE @]
  <2>1. ~Holds(r) /\ reply' = [reply EXCEPT ![r] = reply[r]]
    BY <1>1, <1>3 DEF Holds
  <2>2. Rights' = Rights
    BY <1>1, <2>1, RightsStep
  <2> QED
    BY <1>1, <1>3, <2>2, UnusedStep DEF Ledger!vars, Ledger!Next, Ledger!Use
<1> QED
  BY <1>2, <1>3 DEF Terminate

\* The handlers use each authorization at most once, and only the request that
\* used it may dispatch it.
THEOREM Refinement == Spec => ImplementsSingleUse
<1>1. Init => Ledger!Init
  BY DEF Init, Ledger!Init, Unused, Rights, Holds
<1>2. Inv /\ [Next]_vars => [Ledger!Next]_(Ledger!vars)
  <2> SUFFICES ASSUME Inv, [Next]_vars PROVE Ledger!Next \/ UNCHANGED Ledger!vars
    OBVIOUS
  <2>1. ASSUME NEW r \in Requests, Receive(r) PROVE UNCHANGED Ledger!vars
    <3> USE DEF Inv, TypeOK
    <3>1. PICK c \in {"reserve", "done"} : pc' = [pc EXCEPT ![r] = c]
      BY <2>1 DEF Receive, Goto, Return
    <3>2. /\ reply' = [reply EXCEPT ![r] = reply[r]] /\ ledger' = ledger
          /\ ~Holds(r) /\ ~Holds(r)'
          /\ \A q \in Requests \ {r} : pkg'[q] = pkg[q]
      BY <2>1, <3>1 DEF Receive, Holds
    <3>3. Rights' = Rights
      BY <3>1, <3>2, RightsStep
    <3> QED
      BY <3>2, <3>3 DEF Ledger!vars, Unused
  <2>2. ASSUME NEW r \in Requests, Resume(r) \/ Credential(r) \/ CallReturns(r)
        PROVE  Ledger!Next \/ UNCHANGED Ledger!vars
    <3>1. PICK c \in {"credential", "call", "done"} : pc' = [pc EXCEPT ![r] = c]
      BY <2>2 DEF Resume, Credential, CallReturns, CallFails, CallRecorded, Dispatch, Goto, Return
    <3>2. UNCHANGED <<ledger, pkg, reply>> /\ (c # "done" => Holds(r))
      BY <2>2, <3>1 DEF Resume, Credential, CallReturns, CallFails, CallRecorded,
         Dispatch, Goto, Return, Holds, Inv, TypeOK, ReplyAgreesWithRow
    <3> QED
      BY <3>1, <3>2, LapseOrStutter DEF Holds, Inv, TypeOK
  <2>3. CASE Tick \/ UNCHANGED vars
    BY <2>3 DEF Tick, vars, Ledger!vars, Unused, Rights, Holds
  <2> QED
    BY <2>1, <2>2, <2>3, ReserveRefines, TerminateRefines DEF Next, Work
<1> QED
  BY <1>1, <1>2, TransportInvariance, PTL DEF Spec, ImplementsSingleUse, Ledger!Spec
=============================================================================
