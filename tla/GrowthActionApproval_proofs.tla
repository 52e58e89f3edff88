-------------------- MODULE GrowthActionApproval_proofs --------------------
(***************************************************************************)
(* Proofs about GrowthActionApproval for any numbers of deciding and        *)
(* policy-changing requests, any limits and any payload, faults included.   *)
(***************************************************************************)
EXTENDS GrowthActionApproval, FiniteSetTheorems, TLAPS

LEMMA InitInv == Init => Inv
<1> SUFFICES ASSUME Init PROVE Inv
  OBVIOUS
<1>1. TypeOK
  <2>1. audit_logs \in Seq(AuditRow)
    BY DEF Init
  <2>2. policy \in [Scopes -> PolicyRow \cup {NoPolicy}] /\ saved \subseteq PolicyRow
    BY DEF Init
  <2>3. action \in ActionRow
    BY DEF Init, ActionRow, ApprovalStatuses, Guardrails
  <2>4. dec \in [Deciders -> Decider]
    BY DEF Init, Decider, DecSteps, Decisions, Guardrails, ApprovalStatuses, DecAnswers
  <2>5. adm \in [Admins -> Admin]
    <3>1. NoPatch \in [{} -> Limits \cup {Null}] /\ {} \in SUBSET Fields
      BY DEF NoPatch
    <3>2. NoPatch \in Patches
      BY <3>1 DEF Patches
    <3> QED
      BY <3>2 DEF Init, Admin, AdmSteps, Scopes, PolicyRow, Unconfigured
  <2>6. \A d \in Deciders : dec[d].step = "idle"
    BY DEF Init
  <2> QED
    BY <2>1, <2>2, <2>3, <2>4, <2>5, <2>6 DEF TypeOK
<1>2. ApprovalIsAttributed /\ ApprovalRestsOnAPolicy /\ StatusOnRecord
  BY DEF Init, ApprovalIsAttributed, ApprovalRestsOnAPolicy, StatusOnRecord
<1>3. DecisionsOnRecord /\ HeldApprovals
  BY DEF Init, DecisionsOnRecord, HeldApprovals, Mine, Undecided, Refusals
<1>4. StoredPolicies
  BY DEF Init, StoredPolicies, Scopes
<1> QED
  BY <1>1, <1>2, <1>3, <1>4 DEF Inv

\* A payload that passes nothing configured does not exist.
LEMMA UnconfiguredFails == ~Passes(Unconfigured)
BY DEF Passes, Unconfigured, Fields

-----------------------------------------------------------------------------
(* A decider's step that leaves the database alone.                         *)

\* What the invariant says of one request.
DeciderOK(d) ==
    /\ dec[d].step \in {"reread", "batch"} /\ dec[d].status = "approved"
           => dec[d].guardrail = "PASSED"
    /\ dec[d].step \in Undecided \/ dec[d].answer \in Refusals => Mine(d) = {}
    /\ dec[d].step = "confirm" \/ dec[d].answer = "ok" =>
           \E i \in DOMAIN audit_logs : Mine(d) = {i}
    /\ dec[d].step # "done" => dec[d].answer = "none"
    /\ dec[d].status = "approved" =>
           /\ dec[d].step \in {"reread", "batch"} => \E row \in saved : Passes(row)
           /\ dec[d].step = "batch" => action.requires_approval = 1

\* What it says of the database.
DatabaseOK ==
    /\ action \in ActionRow /\ audit_logs \in Seq(AuditRow)
    /\ policy \in [Scopes -> PolicyRow \cup {NoPolicy}] /\ saved \subseteq PolicyRow
    /\ adm \in [Admins -> Admin]
    /\ ApprovalIsAttributed /\ ApprovalRestsOnAPolicy /\ StatusOnRecord /\ StoredPolicies

LEMMA Parts ==
    Inv <=> DatabaseOK /\ dec \in [Deciders -> Decider] /\ \A d \in Deciders : DeciderOK(d)
BY DEF Inv, TypeOK, DatabaseOK, DeciderOK, DecisionsOnRecord, HeldApprovals

LEMMA PartsNext ==
    ASSUME DatabaseOK', dec' \in [Deciders -> Decider],
           \A d \in Deciders : DeciderOK(d)'
    PROVE  Inv'
BY DEF Inv, TypeOK, DatabaseOK, DeciderOK, DecisionsOnRecord, HeldApprovals

\* Only the stepping request's own part is left to show.
LEMMA QuietStep ==
    ASSUME Inv, DbUnchanged, NEW d \in Deciders, NEW x \in Decider,
           dec' = [dec EXCEPT ![d] = x], DeciderOK(d)'
    PROVE  Inv'
<1>1. DatabaseOK'
  BY Parts DEF DatabaseOK, DbUnchanged, ApprovalIsAttributed, ApprovalRestsOnAPolicy,
     StatusOnRecord, StoredPolicies, Passes
<1>2. dec' \in [Deciders -> Decider]
  BY Parts
<1>3. ASSUME NEW e \in Deciders PROVE DeciderOK(e)'
  <2>1. CASE e = d
    BY <2>1
  <2>2. CASE e # d
    <3>1. dec'[e] = dec[e]
      BY <2>2, Parts
    <3>2. DeciderOK(e)
      BY Parts
    <3> QED
      BY <3>1, <3>2 DEF DeciderOK, DbUnchanged, Mine, Passes
  <2> QED
    BY <2>1, <2>2
<1> QED
  BY <1>1, <1>2, <1>3, PartsNext

LEMMA AnswerFits ==
    ASSUME Inv, DbUnchanged, NEW d \in Deciders, NEW a \in DecAnswers \ {"none"},
           Answer(d, a),
           a \in Refusals => dec[d].step \in Undecided,
           a = "ok" => dec[d].step = "confirm"
    PROVE  Inv'
<1>1. dec[d] \in Decider /\ DeciderOK(d)
  BY Parts
<1> DEFINE x == [dec[d] EXCEPT !.step = "done", !.answer = a]
<1>2. x \in Decider
  BY <1>1 DEF Decider, DecSteps
<1>3. dec' = [dec EXCEPT ![d] = x]
  BY DEF Answer
<1>4. dec'[d] = x /\ x.step = "done" /\ x.answer = a
  BY <1>1, <1>3, Parts DEF Decider
<1> HIDE DEF x
<1>5. DeciderOK(d)'
  BY <1>1, <1>4 DEF DeciderOK, DbUnchanged, Mine, Undecided
<1> QED
  BY <1>2, <1>3, <1>5, QuietStep

\* A request moves on before its batch.
LEMMA MoveFits ==
    ASSUME Inv, DbUnchanged, NEW d \in Deciders, NEW x \in Decider,
           dec' = [dec EXCEPT ![d] = x],
           dec[d].step \in Undecided, x.step \in Undecided, x.answer = "none",
           x.step \in {"reread", "batch"} /\ x.status = "approved" =>
               x.guardrail = "PASSED" /\ \E row \in saved : Passes(row),
           x.step = "batch" /\ x.status = "approved" => action.requires_approval = 1
    PROVE  Inv'
<1>1. DeciderOK(d)
  BY Parts
<1>2. dec'[d] = x
  BY Parts
<1>3. DeciderOK(d)'
  BY <1>1, <1>2 DEF DeciderOK, DbUnchanged, Mine, Undecided, Refusals, Passes
<1> QED
  BY <1>3, QuietStep

LEMMA StillOpen ==
    ASSUME Inv, NEW d \in Deciders, dec[d].step # "done"
    PROVE  dec[d] \in Decider /\ dec[d].answer = "none"
BY Parts DEF DeciderOK

LEMMA ReceiveInv ==
    ASSUME Inv, NEW d \in Deciders, NEW s \in Decisions, Receive(d, s)
    PROVE  Inv'
<1>1. dec[d] \in Decider /\ dec[d].answer = "none" /\ dec[d].step = "idle"
  BY StillOpen DEF Receive, At
<1> DEFINE x == [dec[d] EXCEPT !.step = "lookup", !.status = s]
<1>2. x \in Decider /\ x.step = "lookup" /\ x.answer = "none"
  BY <1>1 DEF Decider, DecSteps
<1>3. dec' = [dec EXCEPT ![d] = x] /\ DbUnchanged
  BY DEF Receive
<1> HIDE DEF x
<1> QED
  BY <1>1, <1>2, <1>3, MoveFits DEF Undecided

LEMMA GotoInv ==
    ASSUME Inv, NEW d \in Deciders, NEW s \in {"policy_business", "policy_org"},
           dec[d].step \in Undecided, DbUnchanged, Goto(d, s)
    PROVE  Inv'
<1>1. dec[d] \in Decider /\ dec[d].answer = "none"
  BY StillOpen DEF Undecided
<1> DEFINE x == [dec[d] EXCEPT !.step = s]
<1>2. x \in Decider /\ x.step = s /\ x.answer = "none"
  BY <1>1 DEF Decider, DecSteps
<1>3. dec' = [dec EXCEPT ![d] = x]
  BY DEF Goto
<1> HIDE DEF x
<1> QED
  BY <1>2, <1>3, MoveFits DEF Undecided

LEMMA LookupInv ==
    ASSUME Inv, NEW d \in Deciders, Lookup(d)
    PROVE  Inv'
<1>1. dec[d] \in Decider /\ dec[d].answer = "none" /\ dec[d].step = "lookup"
  BY StillOpen DEF Lookup, At
<1>2. DbUnchanged /\ dec[d].step \in Undecided
  BY <1>1 DEF Lookup, Undecided
<1>3. CASE Answer(d, "not_reviewable") \/ Answer(d, "failed")
  BY <1>2, <1>3, AnswerFits DEF DecAnswers
<1>4. CASE Goto(d, "policy_business")
  BY <1>2, <1>4, GotoInv
<1>5. CASE /\ dec[d].status # "approved"
           /\ dec' = [dec EXCEPT ![d].step = "reread",
                                 ![d].guardrail = action.guardrail_status]
  <2> DEFINE x == [dec[d] EXCEPT !.step = "reread", !.guardrail = action.guardrail_status]
  <2>1. action.guardrail_status \in Guardrails
    BY Parts DEF DatabaseOK, ActionRow
  <2>2. x \in Decider /\ x.step = "reread" /\ x.answer = "none" /\ x.status # "approved"
    BY <1>1, <1>5, <2>1 DEF Decider, DecSteps
  <2>3. dec' = [dec EXCEPT ![d] = x]
    BY <1>5
  <2> HIDE DEF x
  <2> QED
    BY <1>2, <2>2, <2>3, MoveFits DEF Undecided
<1> QED
  BY <1>3, <1>4, <1>5 DEF Lookup

\* An approval goes on only with a stored policy that the payload passes.
LEMMA JudgeInv ==
    ASSUME Inv, NEW d \in Deciders, dec[d].step \in Undecided, DbUnchanged,
           NEW row, Passes(row) => row \in saved, Judge(d, row)
    PROVE  Inv'
<1>1. dec[d] \in Decider /\ dec[d].answer = "none"
  BY StillOpen DEF Undecided
<1>2. CASE Passes(row)
  <2> DEFINE x == [dec[d] EXCEPT !.step = "reread", !.guardrail = "PASSED"]
  <2>1. x \in Decider /\ x.step = "reread" /\ x.answer = "none" /\ x.guardrail = "PASSED"
    BY <1>1 DEF Decider, DecSteps, Guardrails
  <2>2. dec' = [dec EXCEPT ![d] = x]
    BY <1>2 DEF Judge
  <2>3. row \in saved
    BY <1>2
  <2> HIDE DEF x
  <2> QED
    BY <1>2, <2>1, <2>2, <2>3, MoveFits DEF Undecided
<1>3. CASE ~Passes(row)
  BY <1>3, AnswerFits DEF Judge, DecAnswers
<1> QED
  BY <1>2, <1>3

LEMMA ReadBusinessPolicyInv ==
    ASSUME Inv, NEW d \in Deciders, ReadBusinessPolicy(d)
    PROVE  Inv'
<1>1. DbUnchanged /\ dec[d].step \in Undecided
  BY DEF ReadBusinessPolicy, At, Undecided
<1>2. CASE policy["business"] # NoPolicy /\ Judge(d, policy["business"])
  <2>1. policy["business"] \in saved
    BY <1>2, Parts DEF DatabaseOK, StoredPolicies, Scopes
  <2> QED
    BY <1>1, <1>2, <2>1, JudgeInv
<1>3. CASE Goto(d, "policy_org")
  BY <1>1, <1>3, GotoInv
<1>4. CASE Answer(d, "policy_unavailable")
  BY <1>1, <1>4, AnswerFits DEF DecAnswers
<1> QED
  BY <1>2, <1>3, <1>4 DEF ReadBusinessPolicy

LEMMA ReadOrgPolicyInv ==
    ASSUME Inv, NEW d \in Deciders, ReadOrgPolicy(d)
    PROVE  Inv'
<1>1. DbUnchanged /\ dec[d].step \in Undecided
  BY DEF ReadOrgPolicy, At, Undecided
<1>2. CASE policy["organization"] # NoPolicy /\ Judge(d, policy["organization"])
  <2>1. policy["organization"] \in saved
    BY <1>2, Parts DEF DatabaseOK, StoredPolicies, Scopes
  <2> QED
    BY <1>1, <1>2, <2>1, JudgeInv
<1>3. CASE Judge(d, Unconfigured)
  BY <1>1, <1>3, UnconfiguredFails, JudgeInv
<1>4. CASE Answer(d, "policy_unavailable")
  BY <1>1, <1>4, AnswerFits DEF DecAnswers
<1> QED
  BY <1>2, <1>3, <1>4 DEF ReadOrgPolicy

LEMMA RereadInv ==
    ASSUME Inv, NEW d \in Deciders, Reread(d)
    PROVE  Inv'
<1>1. dec[d] \in Decider /\ dec[d].answer = "none" /\ dec[d].step = "reread"
  BY StillOpen DEF Reread, At
<1>2. DbUnchanged /\ dec[d].step \in Undecided
  BY <1>1 DEF Reread, Undecided
<1>3. CASE Answer(d, "invalid_transition") \/ Answer(d, "failed")
  BY <1>2, <1>3, AnswerFits DEF DecAnswers
<1>4. CASE /\ dec[d].status = "approved" => action.requires_approval = 1
           /\ dec' = [dec EXCEPT ![d].step = "batch", ![d].old = action.approval_status]
  <2> DEFINE x == [dec[d] EXCEPT !.step = "batch", !.old = action.approval_status]
  <2>1. action.approval_status \in ApprovalStatuses
    BY Parts DEF DatabaseOK, ActionRow
  <2>2. /\ x \in Decider /\ x.step = "batch" /\ x.answer = "none"
        /\ x.status = dec[d].status /\ x.guardrail = dec[d].guardrail
    BY <1>1, <2>1 DEF Decider, DecSteps
  <2>3. dec' = [dec EXCEPT ![d] = x]
    BY <1>4
  <2>4. dec[d].status = "approved" =>
            dec[d].guardrail = "PASSED" /\ \E row \in saved : Passes(row)
    BY <1>1, Parts DEF DeciderOK
  <2> HIDE DEF x
  <2> QED
    BY <1>2, <1>4, <2>2, <2>3, <2>4, MoveFits DEF Undecided
<1> QED
  BY <1>3, <1>4 DEF Reread

-----------------------------------------------------------------------------
(* The batch.                                                               *)

LEMMA BatchInv ==
    ASSUME Inv, NEW d \in Deciders, Batch(d)
    PROVE  Inv'
<1>1. dec[d] \in Decider /\ dec[d].answer = "none" /\ dec[d].step = "batch"
  BY StillOpen DEF Batch, At
<1>2. /\ DatabaseOK /\ DeciderOK(d) /\ dec \in [Deciders -> Decider]
      /\ \A e \in Deciders : DeciderOK(e)
  BY Parts
<1> DEFINE entry == DecisionEntry(d)
           n == Len(audit_logs)
<1>3. entry \in AuditRow /\ entry.by = d /\ entry.new = dec[d].status
  BY <1>1 DEF DecisionEntry, AuditRow, Decider
<1>4. /\ audit_logs' = Append(audit_logs, entry) /\ audit_logs' \in Seq(AuditRow)
      /\ n \in Nat /\ DOMAIN audit_logs = 1..n /\ DOMAIN audit_logs' = 1..(n + 1)
      /\ Len(audit_logs') = n + 1 /\ audit_logs' # <<>>
      /\ audit_logs'[n + 1] = entry /\ \A i \in 1..n : audit_logs'[i] = audit_logs[i]
  BY <1>2, <1>3 DEF Batch, DatabaseOK
<1>5. UNCHANGED <<policy, saved, adm>>
  BY DEF Batch
<1>6. /\ action' \in ActionRow
      /\ action'.approval_status = dec[d].status
      /\ action'.approved_by_user_id = IF dec[d].status = "approved" THEN d ELSE Null
      /\ dec[d].status = "approved" => action'.guardrail_status = "PASSED"
      /\ action'.requires_approval = action.requires_approval
  BY <1>1, <1>2 DEF Batch, DecidedRow, DatabaseOK, ActionRow, Decider, Decisions,
     ApprovalStatuses, Guardrails
<1>7. DatabaseOK'
  <2>1. StatusOnRecord'
    BY <1>3, <1>4, <1>6 DEF StatusOnRecord
  <2>2. ApprovalIsAttributed'
    <3>1. d # Null
      BY PolicyAssumption
    <3>2. action'.approval_status = "approved" <=> action'.approved_by_user_id # Null
      BY <1>6, <3>1
    <3>3. dec[d].status = "approved" => action'.requires_approval = 1
      BY <1>1, <1>2, <1>6 DEF DeciderOK
    <3>4. dec[d].status = "approved" =>
              entry = [entry EXCEPT !.by = action'.approved_by_user_id, !.new = "approved"]
      BY <1>3, <1>6 DEF AuditRow
    <3> QED
      BY <1>4, <1>6, <3>2, <3>3, <3>4 DEF ApprovalIsAttributed
  <2>3. ApprovalRestsOnAPolicy'
    <3>1. dec[d].status = "approved" => \E row \in saved : Passes(row)
      BY <1>1, <1>2 DEF DeciderOK
    <3>2. (\E i \in 1..n : audit_logs[i].new = "approved") => \E row \in saved : Passes(row)
      BY <1>2, <1>4 DEF DatabaseOK, ApprovalRestsOnAPolicy
    <3>3. (\E i \in 1..(n + 1) : audit_logs'[i].new = "approved") =>
              dec[d].status = "approved" \/ \E i \in 1..n : audit_logs[i].new = "approved"
      BY <1>3, <1>4
    <3> QED
      BY <1>4, <1>5, <3>1, <3>2, <3>3 DEF ApprovalRestsOnAPolicy, Passes
  <2>4. StoredPolicies'
    BY <1>2, <1>5 DEF DatabaseOK, StoredPolicies
  <2> QED
    BY <1>2, <1>4, <1>5, <1>6, <2>1, <2>2, <2>3, <2>4 DEF DatabaseOK
<1>8. \E a \in {"none", "failed"} :
          \E s \in {"confirm", "done"} :
              /\ dec' = [dec EXCEPT ![d] = [dec[d] EXCEPT !.step = s, !.answer = a]]
              /\ s = "confirm" <=> a = "none"
  <2>1. CASE Goto(d, "confirm")
    <3>1. [dec[d] EXCEPT !.step = "confirm"] = [dec[d] EXCEPT !.step = "confirm", !.answer = "none"]
      BY <1>1 DEF Decider
    <3> QED
      BY <2>1, <3>1 DEF Goto
  <2>2. CASE Answer(d, "failed")
    BY <2>2 DEF Answer
  <2> QED
    BY <2>1, <2>2 DEF Batch
<1>9. /\ dec' \in [Deciders -> Decider]
      /\ \A e \in Deciders : e # d => dec'[e] = dec[e]
      /\ dec'[d].step \in {"confirm", "done"} /\ dec'[d].answer \in {"none", "failed"}
      /\ dec'[d].step # "done" => dec'[d].answer = "none"
  <2>1. PICK a \in {"none", "failed"}, s \in {"confirm", "done"} :
            /\ dec' = [dec EXCEPT ![d] = [dec[d] EXCEPT !.step = s, !.answer = a]]
            /\ s = "confirm" <=> a = "none"
    BY <1>8
  <2> DEFINE x == [dec[d] EXCEPT !.step = s, !.answer = a]
  <2>2. x \in Decider /\ x.step = s /\ x.answer = a
    BY <1>1 DEF Decider, DecSteps, DecAnswers
  <2>3. dec' = [dec EXCEPT ![d] = x]
    BY <2>1
  <2> HIDE DEF x
  <2> QED
    BY <1>2, <2>1, <2>2, <2>3
<1>10. Mine(d)' = {n + 1}
  <2>1. Mine(d) = {}
    BY <1>1, <1>2 DEF DeciderOK, Undecided
  <2>2. \A i \in 1..n : audit_logs'[i].by # d
    BY <1>4, <2>1 DEF Mine
  <2> QED
    BY <1>3, <1>4, <2>2 DEF Mine
<1>11. ASSUME NEW e \in Deciders PROVE DeciderOK(e)'
  <2>1. CASE e = d
    BY <1>4, <1>9, <1>10, <2>1 DEF DeciderOK, Undecided, Refusals
  <2>2. CASE e # d
    <3>1. Mine(e)' = Mine(e)
      BY <1>3, <1>4, <2>2 DEF Mine
    <3>2. DeciderOK(e) /\ dec'[e] = dec[e]
      BY <1>2, <1>9, <2>2
    <3>3. DOMAIN audit_logs \subseteq DOMAIN audit_logs'
      BY <1>4
    <3> QED
      BY <1>5, <1>6, <3>1, <3>2, <3>3 DEF DeciderOK, Passes
  <2> QED
    BY <2>1, <2>2
<1> QED
  BY <1>7, <1>9, <1>11, PartsNext

LEMMA DecideInv ==
    ASSUME Inv, NEW d \in Deciders, Decide(d)
    PROVE  Inv'
<1>1. CASE BatchFails(d)
  BY <1>1, AnswerFits DEF BatchFails, DecAnswers, Refusals
<1>2. CASE Confirm(d)
  BY <1>2, AnswerFits DEF Confirm, At, DecAnswers, Refusals
<1> QED
  BY <1>1, <1>2, ReceiveInv, LookupInv, ReadBusinessPolicyInv, ReadOrgPolicyInv,
     RereadInv, BatchInv DEF Decide

-----------------------------------------------------------------------------
(* The policy's administrators.                                             *)

\* A step that only adds to what was stored.
LEMMA AdminKeepsDecisions ==
    ASSUME Inv, UNCHANGED <<action, audit_logs, dec>>, saved \subseteq saved',
           saved' \subseteq PolicyRow, adm' \in [Admins -> Admin],
           policy' \in [Scopes -> PolicyRow \cup {NoPolicy}], StoredPolicies'
    PROVE  Inv'
<1>1. DatabaseOK'
  BY Parts DEF DatabaseOK, ApprovalIsAttributed, ApprovalRestsOnAPolicy, StatusOnRecord,
     Passes
<1>2. \A d \in Deciders : DeciderOK(d)'
  BY Parts DEF DeciderOK, Mine, Passes
<1> QED
  BY <1>1, <1>2, Parts, PartsNext

LEMMA AdministerInv ==
    ASSUME Inv, NEW p \in Admins, Administer(p)
    PROVE  Inv'
<1>1. /\ adm \in [Admins -> Admin] /\ adm[p] \in Admin
      /\ policy \in [Scopes -> PolicyRow \cup {NoPolicy}]
      /\ StoredPolicies /\ saved \subseteq PolicyRow
  BY Parts DEF DatabaseOK
<1>2. CASE \E s \in Scopes, patch \in Patches : PolicyReceive(p, s, patch)
  <2>1. PICK s \in Scopes, patch \in Patches : PolicyReceive(p, s, patch)
    BY <1>2
  <2> DEFINE x == [adm[p] EXCEPT !.step = IF s = "business" THEN "read_business" ELSE "read_org",
                                 !.scope = s, !.patch = patch]
  <2>2. x \in Admin
    BY <1>1 DEF Admin, AdmSteps
  <2>3. adm' = [adm EXCEPT ![p] = x] /\ UNCHANGED <<action, audit_logs, policy, saved, dec>>
    BY <2>1 DEF PolicyReceive
  <2> HIDE DEF x
  <2>4. adm' \in [Admins -> Admin]
    BY <1>1, <2>2, <2>3
  <2> QED
    BY <1>1, <2>3, <2>4, AdminKeepsDecisions DEF StoredPolicies
<1>3. CASE PolicyReadBusiness(p)
  <2>1. adm' \in [Admins -> Admin]
    BY <1>1, <1>3 DEF PolicyReadBusiness, Admin, AdmSteps, Scopes
  <2> QED
    BY <1>1, <1>3, <2>1, AdminKeepsDecisions DEF PolicyReadBusiness, StoredPolicies
<1>4. CASE PolicyReadOrg(p)
  <2>1. Unconfigured \in PolicyRow
    BY DEF Unconfigured, PolicyRow
  <2>2. adm' \in [Admins -> Admin]
    BY <1>1, <1>4, <2>1 DEF PolicyReadOrg, Admin, AdmSteps, Scopes
  <2> QED
    BY <1>1, <1>4, <2>2, AdminKeepsDecisions DEF PolicyReadOrg, StoredPolicies
<1>5. CASE PolicySave(p)
  <2>1. Merged(p) \in PolicyRow
    <3>1. adm[p].patch \in Patches /\ adm[p].current \in PolicyRow
      BY <1>1 DEF Admin
    <3>2. PICK S \in SUBSET Fields : adm[p].patch \in [S -> Limits \cup {Null}]
      BY <3>1 DEF Patches
    <3> QED
      BY <3>1, <3>2 DEF Merged, PolicyRow
  <2>2. /\ policy' = [policy EXCEPT ![adm[p].scope] = Merged(p)]
        /\ saved' = saved \cup {Merged(p)}
        /\ adm' = [adm EXCEPT ![p].step = "done"]
        /\ UNCHANGED <<action, audit_logs, dec>>
    BY <1>5 DEF PolicySave
  <2>3. adm' \in [Admins -> Admin]
    BY <1>1, <2>2 DEF Admin, AdmSteps
  <2>4. StoredPolicies'
    BY <1>1, <2>2 DEF StoredPolicies
  <2>5. policy' \in [Scopes -> PolicyRow \cup {NoPolicy}]
    BY <1>1, <2>1, <2>2
  <2> QED
    BY <1>1, <2>1, <2>2, <2>3, <2>4, <2>5, AdminKeepsDecisions
<1>6. CASE PolicyFails(p)
  <2>1. adm' \in [Admins -> Admin]
    BY <1>1, <1>6 DEF PolicyFails, Admin, AdmSteps
  <2> QED
    BY <1>1, <1>6, <2>1, AdminKeepsDecisions DEF PolicyFails, StoredPolicies
<1> QED
  BY <1>2, <1>3, <1>4, <1>5, <1>6 DEF Administer

LEMMA NextInv == Inv /\ [Next]_vars => Inv'
<1> SUFFICES ASSUME Inv, [Next]_vars PROVE Inv'
  OBVIOUS
<1>1. CASE UNCHANGED vars
  <2>1. StoredPolicies' /\ adm' = adm /\ policy' = policy /\ saved' = saved
    BY <1>1, Parts DEF vars, DatabaseOK, StoredPolicies
  <2> QED
    BY <1>1, <2>1, Parts, AdminKeepsDecisions DEF vars, DatabaseOK
<1> QED
  BY <1>1, DecideInv, AdministerInv DEF Next, Quiescent

-----------------------------------------------------------------------------
(* The theorems.                                                            *)

\* The inductive invariant holds: what a deciding request holds between two
\* awaits agrees with the action's row, the audit trail and the stored
\* policies (transitionWithAudit, POST /api/actions).
THEOREM GrowthInvariance == Spec => []Inv
BY InitInv, NextInv, PTL DEF Spec

\* Every value has its type, and an approval on its way to the batch holds a
\* passed guardrail (the check of transitionWithAudit never fires).
THEOREM GrowthTypes == Spec => []TypeOK
<1>1. Inv => TypeOK
  BY DEF Inv
<1> QED
  BY <1>1, GrowthInvariance, PTL

\* The approver the row names made the last decision on record, an approval
\* with a passed guardrail, whatever raced with it.
THEOREM Attributed == Spec => []ApprovalIsAttributed
<1>1. Inv => ApprovalIsAttributed
  BY DEF Inv
<1> QED
  BY <1>1, GrowthInvariance, PTL

LEMMA OnRecord == Inv => AuditTracksDecisions
<1> SUFFICES ASSUME Inv PROVE AuditTracksDecisions
  OBVIOUS
<1>1. ASSUME NEW d \in Deciders
      PROVE  /\ dec[d].answer = "ok" => Cardinality(Mine(d)) = 1
             /\ dec[d].answer \in Refusals => Mine(d) = {}
  BY <1>1, FS_Singleton DEF Inv, DecisionsOnRecord
<1> QED
  BY <1>1 DEF Inv, AuditTracksDecisions, StatusOnRecord, Mine, Refusals

\* The audit trail ends in the row's status, and a request answered "ok" is on
\* record once, a refused one not at all (the batch of transitionWithAudit).
THEOREM OnAudit == Spec => []AuditTracksDecisions
BY OnRecord, GrowthInvariance, PTL

\* An approval rests on a policy row that was really stored (getPolicy's two
\* queries and validate).
THEOREM OnAPolicy == Spec => []ApprovalRestsOnAPolicy
<1>1. Inv => ApprovalRestsOnAPolicy
  BY DEF Inv
<1> QED
  BY <1>1, GrowthInvariance, PTL

-----------------------------------------------------------------------------
(* One decision at a time.                                                  *)

\* No two decisions are between their second read and their batch at once.
OneHeld == \A d, e \in Deciders : At(d, "batch") /\ At(e, "batch") => d = e

\* What a request is about to write starts from the row as it is.
HeldCurrent ==
    \A d \in Deciders : At(d, "batch") =>
        /\ dec[d].old = action.approval_status
        /\ IsAllowedTransition(dec[d].old, dec[d].status)

\* The audit rows are a chain of allowed transitions from the pending action.
AuditIsAChain ==
    \A i \in DOMAIN audit_logs :
        /\ audit_logs[i].old = IF i = 1 THEN "pending_approval" ELSE audit_logs[i - 1].new
        /\ IsAllowedTransition(audit_logs[i].old, audit_logs[i].new)

\* A step that is no batch writes neither the row nor the audit trail, and
\* whoever comes to its batch by it has just read the row.
LEMMA OnlyBatchWrites ==
    ASSUME Inv, Next, \A d \in Deciders : ~Batch(d)
    PROVE  /\ UNCHANGED <<action, audit_logs>>
           /\ \A d \in Deciders : At(d, "batch")' =>
                  \/ At(d, "batch") /\ dec'[d] = dec[d]
                  \/ /\ dec'[d].old = action.approval_status
                     /\ IsAllowedTransition(dec'[d].old, dec'[d].status)
<1> DEFINE Goal == /\ UNCHANGED <<action, audit_logs>>
                   /\ \A d \in Deciders : At(d, "batch")' =>
                          \/ At(d, "batch") /\ dec'[d] = dec[d]
                          \/ /\ dec'[d].old = action.approval_status
                             /\ IsAllowedTransition(dec'[d].old, dec'[d].status)
<1>1. dec \in [Deciders -> Decider]
  BY Parts
<1>2. ASSUME NEW d \in Deciders, DbUnchanged, \A e \in Deciders \ {d} : dec'[e] = dec[e],
             At(d, "batch")' => /\ dec'[d].old = action.approval_status
                                /\ IsAllowedTransition(dec'[d].old, dec'[d].status)
      PROVE  Goal
  BY <1>2 DEF DbUnchanged, At
<1>3. ASSUME NEW d \in Deciders, NEW a, DbUnchanged, Answer(d, a) PROVE Goal
  <2>1. dec'[d].step = "done" /\ \A e \in Deciders \ {d} : dec'[e] = dec[e]
    BY <1>1, <1>3 DEF Answer, Decider
  <2> QED
    BY <1>2, <1>3, <2>1 DEF At
<1>4. ASSUME NEW d \in Deciders, NEW s, s # "batch", DbUnchanged, Goto(d, s) PROVE Goal
  <2>1. dec'[d].step = s /\ \A e \in Deciders \ {d} : dec'[e] = dec[e]
    BY <1>1, <1>4 DEF Goto, Decider
  <2> QED
    BY <1>2, <1>4, <2>1 DEF At
<1>5. ASSUME NEW d \in Deciders, NEW s \in Decisions, Receive(d, s) PROVE Goal
  <2>1. dec'[d].step = "lookup" /\ \A e \in Deciders \ {d} : dec'[e] = dec[e]
    BY <1>1, <1>5 DEF Receive, Decider
  <2> QED
    BY <1>2, <1>5, <2>1 DEF Receive, At
<1>6. ASSUME NEW d \in Deciders, Lookup(d) PROVE Goal
  <2>1. CASE dec' = [dec EXCEPT ![d].step = "reread", ![d].guardrail = action.guardrail_status]
    <3>1. dec'[d].step = "reread" /\ \A e \in Deciders \ {d} : dec'[e] = dec[e]
      BY <1>1, <2>1 DEF Decider
    <3> QED
      BY <1>2, <1>6, <3>1 DEF Lookup, At
  <2> QED
    BY <1>3, <1>4, <1>6, <2>1 DEF Lookup
<1>7. ASSUME NEW d \in Deciders, NEW row, DbUnchanged, Judge(d, row) PROVE Goal
  <2>1. CASE dec' = [dec EXCEPT ![d].step = "reread", ![d].guardrail = "PASSED"]
    <3>1. dec'[d].step = "reread" /\ \A e \in Deciders \ {d} : dec'[e] = dec[e]
      BY <1>1, <2>1 DEF Decider
    <3> QED
      BY <1>2, <1>7, <3>1 DEF At
  <2> QED
    BY <1>3, <1>7, <2>1 DEF Judge
<1>8. ASSUME NEW d \in Deciders, ReadBusinessPolicy(d) \/ ReadOrgPolicy(d) PROVE Goal
  BY <1>3, <1>4, <1>7, <1>8 DEF ReadBusinessPolicy, ReadOrgPolicy
<1>9. ASSUME NEW d \in Deciders, Reread(d) PROVE Goal
  <2>1. CASE /\ IsAllowedTransition(action.approval_status, dec[d].status)
             /\ dec' = [dec EXCEPT ![d].step = "batch", ![d].old = action.approval_status]
    <3>1. /\ dec'[d].old = action.approval_status /\ dec'[d].status = dec[d].status
          /\ \A e \in Deciders \ {d} : dec'[e] = dec[e]
      BY <1>1, <2>1 DEF Decider
    <3> QED
      BY <1>2, <1>9, <2>1, <3>1 DEF Reread
  <2> QED
    BY <1>3, <1>9, <2>1 DEF Reread
<1>10. ASSUME NEW d \in Deciders, BatchFails(d) \/ Confirm(d) PROVE Goal
  BY <1>3, <1>10 DEF BatchFails, Confirm
<1>11. ASSUME NEW p \in Admins, Administer(p) PROVE Goal
  BY <1>11 DEF Administer, PolicyReceive, PolicyReadBusiness, PolicyReadOrg, PolicySave,
     PolicyFails, At
<1>12. CASE Quiescent
  BY <1>12 DEF Quiescent, vars, At
<1> QED
  BY <1>5, <1>6, <1>8, <1>9, <1>10, <1>11, <1>12 DEF Next, Decide

LEMMA ChainNext ==
    ASSUME Inv, HeldCurrent, AuditIsAChain, OneHeld, [Next]_vars
    PROVE  HeldCurrent' /\ AuditIsAChain'
<1>1. CASE UNCHANGED vars
  BY <1>1 DEF vars, HeldCurrent, AuditIsAChain, At
<1>2. CASE Next /\ \A d \in Deciders : ~Batch(d)
  <2>1. HeldCurrent'
    BY <1>2, OnlyBatchWrites DEF HeldCurrent, At
  <2> QED
    BY <1>2, <2>1, OnlyBatchWrites DEF AuditIsAChain
<1>3. ASSUME NEW d \in Deciders, Batch(d) PROVE HeldCurrent' /\ AuditIsAChain'
  <2> DEFINE n == Len(audit_logs)
             entry == DecisionEntry(d)
  <2>1. /\ dec \in [Deciders -> Decider] /\ dec[d] \in Decider /\ At(d, "batch")
        /\ audit_logs \in Seq(AuditRow) /\ action \in ActionRow /\ StatusOnRecord
    BY <1>3, Parts DEF Batch, DatabaseOK
  <2>2. /\ entry.old = action.approval_status /\ entry.new = dec[d].status
        /\ IsAllowedTransition(entry.old, entry.new)
    BY <2>1 DEF HeldCurrent, DecisionEntry
  <2>3. ~At(d, "batch")' /\ \A e \in Deciders \ {d} : dec'[e] = dec[e]
    BY <1>3, <2>1 DEF Batch, Goto, Answer, At, Decider
  <2>4. HeldCurrent'
    BY <2>1, <2>3 DEF HeldCurrent, OneHeld, At
  <2>5. /\ n \in Nat /\ DOMAIN audit_logs = 1..n /\ DOMAIN audit_logs' = 1..(n + 1)
        /\ audit_logs'[n + 1] = entry /\ \A i \in 1..n : audit_logs'[i] = audit_logs[i]
        /\ audit_logs = <<>> <=> n = 0
    BY <1>3, <2>1 DEF Batch
  <2> HIDE DEF n, entry
  <2>6. entry.old = IF n = 0 THEN "pending_approval" ELSE audit_logs[n].new
    BY <2>1, <2>2, <2>5 DEF StatusOnRecord, n
  <2>7. ASSUME NEW i \in 1..(n + 1)
        PROVE  /\ audit_logs'[i].old =
                      IF i = 1 THEN "pending_approval" ELSE audit_logs'[i - 1].new
               /\ IsAllowedTransition(audit_logs'[i].old, audit_logs'[i].new)
    <3>1. CASE i = n + 1
      <4>1. i = 1 <=> n = 0
        BY <2>5, <3>1
      <4>2. n # 0 => n \in 1..n /\ i - 1 = n
        BY <2>5, <3>1
      <4> QED
        BY <2>2, <2>5, <2>6, <3>1, <4>1, <4>2
    <3>2. CASE i # n + 1
      <4>1. i \in 1..n /\ (i # 1 => i - 1 \in 1..n)
        BY <2>5, <3>2
      <4> QED
        BY <2>5, <4>1 DEF AuditIsAChain
    <3> QED
      BY <3>1, <3>2
  <2>8. AuditIsAChain'
    BY <2>5, <2>7 DEF AuditIsAChain
  <2> QED
    BY <2>4, <2>8
<1> QED
  BY <1>1, <1>2, <1>3

LEMMA ChainInit == Init => HeldCurrent /\ AuditIsAChain
BY DEF Init, HeldCurrent, AuditIsAChain, At

\* As long as no two decisions are between read and batch at once, the audit
\* trail is a chain of allowed transitions, each from the status the one before
\* it led to (transitionWithAudit's step 2 is then never out of date).
THEOREM ChainWhenAlone == Spec /\ []OneHeld => [](HeldCurrent /\ AuditIsAChain)
<1>1. Inv /\ HeldCurrent /\ AuditIsAChain /\ OneHeld /\ [Next]_vars
          => (HeldCurrent /\ AuditIsAChain)'
  BY ChainNext
<1> QED
  BY <1>1, ChainInit, GrowthInvariance, PTL DEF Spec

\* Terminal decisions are then final: what GrowthTerminal finds is the overlap
\* of two batches and nothing else.
THEOREM TerminalWhenAlone == Spec /\ []OneHeld => TerminalStaysTerminal
<1> DEFINE Final == action.approval_status \in TerminalStatuses =>
                        action'.approval_status = action.approval_status
<1>1. ASSUME Inv, HeldCurrent, Next PROVE Final
  <2>1. CASE \A d \in Deciders : ~Batch(d)
    BY <1>1, <2>1, OnlyBatchWrites
  <2>2. ASSUME NEW d \in Deciders, Batch(d) PROVE Final
    <3>1. IsAllowedTransition(action.approval_status, dec[d].status)
      BY <1>1, <2>2 DEF HeldCurrent, Batch
    <3> QED
      BY <3>1 DEF IsAllowedTransition, TerminalStatuses
  <2> QED
    BY <2>1, <2>2
<1>2. Inv /\ HeldCurrent /\ AuditIsAChain /\ [Next]_vars => [Final]_vars
  BY <1>1
<1> QED
  BY <1>2, ChainWhenAlone, GrowthInvariance, PTL DEF Spec, TerminalStaysTerminal
=============================================================================
