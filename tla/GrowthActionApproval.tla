------------------------ MODULE GrowthActionApproval ------------------------
(***************************************************************************)
(* POST /api/actions (approve, reject, defer) and PATCH of the tenant's     *)
(* action policy, as concurrent worker invocations over one D1 database     *)
(* (worker/routes/growthActionsRouter.ts,                                   *)
(* worker/repositories/growthActionRepository.ts,                           *)
(* worker/ai/actions/actionPolicyRepository.ts and actionPolicyEngine.ts).  *)
(* One growth action of one business is followed; its payload asks for a    *)
(* discount and an ad budget.                                               *)
(***************************************************************************)
EXTENDS Naturals, Sequences, FiniteSets

CONSTANTS
    Deciders,   \* requests that decide about the action
    Admins,     \* requests that change the action policy
    MaxLimit,   \* bound on the limits a policy may set
    Payload,    \* [discount |-> n, budget |-> n]: what the action asks for
    Null,       \* SQL NULL
    Faults      \* TRUE: D1 calls may fail or lose their answer

Fields == {"discount", "budget"}
Limits == 0..MaxLimit

ASSUME PolicyAssumption ==
    /\ MaxLimit \in Nat
    /\ Null \notin Limits /\ Null \notin Deciders
    /\ Payload \in [Fields -> Nat]
    /\ Faults \in BOOLEAN

VARIABLES
    action,     \* the growth_actions row
    audit_logs, \* its audit_logs rows, oldest first
    policy,     \* organization_action_policies: scope -> row or NoPolicy
    saved,      \* history variable: every policy row ever stored
    dec,        \* what a deciding invocation holds between two awaits
    adm         \* what a policy-changing invocation holds

vars == <<action, audit_logs, policy, saved, dec, adm>>

-----------------------------------------------------------------------------
(* Values.                                                                  *)

Decisions == {"approved", "rejected", "deferred"}
ApprovalStatuses == Decisions \cup {"pending_approval"}
TerminalStatuses == {"approved", "rejected"}
Guardrails == {"PASSED", "FAILED", "NOT_EVALUATED"}
Scopes == {"business", "organization"}

PolicyRow == [Fields -> Limits \cup {Null}]
NoPolicy == [f \in {} |-> 0]
Unconfigured == [f \in Fields |-> Null]

\* What a PATCH sends: values for some of the limits.
Patches == UNION {[S -> Limits \cup {Null}] : S \in SUBSET Fields}
NoPatch == [f \in {} |-> Null]

ActionRow == [approval_status: ApprovalStatuses, guardrail_status: Guardrails,
              approved_by_user_id: Deciders \cup {Null},
              requires_approval: {0, 1}]

AuditRow == [by: Deciders, old: ApprovalStatuses, new: Decisions]

DecSteps == {"idle", "lookup", "policy_business", "policy_org", "reread",
             "batch", "confirm", "done"}
DecAnswers == {"none", "ok", "not_reviewable", "guardrail_violation",
               "policy_unavailable", "invalid_transition", "failed"}

Decider == [step: DecSteps, status: Decisions, guardrail: Guardrails,
            old: ApprovalStatuses, answer: DecAnswers]

AdmSteps == {"idle", "read_business", "read_org", "save", "done"}
Admin == [step: AdmSteps, scope: Scopes, patch: Patches, current: PolicyRow]

\* Every value has its type, and an invocation that is about to write approval
\* holds a passed guardrail (transitionWithAudit throws GUARDRAIL_NOT_PASSED).
TypeOK ==
    /\ action \in ActionRow
    /\ audit_logs \in Seq(AuditRow)
    /\ policy \in [Scopes -> PolicyRow \cup {NoPolicy}]
    /\ saved \subseteq PolicyRow
    /\ dec \in [Deciders -> Decider]
    /\ adm \in [Admins -> Admin]
    /\ \A d \in Deciders :
          dec[d].step \in {"reread", "batch"} /\ dec[d].status = "approved"
             => dec[d].guardrail = "PASSED"

\* The action engine inserted the row; the organization may have a policy.
Init ==
    /\ action \in [approval_status: {"pending_approval"},
                   guardrail_status: {"NOT_EVALUATED"},
                   approved_by_user_id: {Null}, requires_approval: {0, 1}]
    /\ audit_logs = <<>>
    /\ \E row \in PolicyRow \cup {NoPolicy} :
          /\ policy = [s \in Scopes |-> IF s = "organization" THEN row
                                                              ELSE NoPolicy]
          /\ saved = {row} \ {NoPolicy}
    /\ dec = [d \in Deciders |->
                [step |-> "idle", status |-> "deferred",
                 guardrail |-> "NOT_EVALUATED", old |-> "pending_approval",
                 answer |-> "none"]]
    /\ adm = [p \in Admins |->
                [step |-> "idle", scope |-> "business", patch |-> NoPatch,
                 current |-> Unconfigured]]

-----------------------------------------------------------------------------
(* Helpers.                                                                 *)

At(d, s) == dec[d].step = s
Goto(d, s) == dec' = [dec EXCEPT ![d].step = s]
Answer(d, a) == dec' = [dec EXCEPT ![d].step = "done", ![d].answer = a]
DbUnchanged == UNCHANGED <<action, audit_logs, policy, saved, adm>>

\* ActionPolicyEngine.validate on the numeric limits of the stored payload: a
\* limit that is not configured fails like one that is exceeded.
Passes(row) == \A f \in Fields : row[f] # Null /\ Payload[f] <= row[f]

\* Step 2 of transitionWithAudit.
IsAllowedTransition(old, new) ==
    \/ old = "pending_approval" /\ new \in Decisions
    \/ old = "deferred" /\ new \in {"approved", "rejected"}

-----------------------------------------------------------------------------
(* POST /api/actions.                                                       *)

Receive(d, status) ==
    /\ At(d, "idle")
    /\ dec' = [dec EXCEPT ![d].step = "lookup", ![d].status = status]
    /\ DbUnchanged

\* The router reads the action: its guardrail status is kept for a rejection
\* or a deferral, its approval status is not looked at.
Lookup(d) ==
    /\ At(d, "lookup")
    /\ \/ /\ dec[d].status = "approved"
          /\ action.requires_approval # 1
          /\ Answer(d, "not_reviewable")
       \/ /\ dec[d].status = "approved"
          /\ action.requires_approval = 1
          /\ Goto(d, "policy_business")
       \/ /\ dec[d].status # "approved"
          /\ dec' = [dec EXCEPT ![d].step = "reread",
                                ![d].guardrail = action.guardrail_status]
       \/ Faults /\ Answer(d, "failed")
    /\ DbUnchanged

\* Mutant: a passed validation is not written into the guardrail status.
Judge_Unmarked(d, row) ==
    IF Passes(row) THEN Goto(d, "reread") ELSE Answer(d, "guardrail_violation")

Judge(d, row) ==
    IF Passes(row)
    THEN dec' = [dec EXCEPT ![d].step = "reread", ![d].guardrail = "PASSED"]
    ELSE Answer(d, "guardrail_violation")

\* Mutant: what the business leaves open is filled in from the organization.
ReadBusinessPolicy_FillsGaps(d) ==
    /\ At(d, "policy_business")
    /\ LET own == policy["business"]
           org == policy["organization"]
           mix == [f \in Fields |-> IF own[f] = Null /\ org # NoPolicy THEN org[f] ELSE own[f]]
       IN  \/ own # NoPolicy /\ Judge(d, mix)
           \/ own = NoPolicy /\ Goto(d, "policy_org")
    /\ DbUnchanged

\* getPolicy, first SELECT: the business's own row.
ReadBusinessPolicy(d) ==
    /\ At(d, "policy_business")
    /\ \/ policy["business"] # NoPolicy /\ Judge(d, policy["business"])
       \/ policy["business"] = NoPolicy /\ Goto(d, "policy_org")
       \/ Faults /\ Answer(d, "policy_unavailable")
    /\ DbUnchanged

\* getPolicy, second SELECT: the organization's row, or nothing configured.
ReadOrgPolicy(d) ==
    /\ At(d, "policy_org")
    /\ \/ policy["organization"] # NoPolicy /\ Judge(d, policy["organization"])
       \/ policy["organization"] = NoPolicy /\ Judge(d, Unconfigured)
       \/ Faults /\ Answer(d, "policy_unavailable")
    /\ DbUnchanged

\* transitionWithAudit reads the action again and checks the transition.  Its
\* test of requires_approval is for other callers: nothing changes that column,
\* and Lookup has turned an approval away that does not need one.
Reread(d) ==
    /\ At(d, "reread")
    /\ \/ /\ ~IsAllowedTransition(action.approval_status, dec[d].status)
          /\ Answer(d, "invalid_transition")
       \/ /\ IsAllowedTransition(action.approval_status, dec[d].status)
          /\ dec[d].status = "approved" => action.requires_approval = 1
          /\ dec' = [dec EXCEPT ![d].step = "batch",
                                ![d].old = action.approval_status]
       \/ Faults /\ Answer(d, "failed")
    /\ DbUnchanged

\* Mutant: a rejection leaves the approver's columns alone.
DecidedRow_KeepsApprover(d) ==
    [action EXCEPT
        !.approval_status = dec[d].status,
        !.approved_by_user_id = IF dec[d].status = "approved" THEN d ELSE @,
        !.guardrail_status = dec[d].guardrail]

\* What the UPDATE writes; its WHERE clause names the id and the tenant only.
DecidedRow(d) ==
    [action EXCEPT
        !.approval_status = dec[d].status,
        !.approved_by_user_id = IF dec[d].status = "approved" THEN d ELSE Null,
        !.guardrail_status = IF dec[d].status = "approved" THEN "PASSED"
                                                           ELSE dec[d].guardrail]

DecisionEntry(d) == [by |-> d, old |-> dec[d].old, new |-> dec[d].status]

\* UPDATE and audit INSERT in one batch; its answer may be lost.
Batch(d) ==
    /\ At(d, "batch")
    /\ action' = DecidedRow(d)
    /\ audit_logs' = Append(audit_logs, DecisionEntry(d))
    /\ Goto(d, "confirm") \/ (Faults /\ Answer(d, "failed"))
    /\ UNCHANGED <<policy, saved, adm>>

\* Mutant: the two statements are sent one after the other.
BatchFails_Half(d) ==
    /\ At(d, "batch")
    /\ Faults
    /\ action' = DecidedRow(d)
    /\ Answer(d, "failed")
    /\ UNCHANGED <<audit_logs, policy, saved, adm>>

BatchFails(d) ==
    /\ At(d, "batch")
    /\ Faults
    /\ Answer(d, "failed")
    /\ DbUnchanged

\* The row is read back; any row will do.
Confirm(d) ==
    /\ At(d, "confirm")
    /\ Answer(d, "ok") \/ (Faults /\ Answer(d, "failed"))
    /\ DbUnchanged

-----------------------------------------------------------------------------
(* PATCH of the action policy: read, merge the sent fields, write back.     *)

PolicyReceive(p, scope, patch) ==
    /\ adm[p].step = "idle"
    /\ adm' = [adm EXCEPT ![p].step = IF scope = "business" THEN "read_business"
                                                            ELSE "read_org",
                          ![p].scope = scope, ![p].patch = patch]
    /\ UNCHANGED <<action, audit_logs, policy, saved, dec>>

\* getPolicy for a business without a row of its own falls back to the
\* organization's: its limits are then copied into the business's row.
PolicyReadBusiness(p) ==
    /\ adm[p].step = "read_business"
    /\ adm' = IF policy["business"] # NoPolicy
              THEN [adm EXCEPT ![p].step = "save",
                               ![p].current = policy["business"]]
              ELSE [adm EXCEPT ![p].step = "read_org"]
    /\ UNCHANGED <<action, audit_logs, policy, saved, dec>>

PolicyReadOrg(p) ==
    /\ adm[p].step = "read_org"
    /\ adm' = [adm EXCEPT ![p].step = "save",
                          ![p].current = IF policy["organization"] # NoPolicy
                                         THEN policy["organization"]
                                         ELSE Unconfigured]
    /\ UNCHANGED <<action, audit_logs, policy, saved, dec>>

\* A field that was not sent keeps the value that was read.
Merged(p) ==
    [f \in Fields |-> IF f \in DOMAIN adm[p].patch THEN adm[p].patch[f]
                                                    ELSE adm[p].current[f]]

\* The upsert, whose batch also holds the policy's own audit row.
PolicySave(p) ==
    /\ adm[p].step = "save"
    /\ policy' = [policy EXCEPT ![adm[p].scope] = Merged(p)]
    /\ saved' = saved \cup {Merged(p)}
    /\ adm' = [adm EXCEPT ![p].step = "done"]
    /\ UNCHANGED <<action, audit_logs, dec>>

PolicyFails(p) ==
    /\ Faults
    /\ adm[p].step \in {"read_business", "read_org", "save"}
    /\ adm' = [adm EXCEPT ![p].step = "done"]
    /\ UNCHANGED <<action, audit_logs, policy, saved, dec>>

Decide(d) ==
    \/ \E s \in Decisions : Receive(d, s)
    \/ Lookup(d) \/ ReadBusinessPolicy(d) \/ ReadOrgPolicy(d)
    \/ Reread(d) \/ Batch(d) \/ BatchFails(d) \/ Confirm(d)

Administer(p) ==
    \/ \E s \in Scopes, patch \in Patches : PolicyReceive(p, s, patch)
    \/ PolicyReadBusiness(p) \/ PolicyReadOrg(p) \/ PolicySave(p)
    \/ PolicyFails(p)

\* Every request was answered.
Quiescent ==
    /\ \A d \in Deciders : dec[d].step = "done"
    /\ \A p \in Admins : adm[p].step = "done"
    /\ UNCHANGED vars

Next ==
    \/ \E d \in Deciders : Decide(d)
    \/ \E p \in Admins : Administer(p)
    \/ Quiescent

Spec == Init /\ [][Next]_vars

-----------------------------------------------------------------------------
(* Properties.                                                              *)

\* Whoever the row names as approver made the last decision on record, the
\* decision was an approval and its guardrail passed; an action that is not
\* approved names nobody, even when decisions raced over it.
ApprovalIsAttributed ==
    /\ action.approval_status = "approved" <=> action.approved_by_user_id # Null
    /\ action.approval_status = "approved" =>
         /\ action.guardrail_status = "PASSED"
         /\ action.requires_approval = 1
         /\ audit_logs # <<>>
         /\ audit_logs[Len(audit_logs)] =
              [audit_logs[Len(audit_logs)] EXCEPT
                  !.by = action.approved_by_user_id, !.new = "approved"]

\* The status is what the last audit row says it became, and a request answered
\* "ok" is on record once, a refused one not at all.
AuditTracksDecisions ==
    /\ action.approval_status = IF audit_logs = <<>> THEN "pending_approval"
                                ELSE audit_logs[Len(audit_logs)].new
    /\ \A d \in Deciders :
         LET mine == {i \in DOMAIN audit_logs : audit_logs[i].by = d} IN
         /\ dec[d].answer = "ok" => Cardinality(mine) = 1
         /\ dec[d].answer \in {"not_reviewable", "guardrail_violation",
                               "policy_unavailable", "invalid_transition"}
              => mine = {}

\* An approval rests on limits somebody configured: the payload passes a policy
\* row that was really stored, never a default and never a mix of two rows.
ApprovalRestsOnAPolicy ==
    (\E i \in DOMAIN audit_logs : audit_logs[i].new = "approved")
        => \E row \in saved : Passes(row)

\* "Terminal states cannot be re-transitioned." (growthActionRepository.ts):
\* an approved or rejected action keeps its status.  Two decisions that both
\* read the action before either writes it break this.
TerminalStaysTerminal ==
    [][action.approval_status \in TerminalStatuses =>
         action'.approval_status = action.approval_status]_vars

-----------------------------------------------------------------------------
(* The inductive invariant.                                                 *)

Undecided == {"idle", "lookup", "policy_business", "policy_org", "reread", "batch"}
Refusals == {"not_reviewable", "guardrail_violation", "policy_unavailable",
             "invalid_transition"}
Mine(d) == {i \in DOMAIN audit_logs : audit_logs[i].by = d}

\* The status is what the last audit row says.
StatusOnRecord ==
    action.approval_status = IF audit_logs = <<>> THEN "pending_approval"
                             ELSE audit_logs[Len(audit_logs)].new

\* A request's decision is on record from its batch on, once.
DecisionsOnRecord ==
    \A d \in Deciders :
        /\ dec[d].step \in Undecided \/ dec[d].answer \in Refusals => Mine(d) = {}
        /\ dec[d].step = "confirm" \/ dec[d].answer = "ok" =>
               \E i \in DOMAIN audit_logs : Mine(d) = {i}
        /\ dec[d].step # "done" => dec[d].answer = "none"

\* An approval on its way to the batch passed a stored policy, and just before
\* the batch the action was seen to be reviewable.
HeldApprovals ==
    \A d \in Deciders :
        dec[d].status = "approved" =>
            /\ dec[d].step \in {"reread", "batch"} => \E row \in saved : Passes(row)
            /\ dec[d].step = "batch" => action.requires_approval = 1

\* What can be read as a policy was stored.
StoredPolicies == \A s \in Scopes : policy[s] # NoPolicy => policy[s] \in saved

Inv ==
    /\ TypeOK /\ ApprovalIsAttributed /\ ApprovalRestsOnAPolicy
    /\ StatusOnRecord /\ DecisionsOnRecord /\ HeldApprovals /\ StoredPolicies
=============================================================================
