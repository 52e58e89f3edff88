-------------------------- MODULE CertificationStates --------------------------
(***************************************************************************)
(* The successor certification state machine of worker/ai/canary: a         *)
(* snapshot that applyCertificationTransition maps to the next one, or      *)
(* returns as it was with the reasons of a refusal.  Two pricing windows    *)
(* are certified on tracks of their own, under single-use authorizations;   *)
(* a cursor, currentState, names the track the next transition is about.    *)
(***************************************************************************)
EXTENDS Naturals

CONSTANTS
    Auths,          \* human authorizations that validate, for either window
    WindowOf,       \* authorization -> pricingWindow
    KeyOf,          \* authorization -> program:window:commit:nonce
    DigestOf,       \* authorization -> authorizationTokenDigest
    Evidence,       \* certification evidence somebody may submit
    EvidenceWindow, \* evidence -> pricingWindow
    Clean,          \* evidence of seven clean calls
    BoundTo,        \* <<e, a>>: e agrees with a in window, candidate, commit,
                    \* tree, nonce and budget
    Fingerprint,    \* what matchCertifiedEvidence compares
    NoEvidence

Windows == {"OFF_PEAK", "PEAK"}
Keys == {KeyOf[a] : a \in Auths}
Digests == {DigestOf[a] : a \in Auths}

\* A key names its window, and evidence has the window of what it is bound to.
ASSUME CertificationAssumption ==
    /\ WindowOf \in [Auths -> Windows] /\ EvidenceWindow \in [Evidence -> Windows]
    /\ Keys \cap Digests = {}
    /\ \A a, b \in Auths : KeyOf[a] = KeyOf[b] => WindowOf[a] = WindowOf[b]
    /\ Clean \subseteq Evidence /\ BoundTo \subseteq Evidence \X Auths
    /\ \A e \in Evidence, a \in Auths : <<e, a>> \in BoundTo => EvidenceWindow[e] = WindowOf[a]
    /\ NoEvidence \notin Evidence

VARIABLES
    cursor,     \* currentState: <<window, phase>>, or an overall one
    track,      \* offPeakTrackState and peakTrackState
    overall,    \* overallState
    consumed,   \* consumedAuthorizations
    evidence,   \* offPeakEvidence and peakEvidence
    allWindows, \* the evidence in allWindowsEvidence
    grants      \* history: how often an authorization made a track AUTHORIZED

vars == <<cursor, track, overall, consumed, evidence, allWindows, grants>>

Draft == <<"ALL", "DRAFT_SEALED">>
AllCertified == <<"ALL", "ALL_WINDOWS_CERTIFIED">>
RoutingEligible == <<"ALL", "ROUTING_ACTIVATION_ELIGIBLE">>
Phases == {"NOT_READY", "READY", "AUTHORIZATION_PENDING", "AUTHORIZED", "CERTIFIED",
    "FAILED_CLOSED"}
OnlyCertified == [OFF_PEAK |-> "OFF_PEAK_ONLY_CERTIFIED", PEAK |-> "PEAK_ONLY_CERTIFIED"]

TypeOK ==
    /\ cursor \in {Draft, AllCertified, RoutingEligible} \cup (Windows \X Phases)
    /\ track \in [Windows -> Phases]
    /\ consumed \subseteq Keys \cup Digests
    /\ evidence \in [Windows -> Evidence \cup {NoEvidence}]
    /\ allWindows \in [Windows -> Evidence \cup {NoEvidence}]
    /\ grants \in [Auths -> Nat]

\* createInitialCertificationState
Init ==
    /\ cursor = Draft
    /\ track = [w \in Windows |-> "NOT_READY"]
    /\ overall = "DRAFT_SEALED"
    /\ consumed = {}
    /\ evidence = [w \in Windows |-> NoEvidence]
    /\ allWindows = [w \in Windows |-> NoEvidence]
    /\ grants = [a \in Auths |-> 0]

\* ALLOWED_TRANSITIONS within a track.
Steps ==
    [NOT_READY |-> {"READY", "FAILED_CLOSED"},
     READY |-> {"AUTHORIZATION_PENDING", "AUTHORIZED", "FAILED_CLOSED"},
     AUTHORIZATION_PENDING |-> {"AUTHORIZED", "FAILED_CLOSED"},
     AUTHORIZED |-> {"CERTIFIED", "FAILED_CLOSED"},
     CERTIFIED |-> {"FAILED_CLOSED"},
     FAILED_CLOSED |-> {"NOT_READY"}]

\* canTransition
CanTransition(from, to) ==
    \/ from[1] \in Windows /\ from[1] = to[1] /\ to[2] \in Steps[from[2]]
    \/ from = Draft /\ to[2] = "NOT_READY"
    \/ from[2] = "CERTIFIED" /\ to = AllCertified
    \/ from = AllCertified /\ (to = RoutingEligible \/ to[2] = "FAILED_CLOSED")

\* resolveOverallCertificationState
Resolve(t) ==
    IF \A w \in Windows : t[w] = "FAILED_CLOSED" THEN "FAILED_CLOSED"
    ELSE IF \A w \in Windows : t[w] = "CERTIFIED" THEN "ALL_WINDOWS_CERTIFIED"
    ELSE IF t["OFF_PEAK"] = "CERTIFIED" THEN OnlyCertified["OFF_PEAK"]
    ELSE IF t["PEAK"] = "CERTIFIED" THEN OnlyCertified["PEAK"]
    ELSE IF \A w \in Windows : t[w] = "NOT_READY" THEN "DRAFT_SEALED"
    ELSE "CERTIFICATION_IN_PROGRESS"

-----------------------------------------------------------------------------
(* applyCertificationTransition.  No branch handles a target of phase       *)
(* NOT_READY: the allowlist has those edges, every one of them is refused.  *)

\* Mutant: the overall state is left as it was.
Enter_StaleOverall(w, phase) ==
    /\ CanTransition(cursor, <<w, phase>>)
    /\ cursor' = <<w, phase>>
    /\ track' = [track EXCEPT ![w] = phase]
    /\ overall' = IF phase = "FAILED_CLOSED" THEN overall ELSE Resolve(track')

\* A window's transition that succeeds.
Enter(w, phase) ==
    /\ CanTransition(cursor, <<w, phase>>)
    /\ cursor' = <<w, phase>>
    /\ track' = [track EXCEPT ![w] = phase]
    /\ overall' = Resolve(track')

\* Readiness evidence of the window validates.
RunnerReady(w) ==
    /\ Enter(w, "READY")
    /\ UNCHANGED <<consumed, evidence, allWindows, grants>>

AwaitAuthorization(w) ==
    /\ Enter(w, "AUTHORIZATION_PENDING")
    /\ UNCHANGED <<consumed, evidence, allWindows, grants>>

Tokens(a) == {KeyOf[a], DigestOf[a]}

\* Mutant: a used authorization is only recognised by its key.
Unconsumed_ByKey(a) == KeyOf[a] \notin consumed

\* Neither the key nor the digest was consumed before.
Unconsumed(a) == Tokens(a) \cap consumed = {}

\* An authorization of the window is validated and consumed.
Authorize(w, a) ==
    /\ WindowOf[a] = w /\ Unconsumed(a)
    /\ Enter(w, "AUTHORIZED")
    /\ consumed' = consumed \cup Tokens(a)
    /\ grants' = [grants EXCEPT ![a] = @ + 1]
    /\ UNCHANGED <<evidence, allWindows>>

\* Mutant: the key or the digest is enough.
WasConsumed_Either(a) == Tokens(a) \cap consumed # {}

\* The bound authorization's key and digest are both in the list.
WasConsumed(a) == Tokens(a) \subseteq consumed

\* validateCertificationEvidence under the bound authorization, whose budget and
\* tree it takes as they are.
Certifies(e, a) == e \in Clean /\ <<e, a>> \in BoundTo

Certify(w, e, a) ==
    /\ cursor = <<w, "AUTHORIZED">> /\ track[w] = "AUTHORIZED"
    /\ EvidenceWindow[e] = w /\ WasConsumed(a) /\ Certifies(e, a)
    /\ Enter(w, "CERTIFIED")
    /\ evidence' = [evidence EXCEPT ![w] = e]
    /\ UNCHANGED <<consumed, allWindows, grants>>

\* The evidence of a window that fails is kept.
FailClosed(w) ==
    /\ Enter(w, "FAILED_CLOSED")
    /\ UNCHANGED <<consumed, evidence, allWindows, grants>>

\* validateAllWindowsCertificationEvidence
ValidForAll(ev, au) ==
    \A w \in Windows :
        WindowOf[au[w]] = w /\ EvidenceWindow[ev[w]] = w /\ Certifies(ev[w], au[w])

\* Mutant: only the window of the submitted evidence is compared.
Matches_Window(e, f) == EvidenceWindow[e] = EvidenceWindow[f]

\* matchCertifiedEvidence
Matches(e, f) == Fingerprint[e] = Fingerprint[f]

CertifyAllWindows(ev, au) ==
    /\ CanTransition(cursor, AllCertified)
    /\ \A w \in Windows :
        /\ track[w] = "CERTIFIED" /\ evidence[w] # NoEvidence
        /\ WasConsumed(au[w]) /\ Matches(ev[w], evidence[w])
    /\ ValidForAll(ev, au)
    /\ cursor' = AllCertified /\ overall' = "ALL_WINDOWS_CERTIFIED"
    /\ allWindows' = ev
    /\ UNCHANGED <<track, consumed, evidence, grants>>

\* The routing evidence is valid and audited.  It is compared neither with
\* what was certified nor with what was consumed.
ActivateRouting(ev, au) ==
    /\ cursor = AllCertified /\ CanTransition(cursor, RoutingEligible)
    /\ ValidForAll(ev, au)
    /\ cursor' = RoutingEligible /\ overall' = "ROUTING_ACTIVATION_ELIGIBLE"
    /\ UNCHANGED <<track, consumed, evidence, allWindows, grants>>

\* The caller writes the cursor into a copy of the snapshot, as the tests do:
\* it goes on with a window where its track stands, over again if it failed.
Position(w) ==
    /\ cursor \notin {AllCertified, RoutingEligible}
    /\ cursor' = <<w, IF track[w] = "FAILED_CLOSED" THEN "NOT_READY" ELSE track[w]>>
    /\ UNCHANGED <<track, overall, consumed, evidence, allWindows, grants>>

Next ==
    \/ \E w \in Windows :
        \/ RunnerReady(w) \/ AwaitAuthorization(w) \/ FailClosed(w) \/ Position(w)
        \/ \E a \in Auths : Authorize(w, a)
        \/ \E e \in Evidence, a \in Auths : Certify(w, e, a)
    \/ \E ev \in [Windows -> Evidence], au \in [Windows -> Auths] :
        CertifyAllWindows(ev, au) \/ ActivateRouting(ev, au)

Spec == Init /\ [][Next]_vars

-----------------------------------------------------------------------------
(* Properties.                                                              *)

Granted == {a \in Auths : grants[a] > 0}

\* Through any number of failures and new cycles, in either window, no
\* authorization is granted twice, nor another one that carries its run
\* nonce or its token.
GrantedOnce ==
    /\ \A a \in Auths : grants[a] <= 1
    /\ \A a, b \in Granted : a # b => Tokens(a) \cap Tokens(b) = {}

\* What a window was certified with is the clean evidence of a run whose
\* program, commit and nonce were granted for that window, and whose
\* authorization shows a granted token.  That authorization need not be the
\* granted one: the code looks the key and the digest up, each on its own, and
\* compares neither the budget nor the source tree with what was granted.  So
\* the evidence of a run under a larger budget passes for the granted run.
CertifiedWasAuthorized ==
    \A w \in Windows :
        evidence[w] # NoEvidence =>
            /\ evidence[w] \in Clean
            /\ \E a \in Auths :
                /\ <<evidence[w], a>> \in BoundTo
                /\ \E b \in Granted : WindowOf[b] = w /\ KeyOf[b] = KeyOf[a]
                /\ \E b \in Granted : DigestOf[b] = DigestOf[a]

\* The overall state never claims more than the tracks: in particular it
\* does not stay certified when a window fails after all windows were.
OverallAgreesWithTracks ==
    overall = IF cursor = RoutingEligible THEN "ROUTING_ACTIVATION_ELIGIBLE"
              ELSE Resolve(track)

\* While all windows count as certified, no track has failed since and the
\* combined evidence equals the tracks' own in what matchCertifiedEvidence
\* compares: window, candidate, commit, tree, nonce, budget, counts, cost and
\* tasks.  It need not be the same evidence: scores and latencies may differ.
CombinedIsCertified ==
    cursor \in {AllCertified, RoutingEligible} =>
        \A w \in Windows :
            /\ track[w] = "CERTIFIED" /\ evidence[w] # NoEvidence
            /\ Fingerprint[allWindows[w]] = Fingerprint[evidence[w]]

-----------------------------------------------------------------------------
(* The inductive invariant.                                                 *)

\* The consumed list is made of the granted authorizations' tokens.
ConsumedIsGranted == consumed = UNION {Tokens(a) : a \in Granted}

\* A certified track has evidence.
CertifiedHasEvidence ==
    \A w \in Windows : track[w] = "CERTIFIED" => evidence[w] # NoEvidence

Inv ==
    /\ TypeOK /\ ConsumedIsGranted /\ CertifiedHasEvidence
    /\ GrantedOnce /\ CertifiedWasAuthorized /\ OverallAgreesWithTracks
    /\ CombinedIsCertified
===============================================================================
