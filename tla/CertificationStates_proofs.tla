----------------------- MODULE CertificationStates_proofs -----------------------
(***************************************************************************)
(* Proofs about CertificationStates for any authorizations and evidence.    *)
(***************************************************************************)
EXTENDS CertificationStates, TLAPS

USE DEF CertificationAssumption

LEMMA InitInv == Init => Inv
<1> SUFFICES ASSUME Init PROVE Inv
  OBVIOUS
<1>1. TypeOK /\ CertifiedHasEvidence /\ CombinedIsCertified
  BY DEF Init, TypeOK, CertifiedHasEvidence, CombinedIsCertified, Draft, AllCertified,
     RoutingEligible, Windows, Phases
<1>2. Granted = {}
  BY DEF Init, Granted
<1>3. GrantedOnce /\ CertifiedWasAuthorized /\ ConsumedIsGranted
  BY <1>2 DEF Init, GrantedOnce, CertifiedWasAuthorized, ConsumedIsGranted
<1>4. OverallAgreesWithTracks
  BY DEF Init, OverallAgreesWithTracks, Resolve, Windows, Draft, RoutingEligible
<1> QED
  BY <1>1, <1>3, <1>4 DEF Inv

-----------------------------------------------------------------------------
(* Where a transition of a window leads.                                    *)

\* The part of the invariant that is about the two tracks.
TrackInv == CertifiedHasEvidence /\ OverallAgreesWithTracks /\ CombinedIsCertified

\* The part that is about what was consumed.
AuthorityInv == ConsumedIsGranted /\ GrantedOnce /\ CertifiedWasAuthorized

LEMMA Parts == Inv <=> TypeOK /\ TrackInv /\ AuthorityInv
BY DEF Inv, TrackInv, AuthorityInv

\* No overall state is a window's.
LEMMA CursorLeavesOverall ==
    ASSUME NEW w \in Windows, NEW phase
    PROVE  <<w, phase>> \notin {Draft, AllCertified, RoutingEligible}
BY DEF Windows, Draft, AllCertified, RoutingEligible

LEMMA EnterKeepsType ==
    ASSUME TypeOK, NEW w \in Windows, NEW phase \in Phases, Enter(w, phase)
    PROVE  /\ cursor' \in {Draft, AllCertified, RoutingEligible} \cup (Windows \X Phases)
           /\ track' \in [Windows -> Phases]
BY DEF TypeOK, Enter

LEMMA EnterKeepsTracks ==
    ASSUME TypeOK, TrackInv, NEW w \in Windows, NEW phase \in Phases, Enter(w, phase),
           phase = "CERTIFIED" => evidence'[w] # NoEvidence,
           \A v \in Windows \ {w} : evidence'[v] = evidence[v],
           phase # "CERTIFIED" => evidence' = evidence
    PROVE  TrackInv'
<1>1. cursor' \notin {AllCertified, RoutingEligible}
  BY CursorLeavesOverall DEF Enter
<1>2. CombinedIsCertified'
  BY <1>1 DEF CombinedIsCertified
<1>3. OverallAgreesWithTracks'
  BY <1>1 DEF OverallAgreesWithTracks, Enter, Resolve
<1>4. CertifiedHasEvidence'
  BY DEF TrackInv, CertifiedHasEvidence, Enter, TypeOK
<1> QED
  BY <1>2, <1>3, <1>4 DEF TrackInv

\* Grants are never withdrawn: stored evidence stays authorized.
LEMMA AuthorizedStays ==
    ASSUME CertifiedWasAuthorized, evidence' = evidence, Granted \subseteq Granted'
    PROVE  CertifiedWasAuthorized'
<1> SUFFICES ASSUME NEW w \in Windows, evidence[w] # NoEvidence
             PROVE  /\ evidence[w] \in Clean
                    /\ \E a \in Auths :
                        /\ <<evidence[w], a>> \in BoundTo
                        /\ \E b \in Granted' : WindowOf[b] = w /\ KeyOf[b] = KeyOf[a]
                        /\ \E b \in Granted' : DigestOf[b] = DigestOf[a]
  BY DEF CertifiedWasAuthorized
<1>1. evidence[w] \in Clean
  BY DEF CertifiedWasAuthorized
<1>2. PICK a \in Auths :
          /\ <<evidence[w], a>> \in BoundTo
          /\ \E b \in Granted : WindowOf[b] = w /\ KeyOf[b] = KeyOf[a]
          /\ \E b \in Granted : DigestOf[b] = DigestOf[a]
  BY DEF CertifiedWasAuthorized
<1> QED
  BY <1>1, <1>2

\* Nothing consumed, nothing granted, no evidence stored.
LEMMA AuthorityUnchanged ==
    ASSUME AuthorityInv, UNCHANGED <<consumed, evidence, grants>>
    PROVE  AuthorityInv'
<1>1. Granted' = Granted
  BY DEF Granted
<1>2. CertifiedWasAuthorized'
  BY <1>1, AuthorizedStays DEF AuthorityInv
<1>3. ConsumedIsGranted' /\ GrantedOnce'
  BY <1>1 DEF AuthorityInv, ConsumedIsGranted, GrantedOnce, Tokens
<1> QED
  BY <1>2, <1>3 DEF AuthorityInv

-----------------------------------------------------------------------------
(* Consuming an authorization, and finding one in the consumed list.        *)

\* Keys and digests do not meet: a key in the list came from a granted
\* authorization with that key, a digest from one with that digest.
LEMMA KeyWasGranted ==
    ASSUME AuthorityInv, NEW a \in Auths, WasConsumed(a)
    PROVE  \E b \in Granted : KeyOf[a] = KeyOf[b]
<1>1. KeyOf[a] \in consumed
  BY DEF WasConsumed, Tokens
<1>2. PICK b \in Granted : KeyOf[a] \in Tokens(b)
  BY <1>1 DEF AuthorityInv, ConsumedIsGranted
<1>3. b \in Auths /\ KeyOf[a] \in Keys /\ DigestOf[b] \in Digests
  BY DEF Granted, Keys, Digests
<1> QED
  BY <1>2, <1>3, CertificationAssumption DEF Tokens

LEMMA DigestWasGranted ==
    ASSUME AuthorityInv, NEW a \in Auths, WasConsumed(a)
    PROVE  \E b \in Granted : DigestOf[a] = DigestOf[b]
<1>1. DigestOf[a] \in consumed
  BY DEF WasConsumed, Tokens
<1>2. PICK b \in Granted : DigestOf[a] \in Tokens(b)
  BY <1>1 DEF AuthorityInv, ConsumedIsGranted
<1>3. b \in Auths /\ DigestOf[a] \in Digests /\ KeyOf[b] \in Keys
  BY DEF Granted, Keys, Digests
<1> QED
  BY <1>2, <1>3, CertificationAssumption DEF Tokens

LEMMA AuthorizeKeepsAuthority ==
    ASSUME TypeOK, AuthorityInv, NEW w \in Windows, NEW a \in Auths, Authorize(w, a)
    PROVE  AuthorityInv'
<1>1. a \notin Granted
  <2> SUFFICES ASSUME a \in Granted PROVE FALSE
    OBVIOUS
  <2>1. KeyOf[a] \in consumed
    BY DEF AuthorityInv, ConsumedIsGranted, Tokens
  <2> QED
    BY <2>1 DEF Authorize, Unconsumed, Tokens
<1>2. grants' = [grants EXCEPT ![a] = 1] /\ grants' \in [Auths -> Nat]
  <2>1. grants[a] = 0
    BY <1>1 DEF TypeOK, Granted
  <2> QED
    BY <2>1 DEF Authorize, TypeOK
<1>3. Granted' = Granted \cup {a}
  BY <1>2 DEF Granted, TypeOK
<1>4. ConsumedIsGranted'
  BY <1>3 DEF AuthorityInv, ConsumedIsGranted, Authorize, Tokens
<1>5. GrantedOnce'
  <2>1. \A b \in Auths : grants'[b] <= 1
    BY <1>2 DEF AuthorityInv, GrantedOnce, TypeOK
  <2>2. \A b \in Granted : Tokens(b) \subseteq consumed
    BY DEF AuthorityInv, ConsumedIsGranted
  <2>3. \A b \in Granted : Tokens(a) \cap Tokens(b) = {}
    BY <2>2 DEF Authorize, Unconsumed
  <2>4. \A b, d \in Granted' : b # d => Tokens(b) \cap Tokens(d) = {}
    BY <1>3, <2>3 DEF AuthorityInv, GrantedOnce
  <2> QED
    BY <2>1, <2>4 DEF GrantedOnce, Tokens
<1>6. CertifiedWasAuthorized'
  BY <1>3, AuthorizedStays DEF AuthorityInv, Authorize
<1> QED
  BY <1>4, <1>5, <1>6 DEF AuthorityInv

LEMMA CertifyKeepsAuthority ==
    ASSUME TypeOK, AuthorityInv, NEW w \in Windows, NEW e \in Evidence, NEW a \in Auths,
           Certify(w, e, a)
    PROVE  AuthorityInv'
<1>1. PICK b \in Granted, c \in Granted : KeyOf[a] = KeyOf[b] /\ DigestOf[a] = DigestOf[c]
  BY KeyWasGranted, DigestWasGranted DEF Certify
<1>2. b \in Auths /\ <<e, a>> \in BoundTo /\ e \in Clean /\ WindowOf[b] = w
  BY <1>1, CertificationAssumption DEF Granted, Certify, Certifies
<1>3. Granted' = Granted
  BY DEF Granted, Certify
<1>4. CertifiedWasAuthorized'
  <2>1. \A v \in Windows : evidence'[v] = IF v = w THEN e ELSE evidence[v]
    BY DEF Certify, TypeOK
  <2>2. evidence'[w] = e /\ \A v \in Windows \ {w} : evidence'[v] = evidence[v]
    BY <2>1
  <2>3. \A v \in Windows \ {w} : evidence[v] # NoEvidence =>
          /\ evidence[v] \in Clean
          /\ \E x \in Auths :
              /\ <<evidence[v], x>> \in BoundTo
              /\ \E y \in Granted : WindowOf[y] = v /\ KeyOf[y] = KeyOf[x]
              /\ \E y \in Granted : DigestOf[y] = DigestOf[x]
    BY DEF AuthorityInv, CertifiedWasAuthorized
  <2>4. /\ e \in Clean
        /\ \E x \in Auths :
            /\ <<e, x>> \in BoundTo
            /\ \E y \in Granted : WindowOf[y] = w /\ KeyOf[y] = KeyOf[x]
            /\ \E y \in Granted : DigestOf[y] = DigestOf[x]
    BY <1>1, <1>2
  <2> QED
    BY <1>3, <2>2, <2>3, <2>4 DEF CertifiedWasAuthorized
<1>5. ConsumedIsGranted' /\ GrantedOnce'
  BY <1>3 DEF AuthorityInv, ConsumedIsGranted, GrantedOnce, Certify, Tokens
<1> QED
  BY <1>4, <1>5 DEF AuthorityInv

-----------------------------------------------------------------------------
(* The steps.                                                               *)

LEMMA PhasesOfSteps ==
    {"READY", "AUTHORIZATION_PENDING", "AUTHORIZED", "CERTIFIED", "FAILED_CLOSED",
     "NOT_READY"} = Phases
BY DEF Phases

LEMMA WindowStep ==
    ASSUME Inv, NEW w \in Windows,
           RunnerReady(w) \/ AwaitAuthorization(w) \/ FailClosed(w)
    PROVE  Inv'
<1>1. PICK phase \in Phases : Enter(w, phase) /\ phase # "CERTIFIED"
  BY PhasesOfSteps DEF RunnerReady, AwaitAuthorization, FailClosed
<1>2. UNCHANGED <<consumed, evidence, allWindows, grants>>
  BY DEF RunnerReady, AwaitAuthorization, FailClosed
<1>3. TypeOK'
  BY <1>1, <1>2, Parts, EnterKeepsType DEF TypeOK, Enter
<1>4. TrackInv'
  BY <1>1, <1>2, Parts, EnterKeepsTracks
<1>5. AuthorityInv'
  BY <1>2, Parts, AuthorityUnchanged
<1> QED
  BY <1>3, <1>4, <1>5, Parts DEF Inv, TrackInv, AuthorityInv

LEMMA PositionStep ==
    ASSUME Inv, NEW w \in Windows, Position(w)
    PROVE  Inv'
<1>1. cursor' \in Windows \X Phases
  BY Parts DEF Position, TypeOK, Phases
<1>2. cursor' \notin {AllCertified, RoutingEligible} /\ cursor # RoutingEligible
  BY CursorLeavesOverall DEF Position
<1>3. TypeOK'
  BY <1>1, Parts DEF TypeOK, Position
<1>4. TrackInv'
  BY <1>2, Parts DEF TrackInv, CertifiedHasEvidence, OverallAgreesWithTracks,
     CombinedIsCertified, Position, Resolve
<1>5. AuthorityInv'
  BY Parts, AuthorityUnchanged DEF Position
<1> QED
  BY <1>3, <1>4, <1>5 DEF Inv, TrackInv, AuthorityInv

LEMMA AuthorizeStep ==
    ASSUME Inv, NEW w \in Windows, NEW a \in Auths, Authorize(w, a)
    PROVE  Inv'
<1>1. Enter(w, "AUTHORIZED") /\ UNCHANGED <<evidence, allWindows>> /\ "AUTHORIZED" \in Phases
  BY DEF Authorize, Phases
<1>2. Tokens(a) \subseteq Keys \cup Digests
  BY DEF Tokens, Keys, Digests
<1>3. TypeOK'
  BY <1>1, <1>2, Parts, EnterKeepsType DEF TypeOK, Authorize
<1>4. TrackInv'
  BY <1>1, Parts, EnterKeepsTracks
<1>5. AuthorityInv'
  BY Parts, AuthorizeKeepsAuthority
<1> QED
  BY <1>3, <1>4, <1>5 DEF Inv, TrackInv, AuthorityInv

LEMMA CertifyStep ==
    ASSUME Inv, NEW w \in Windows, NEW e \in Evidence, NEW a \in Auths, Certify(w, e, a)
    PROVE  Inv'
<1>1. Enter(w, "CERTIFIED") /\ "CERTIFIED" \in Phases
  BY DEF Certify, Phases
<1>2. evidence' = [evidence EXCEPT ![w] = e] /\ UNCHANGED <<consumed, allWindows, grants>>
  BY DEF Certify
<1>3. TypeOK'
  BY <1>1, <1>2, Parts, EnterKeepsType DEF TypeOK
<1>4. evidence'[w] # NoEvidence /\ \A v \in Windows \ {w} : evidence'[v] = evidence[v]
  BY <1>2, Parts, CertificationAssumption DEF TypeOK
<1>5. TrackInv'
  BY <1>1, <1>4, Parts, EnterKeepsTracks
<1>6. AuthorityInv'
  BY Parts, CertifyKeepsAuthority
<1> QED
  BY <1>3, <1>5, <1>6 DEF Inv, TrackInv, AuthorityInv

LEMMA AllWindowsStep ==
    ASSUME Inv, NEW ev \in [Windows -> Evidence], NEW au \in [Windows -> Auths],
           CertifyAllWindows(ev, au)
    PROVE  Inv'
<1>1. TypeOK'
  BY Parts DEF TypeOK, CertifyAllWindows
<1>2. Resolve(track') = "ALL_WINDOWS_CERTIFIED" /\ AllCertified # RoutingEligible
  BY DEF CertifyAllWindows, Resolve, Windows, AllCertified, RoutingEligible
<1>3. OverallAgreesWithTracks'
  BY <1>2 DEF OverallAgreesWithTracks, CertifyAllWindows, Resolve
<1>4. CertifiedHasEvidence' /\ CombinedIsCertified'
  BY DEF CertifiedHasEvidence, CombinedIsCertified, CertifyAllWindows, Matches
<1>5. AuthorityInv'
  BY Parts, AuthorityUnchanged DEF CertifyAllWindows
<1> QED
  BY <1>1, <1>3, <1>4, <1>5 DEF Inv, AuthorityInv

LEMMA RoutingStep ==
    ASSUME Inv, NEW ev \in [Windows -> Evidence], NEW au \in [Windows -> Auths],
           ActivateRouting(ev, au)
    PROVE  Inv'
<1>1. TypeOK'
  BY Parts DEF TypeOK, ActivateRouting
<1>2. TrackInv'
  BY Parts DEF TrackInv, CertifiedHasEvidence, OverallAgreesWithTracks,
     CombinedIsCertified, ActivateRouting
<1>3. AuthorityInv'
  BY Parts, AuthorityUnchanged DEF ActivateRouting
<1> QED
  BY <1>1, <1>2, <1>3 DEF Inv, TrackInv, AuthorityInv

\* The whole inductive invariant, with the types: the consumed list is the
\* granted authorizations' keys and digests, a certified track has evidence.
THEOREM StatesInvariance == Spec => []Inv
<1>1. Inv /\ [Next]_vars => Inv'
  <2> SUFFICES ASSUME Inv, [Next]_vars PROVE Inv'
    OBVIOUS
  <2>1. CASE UNCHANGED vars
    <3>1. TypeOK' /\ TrackInv'
      BY <2>1, Parts DEF vars, TypeOK, TrackInv, CertifiedHasEvidence,
         OverallAgreesWithTracks, CombinedIsCertified, Resolve
    <3>2. AuthorityInv'
      BY <2>1, Parts, AuthorityUnchanged DEF vars
    <3> QED
      BY <3>1, <3>2 DEF Inv, TrackInv, AuthorityInv
  <2>2. ASSUME NEW w \in Windows,
               RunnerReady(w) \/ AwaitAuthorization(w) \/ FailClosed(w) \/ Position(w)
        PROVE  Inv'
    BY <2>2, WindowStep, PositionStep
  <2>3. ASSUME NEW w \in Windows, NEW a \in Auths, Authorize(w, a)
        PROVE  Inv'
    BY <2>3, AuthorizeStep
  <2>4. ASSUME NEW w \in Windows, NEW e \in Evidence, NEW a \in Auths, Certify(w, e, a)
        PROVE  Inv'
    BY <2>4, CertifyStep
  <2>5. ASSUME NEW ev \in [Windows -> Evidence], NEW au \in [Windows -> Auths],
               CertifyAllWindows(ev, au) \/ ActivateRouting(ev, au)
        PROVE  Inv'
    BY <2>5, AllWindowsStep, RoutingStep
  <2> QED
    BY <2>1, <2>2, <2>3, <2>4, <2>5 DEF Next
<1> QED
  BY InitInv, <1>1, PTL DEF Spec

\* Replay protection of isAuthorizationConsumed along one lineage of
\* snapshots: no authorization, run nonce or token is granted twice.
THEOREM SingleGrant == Spec => []GrantedOnce
<1>1. Inv => GrantedOnce
  BY DEF Inv
<1> QED
  BY <1>1, StatesInvariance, PTL

\* A window certifies on clean evidence, bound to an authorization whose key
\* (program, window, commit, nonce) was granted for that window and whose token
\* digest was granted.  applyCertificationTransition asks for no more: whether
\* the budget and the tree of that authorization were granted, and whether key
\* and digest were granted together, the theorem leaves open, as the code does.
THEOREM AuthorizedEvidence == Spec => []CertifiedWasAuthorized
<1>1. Inv => CertifiedWasAuthorized
  BY DEF Inv
<1> QED
  BY <1>1, StatesInvariance, PTL

\* overallState is what resolveOverallCertificationState makes of the
\* tracks, through every failure of a certified window.
THEOREM OverallFollowsTracks == Spec => []OverallAgreesWithTracks
<1>1. Inv => OverallAgreesWithTracks
  BY DEF Inv
<1> QED
  BY <1>1, StatesInvariance, PTL

\* The combined evidence of ALL_WINDOWS_CERTIFIED equals the tracks' own in the
\* fields that matchCertifiedEvidence compares.
THEOREM CombinedEvidence == Spec => []CombinedIsCertified
<1>1. Inv => CombinedIsCertified
  BY DEF Inv
<1> QED
  BY <1>1, StatesInvariance, PTL
=================================================================================
