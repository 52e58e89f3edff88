------------------------ MODULE MCCertificationStates ------------------------
(* CertificationStates for TLC: two authorizations per window, one of each   *)
(* window with the same token; off1wide, which is off1 but for a larger      *)
(* budget, and offmix, with the key of off1 and the token of off2; evidence  *)
(* in pairs that only the fingerprint, or only its cleanness, tells apart,   *)
(* or only the authorization it is bound to.                                 *)
EXTENDS CertificationStates, TLC

CONSTANTS off1, off2, off1wide, offmix, peak1, peak2,
    e1, e1again, e1dirty, e1wide, e2, mixed, p1, p2

AuthWindow == [a \in Auths |-> IF a \in {peak1, peak2} THEN "PEAK" ELSE "OFF_PEAK"]
Nonces == (off1 :> "k1") @@ (off2 :> "k2") @@ (off1wide :> "k1") @@ (offmix :> "k1")
    @@ (peak1 :> "k3") @@ (peak2 :> "k4")
Digest == (off1 :> "d1") @@ (off2 :> "d2") @@ (off1wide :> "d1") @@ (offmix :> "d2")
    @@ (peak1 :> "d3") @@ (peak2 :> "d1")
RunWindow == [e \in Evidence |-> IF e \in {p1, p2} THEN "PEAK" ELSE "OFF_PEAK"]
CleanRuns == Evidence \ {e1dirty}
Bindings == {<<e1, off1>>, <<e1again, off1>>, <<e1dirty, off1>>, <<e2, off2>>,
    <<e1wide, off1wide>>, <<mixed, offmix>>, <<p1, peak1>>, <<p2, peak2>>}
RunPrint == (e1 :> 1) @@ (e1again :> 1) @@ (e1dirty :> 1) @@ (e2 :> 2) @@ (e1wide :> 3)
    @@ (mixed :> 4) @@ (p1 :> 5) @@ (p2 :> 6)
=============================================================================
