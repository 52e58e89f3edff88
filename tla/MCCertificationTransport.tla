----------------------- MODULE MCCertificationTransport -----------------------
(* CertificationTransport for TLC: a peak package that may expire while its   *)
(* request waits, an off-peak one whose window closes and comes back.         *)
EXTENDS CertificationTransport, TLC

CONSTANTS off, peak

Prices == {0, 2, 3}
Expiry == (off :> 3) @@ (peak :> 2)
SignedWindow == (off :> "OFF_PEAK") @@ (peak :> "PEAK")
SignedBudget == (off :> 5) @@ (peak :> 4)
Hours == 0 :> "OFF_PEAK" @@ 1 :> "PEAK" @@ 2 :> "OFF_PEAK" @@ 3 :> "OFF_PEAK"

RequestSymmetry == Permutations(Requests)
===============================================================================
