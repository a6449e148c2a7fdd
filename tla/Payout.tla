------------------------------- MODULE Payout -------------------------------
(***************************************************************************)
(* What a withdrawal promises about the money of a request, whoever works  *)
(* on it: it is set aside once, and then goes either back to the user or   *)
(* out of the exchange, never both and never back from there.              *)
(***************************************************************************)
CONSTANT Requests

VARIABLE payout    \* where the money of each request is

PayoutInit == payout = [r \in Requests |-> "none"]

Hold(r) ==
    /\ payout[r] = "none"
    /\ payout' = [payout EXCEPT ![r] = "held"]

Settle(r) ==
    /\ payout[r] = "held"
    /\ payout'[r] \in {"released", "spent"}
    /\ payout' = [payout EXCEPT ![r] = payout'[r]]

PayoutNext == \E r \in Requests : Hold(r) \/ Settle(r)

PayoutSpec == PayoutInit /\ [][PayoutNext]_payout
=============================================================================
