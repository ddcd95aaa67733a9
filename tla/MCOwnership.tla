----------------------------- MODULE MCOwnership -----------------------------
(* Ownership for TLC, over the body of ChainVerify. *)
EXTENDS Ownership, CoreX509

ChainVerifyAlone == [ChainVerify |-> ChainVerify]

=============================================================================
