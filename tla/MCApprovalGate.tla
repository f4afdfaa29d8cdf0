--------------------------- MODULE MCApprovalGate ---------------------------
(* ApprovalGate for TLC. *)
EXTENDS ApprovalGate, TLC

CONSTANTS r1, r2

TwoIds   == {r1, r2}
Owner    == {"owner"}
Anyone   == {"owner", "stranger"}
Sym      == Permutations(TwoIds)
=============================================================================
