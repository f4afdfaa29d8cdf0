------------------------------ MODULE MCDispatch ------------------------------
(* Dispatch for TLC. *)
EXTENDS Dispatch, TLC

CONSTANTS t1, t2

TwoTasks == {t1, t2}
=============================================================================
