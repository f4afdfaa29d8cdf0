-------------------------- MODULE MCTradePipeline --------------------------
(* TradePipeline for TLC: the deployed Kelly stake, ceiling and floor. *)
EXTENDS TradePipeline

CONSTANTS m1, m2

TwoScans   == {"hourly", "manual"}
TwoJobs    == [hourly |-> "scanner_monday", manual |-> "post"]
OneScan    == {"hourly"}
OneJob     == [hourly |-> "scanner_monday"]

\* The amounts up to the hard ceiling on which a double's floor loses a cent and
\* that a stake of these listings can come to.
SlipCents  == {29, 57, 58, 113, 114, 115, 116, 201, 203, 205, 207, 226, 228, 230, 232}

On(quote, prob, minimum, tradeable) ==
    [quote |-> quote, prob |-> prob, minimum |-> minimum, tradeable |-> tradeable]

\* A stake that comes to an amount the floor slips on, with and without a
\* conditionId.
SomeListings == {On(20, 59, 5, TRUE), On(20, 59, 5, FALSE)}

Asks(best, depth, next) ==
    [accepting |-> TRUE, minimum |-> 5, best |-> best, depth |-> depth, next |-> next]

\* Dearer than the quote and dearer still beyond the stake, and deep at half of it.
SomeLadders == {Asks(22, 114, 24), Asks(10, 900, 0)}

\* Trading stopped by a ceiling of nothing, and a ceiling that binds, on an
\* amount the floor slips on.
SomeCeilings == {0, 121}
=============================================================================
