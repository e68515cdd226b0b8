----------------------- MODULE MCOptimizerEquivalence -----------------------
(* Finite instances of the serial/parallel comparison; 1 is the tolerance. *)
EXTENDS OptimizerEquivalence

Base == [setup_wns |-> 8, hold_wns |-> 8, setup_tns |-> 0, hold_tns |-> 0,
         area |-> 8, area_proxy |-> Unknown, power |-> 8,
         constraint_quality |-> Unknown, validation_errors |-> 0,
         unsafe_exceptions |-> 0, tool_error |-> FALSE, context |-> "tt"]

\* A failed evaluation and two results that do not dominate each other.
PairResults ==
    {[error |-> TRUE, qor |-> NoQoR, runs |-> 1],
     [error |-> FALSE, qor |-> Base, runs |-> TaskCost],
     [error |-> FALSE, qor |-> [Base EXCEPT !.setup_wns = 6, !.area = 4], runs |-> TaskCost]}

Pairs == <<<<1, -1>>, <<1, 1>>, <<2, -1>>, <<2, 1>>>>
Corner == <<0, 0>>

DefaultPriorities ==
    [timing |-> "high", quality |-> "low", area |-> "medium", power |-> "medium"]
=============================================================================
