---------------------------- MODULE MCOptimizer ----------------------------
(* Finite instances of the optimizer: two tunable constraints on a small   *)
(* grid and a handful of evaluation results, 1 being the tolerance.        *)
EXTENDS Optimizer

Measured1 == [setup_wns |-> 8, hold_wns |-> 8, setup_tns |-> 0, hold_tns |-> 0,
              area |-> 8, area_proxy |-> Unknown, power |-> 8,
              constraint_quality |-> Unknown, validation_errors |-> 0,
              unsafe_exceptions |-> 0, tool_error |-> FALSE, context |-> "tt"]

Crash      == [error |-> TRUE, qor |-> NoQoR, runs |-> 1]
Violated   == [error |-> FALSE, qor |-> [Measured1 EXCEPT !.setup_wns = -2], runs |-> TaskCost]
Good(s, a) == [error |-> FALSE, qor |-> [Measured1 EXCEPT !.setup_wns = s, !.area = a],
               runs |-> TaskCost]

\* A failed evaluation, a timing violation, and two results neither of which
\* dominates the other.
MixedResults == {Crash, Violated, Good(8, 8), Good(6, 4)}
\* Every kind of failure and a success.
FailingResults == {Crash, Violated, Good(8, 8)}

Pairs == <<<<1, -1>>, <<1, 1>>, <<2, -1>>, <<2, 1>>>>
Middle == <<1, 1>>
Corner == <<0, 0>>

DefaultPriorities ==
    [timing |-> "high", quality |-> "low", area |-> "medium", power |-> "medium"]
=============================================================================
