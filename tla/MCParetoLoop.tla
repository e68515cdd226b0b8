---------------------------- MODULE MCParetoLoop ----------------------------
(* QoR sets for the runs of ParetoLoop: every field a run does not vary has *)
(* one value, chosen so that the candidate can be feasible.  Values that    *)
(* differ by 1 are within the tolerance, the others are told apart.         *)
EXTENDS ParetoLoop

Default == [setup_wns |-> 8, hold_wns |-> 8, setup_tns |-> 0, hold_tns |-> 0,
            area |-> 8, area_proxy |-> Unknown, power |-> 8,
            constraint_quality |-> Unknown, validation_errors |-> 0,
            unsafe_exceptions |-> 0, tool_error |-> FALSE, context |-> "tt"]

\* Results with everything measured, the slacks in a chain whose neighbours are
\* as good as equal; a hold violation and an unsafe exception give the infeasible
\* and the ineligible ones.
MeasuredQoRs ==
    {[Default EXCEPT !.setup_wns = s, !.area = a, !.power = p]
        : s \in {6, 8}, a \in {4, 8}, p \in {4, 8}}
    \cup {[Default EXCEPT !.setup_wns = 7, !.area = 7]}
    \cup {[Default EXCEPT !.hold_wns = 9, !.area = 12],
          [Default EXCEPT !.hold_wns = -1, !.area = 2],
          [Default EXCEPT !.unsafe_exceptions = 1, !.area = 2],
          [Default EXCEPT !.context = "ff"]}

\* Results in which the tool may leave a metric out or give only a proxy.
PartialQoRs ==
    {[Default EXCEPT !.area = x[1], !.area_proxy = x[2], !.power = p]
        : x \in {<<4, Unknown>>, <<Unknown, 6>>}, p \in {8, Unknown}}
    \cup {[Default EXCEPT !.area = x[1], !.area_proxy = x[2]]
        : x \in {<<8, 8>>, <<Unknown, Unknown>>}}
    \cup {[Default EXCEPT !.setup_tns = Unknown, !.area = 6],
          [Default EXCEPT !.setup_wns = Unknown]}

AllQoRs == MeasuredQoRs \cup PartialQoRs

DefaultPriorities ==
    [timing |-> "high", quality |-> "low", area |-> "medium", power |-> "medium"]
=============================================================================
