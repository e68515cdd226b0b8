------------------------------- MODULE MCMcmm -------------------------------
(***************************************************************************)
(* Two scenarios and three candidates.  One kind of play looks at values:  *)
(* what the scenarios measured when no tool fails; the other at order, with *)
(* failing tools and a scenario without a definition.                      *)
(***************************************************************************)
EXTENDS McmmEvaluation

Priority == [timing |-> "high", quality |-> "low", area |-> "medium", power |-> "medium"]

Measured1(setup, hold, area, proxy, power) ==
    [setup_wns |-> setup, hold_wns |-> hold, setup_tns |-> 0, hold_tns |-> 0,
     area |-> area, area_proxy |-> proxy, power |-> power, constraint_quality |-> 1,
     validation_errors |-> 0, unsafe_exceptions |-> 0, tool_error |-> FALSE,
     context |-> "s"]

\* Eps is 1: values two apart are told apart, and Near is not told from most others.
Fast     == Measured1(4, 2, 4, Unknown, 2)
Small    == Measured1(2, 2, 2, Unknown, 2)
Balanced == Measured1(2, 4, 4, Unknown, 2)
Slow     == Measured1(2, 2, 4, Unknown, 4)
Near     == Measured1(3, 3, 3, Unknown, 3)
Lean     == Measured1(3, 2, 2, Unknown, 2)
Far      == Measured1(5, 2, 4, Unknown, 4)
Proxied  == Measured1(4, 4, Unknown, 2, Unknown)
Violated == [Measured1(-2, 2, 2, Unknown, 2) EXCEPT !.setup_tns = -2]
Invalid  == [Fast EXCEPT !.validation_errors = 1]

Scenarios == {"slow", "fast"}
Whole == Matrix([slow |-> TRUE, fast |-> TRUE], [slow |-> TRUE], {})
Dangling == Matrix([slow |-> TRUE], [fast |-> FALSE], {"slow", "fast", "typ"})

Values == {Fast, Slow, Small, Balanced, Near, Proxied, Violated, Invalid}
Each(qors) == [Scenarios -> qors]

\* Three candidates of some kinds of results; two of all kinds.  Lean dominates
\* Fast and Fast dominates Far, but Lean does not dominate Far: its setup slack is
\* told from that of Far only.
ValuePlays ==
    {[measured |-> (0 :> b) @@ (1 :> x) @@ (2 :> y), unchanged |-> {}, matrix |-> Whole,
      faults |-> 0] :
        b \in Each({Slow, Small}), x \in Each({Fast, Near, Balanced, Proxied}),
        y \in Each({Fast, Small, Near})}
    \cup {[measured |-> (0 :> b) @@ (1 :> x) @@ (2 :> y), unchanged |-> {}, matrix |-> Whole,
           faults |-> 0] :
        b \in Each({Fast, Small}), x \in Each({Lean, Near}), y \in Each({Far, Slow})}
    \cup {[measured |-> (0 :> b) @@ (1 :> x), unchanged |-> {}, matrix |-> Whole,
           faults |-> 0] :
        b \in Each({Small, Proxied}), x \in Each(Values)}

\* The tools fail or raise up to twice; candidate 1 may have the base set.
OrderPlays ==
    {[measured |-> (0 :> [s \in Scenarios |-> Fast]) @@ (1 :> [s \in Scenarios |-> Small])
                    @@ (2 :> [s \in Scenarios |-> x]),
      unchanged |-> u, matrix |-> m, faults |-> 2] :
        x \in {Balanced, Violated}, u \in {{}, {1}}, m \in {Whole, Dangling}}

MCPlays == ValuePlays \cup OrderPlays
=============================================================================
