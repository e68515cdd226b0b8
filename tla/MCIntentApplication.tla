------------------------ MODULE MCIntentApplication ------------------------
(***************************************************************************)
(* A design with two clocks, one of known structural period, and a port.   *)
(***************************************************************************)
EXTENDS IntentApplication, TLC

CONSTANTS clk, aux, din, pair, div, s1, p10, p12, d2, sa

MCNameOrder == <<clk, aux, pair, div, din>>
Clock(regs, period) == [regs |-> regs, period |-> period]
Port(assoc, delay) ==
    [kind |-> "set_input_delay", assoc |-> assoc, delay |-> delay, clock |-> None, fixed |-> TRUE]

Base ==
    [clocks |-> (clk :> Clock(TRUE, p10)) @@ (aux :> Clock(TRUE, None)),
     user |-> <<>>, ports |-> (din :> Port({clk, aux}, None)),
     async |-> {}, cdc |-> {}, derived |-> <<>>, hints |-> {}, active |-> {}, defined |-> {s1}]

\* The clock's structural period changed, questions found and no scenario defined; one clock declared by the user, the
\* port given a delay and its clock found, MCMM switched on.
MCWorlds ==
    {Base,
     [Base EXCEPT !.clocks[clk].period = p12, !.cdc = {pair}, !.derived = div :> {},
                  !.hints = {din}, !.defined = {}],
     [Base EXCEPT !.user = aux :> [period |-> p12, fixed |-> TRUE], !.ports[din] = Port({clk}, d2), !.async = {pair}, !.active = {s1}]}

Con(kind, object, value, deps, scenarios) ==
    [scope |-> <<kind, object>>, value |-> value, scenarios |-> scenarios, disabled |-> FALSE,
     unsupported |-> FALSE, high |-> FALSE, source |-> Inferred, status |-> "PROPOSED",
     pinned |-> FALSE, deps |-> deps, downs |-> {}, assumptions |-> {}]

\* Two constraints of one scenario, the first depending on the second.
MCPackages ==
    {<<[id |-> <<"PKG", "a", 0>>,
        con |-> Con("set_input_delay", din, d2, {<<"PKG", "b", 0>>}, {s1})],
       [id |-> <<"PKG", "b", 0>>, con |-> Con("create_clock", aux, p10, {}, {s1})]>>}

ByHand(c) == [c EXCEPT !.source = "USER", !.status = "CONFIRMED", !.pinned = TRUE, !.high = TRUE]
MCUserIntent ==
    {[ByHand(Con("create_clock", clk, p12, {}, {})) EXCEPT !.unsupported = TRUE],
     [ByHand(Con("set_load", din, d2, {}, {})) EXCEPT !.assumptions = {1}]}
=============================================================================
