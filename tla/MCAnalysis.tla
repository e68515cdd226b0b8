----------------------------- MODULE MCAnalysis -----------------------------
(***************************************************************************)
(* A design with two clocks, one crossing from a's register ra to b's rb,  *)
(* an input i captured by b and an output o launched by a, and a set that  *)
(* constrains it completely; the edits spoil it, repair it, and spoil it   *)
(* elsewhere.                                                              *)
(***************************************************************************)
EXTENDS Analysis

\* Each field in the order the source writes it; the position is the order of
\* the ids.
Blank == [id |-> "", at |-> 0, type |-> "", name |-> "", values |-> <<>>, targets |-> {}, refs |-> {},
    sources |-> {}, sourceRefs |-> {}, clockRefs |-> <<>>, selector |-> FALSE, from |-> {}, to |-> {}, through |-> <<>>, groups |-> <<>>,
    scenarios |-> {}, status |-> "PROPOSED", pinned |-> FALSE, source |-> "USER", disabled |-> FALSE,
    assumptions |-> {}, evidence |-> {}, unsupported |-> FALSE, high |-> TRUE]

Clock(id, at, name, values) ==
    [Blank EXCEPT !.id = id, !.at = at, !.type = "create_clock", !.name = name, !.values = values,
                  !.targets = {IF name = "a" THEN "ca" ELSE "cb"}]
Delayed(id, at, type, port, values) ==
    [Blank EXCEPT !.id = id, !.at = at, !.type = type, !.targets = {port}, !.values = values]
Exception(id, at, type, from, to, values) ==
    [Blank EXCEPT !.id = id, !.at = at, !.type = type, !.selector = TRUE, !.from = from, !.to = to,
                  !.values = values]

ClockA == Clock("clk1", 2, "a", [period |-> 10])
Crossing == Exception("exc1", 20, "set_false_path", {"a"}, {"b"}, <<>>)

MCStarting == {ClockA, Clock("clk2", 3, "b", [period |-> 20]),
    [Blank EXCEPT !.id = "grp1", !.at = 10, !.type = "set_clock_groups", !.groups = <<{"a"}, {"b"}>>,
                  !.values = [relationship |-> "asynchronous"]],
    Crossing,
    Delayed("in1", 30, "set_input_delay", "i", [delay |-> 2, clock |-> "b"]),
    Delayed("out1", 40, "set_output_delay", "o", [delay |-> 3, clock |-> "a"])}

Inferred1 == [Delayed("unc1", 50, "set_clock_uncertainty", "ca", [uncertainty |-> 1]) EXCEPT
                  !.source = "INFERENCE", !.assumptions = {"asm1"}, !.evidence = {"rule"}]

MCCatalogue == MCStarting \cup {
    [Clock("clk0", 1, "a", [period |-> 12]) EXCEPT !.scenarios = {"s1"}, !.values = [period |-> 12, add |-> TRUE]],
    Clock("clk4", 4, "a", [period |-> 10, add |-> TRUE]),
    Clock("clk5", 5, "c", [period |-> Garbled]),
    Clock("clk6", 6, "a", [period |-> 10, add |-> TRUE, waveform |-> <<0, 10>>]),
    [Blank EXCEPT !.id = "gck1", !.at = 7, !.type = "create_generated_clock", !.name = "g",
                  !.targets = {"rc"}, !.values = [source |-> "ca", master |-> "a"]],
    [Blank EXCEPT !.id = "gck2", !.at = 8, !.type = "create_generated_clock", !.name = "b",
                  !.targets = {"rb"}, !.values = [source |-> "ca", divide_by |-> 2]],
    [Blank EXCEPT !.id = "grp2", !.at = 11, !.type = "set_clock_groups", !.groups = <<{"b"}, {"a"}>>,
                  !.values = [relationship |-> "logically_exclusive"]],
    Exception("exc4", 23, "set_max_delay", {"ra"}, {"rb"}, [delay |-> 4]),
    Exception("exc0", 19, "set_false_path", {}, {}, <<>>),
    Exception("exc2", 21, "set_multicycle_path", {"a"}, {"b"}, [cycles |-> 2]),
    Exception("exc3", 22, "set_false_path", {"b"}, {"a"}, <<>>),
    Delayed("in2", 31, "set_input_delay", "i", [delay |-> 2, clock |-> "a"]),
    Delayed("in3", 32, "set_input_delay", "i", [delay |-> 5, clock |-> "b"]),
    [Delayed("in4", 33, "set_input_delay", "i", [delay |-> 2, clock |-> "b"]) EXCEPT !.source = "EXISTING_SDC", !.pinned = TRUE],
    Delayed("in5", 34, "set_input_delay", "i", [delay |-> 2, clock |-> "z"]),
    Inferred1,
    Delayed("load1", 52, "set_load", "o", [load |-> 1]),
    [Inferred1 EXCEPT !.id = "unc2", !.at = 51, !.evidence = {}, !.unsupported = TRUE]}

Paths == {
    [class |-> "CDC", start |-> "ra", end |-> "rb", launch |-> "a", capture |-> "b", elems |-> <<>>],
    [class |-> "INPUT_TO_REG", start |-> "i", end |-> "rb", launch |-> NoClock, capture |-> "b", elems |-> <<>>],
    [class |-> "REG_TO_OUTPUT", start |-> "ra", end |-> "o", launch |-> "a", capture |-> NoClock, elems |-> <<>>],
    [class |-> "REG_TO_REG", start |-> "ra", end |-> "rc", launch |-> "a", capture |-> "a", elems |-> <<>>]}

Elaborated == [available |-> TRUE, graph |-> TRUE, clocks |-> {"a", "b"},
    dir |-> [ca |-> "input", cb |-> "input", i |-> "input", o |-> "output"],
    objects |-> {"ra", "rb", "rc"}, leaf |-> <<>>, resets |-> {}, tests |-> {}, drives |-> [a |-> {"ra", "rc"}, b |-> {"rb"}],
    paths |-> Paths, edges |-> {[a |-> "a", b |-> "b", rel |-> "ASYNCHRONOUS", confirm |-> FALSE]},
    inClock |-> [i |-> "b"], outClock |-> [o |-> "a"], derived |-> {}]

\* The second is a parse whose timing graph was not built.
MCDesigns == {Elaborated, [Elaborated EXCEPT !.graph = FALSE]}
MCProjects ==
    LET settings(formal, mcmm, defined) == [formalRequired |-> formal, mcmm |-> mcmm, scenarios |-> defined]
    IN {settings(TRUE, FALSE, <<>>), settings(FALSE, TRUE, [s1 |-> [active |-> TRUE, key |-> 0]]),
        settings(FALSE, FALSE, <<>>)}

\* Nothing is proved; everything is; the crossing is refuted; the tool ran.
Proved == [exc0 |-> "VERIFIED", exc1 |-> "VERIFIED", exc2 |-> "VERIFIED", exc3 |-> "VERIFIED", exc4 |-> "VERIFIED"]
Ran(kind, markers) == [kind |-> kind, file |-> TRUE, tool |-> TRUE, contained |-> TRUE, ended |-> "done",
                       markers |-> markers, code |-> 0]
MCProofs == {[kind |-> "conservative"], [kind |-> "mock", verdicts |-> Proved],
    [kind |-> "mock", verdicts |-> [exc1 |-> "INVALID"]],
    [kind |-> "symbiyosys", run |-> [e \in {"exc0", "exc1", "exc2", "exc3", "exc4"} |->
        IF e = "exc1" THEN Ran("set_false_path", {"PASS"}) ELSE Ran("none", {})]]}

MCSnapshots == {{}, {"design", "config"}}
=============================================================================
