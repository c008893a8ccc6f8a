-------------------------------- MODULE MCCli --------------------------------
(***************************************************************************)
(* An instance of Cli for TLC: every command line, and sources that hold   *)
(* up to two records, or cannot be read.                                   *)
(***************************************************************************)
EXTENDS Cli, SequencesExt

CONSTANTS t1, t2

\* No selector, each of them, and two at once; windows that are valid, empty
\* and reversed.
MCInvocations ==
    [command : {"dependencies", "evidence"},
     json : {"yes", "no"},
     selectors : {{}, {"fixture", "service"}} \cup {{s} : s \in Selectors},
     value : {"given", "empty"},
     numbers : {"valid", "invalid"},
     window : {<<1, 2>>, <<1, 1>>, <<2, 1>>},
     query : {"valid", "invalid"}]

MCSpan(id, parent, start) ==
    [trace |-> t1, id |-> id, parent |-> parent, service |-> None,
     operation |-> "", kind |-> "client", status |-> "ok", start |-> start,
     duration |-> None, attributes |-> [error |-> "true"]]

MCRecord(trace, spans, flawed, odd, huge) ==
    [trace |-> trace, spans |-> spans, processes |-> None,
     flawed |-> flawed, odd |-> odd, huge |-> huge]

MCRecords ==
    {Misfit,
     MCRecord(t1, {MCSpan("s", None, 0)}, "no", "no", "no"),
     MCRecord(t1, {MCSpan("s", "p", 1), MCSpan("p", "s", None)}, "yes", "no", "no"),
     MCRecord(t1, {MCSpan("s", None, 1)}, "no", "yes", "no"),
     MCRecord(t1, {MCSpan("s", None, 1)}, "no", "no", "yes"),
     MCRecord(t2, {MCSpan("s", None, 1)}, "no", "no", "no"),
     MCRecord(t1, {MCSpan("s", Unusable, 1)}, "no", "no", "no"),
     MCRecord(t1, {Misfit}, "no", "no", "no"),
     MCRecord(t1, Unusable, "no", "no", "no"),
     MCRecord(Unusable, {}, "no", "no", "no")}

MCInputs ==
    [s \in Sources |->
        [fault : Faults[s], records : {<<>>}]
        \cup [fault : {"none"}, records : BoundedSeq(MCRecords, 2)]]
=============================================================================
