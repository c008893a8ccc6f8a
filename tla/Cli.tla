--------------------------------- MODULE Cli ---------------------------------
(***************************************************************************)
(* One run of the analyzer's command, `aegis dependencies` or `aegis       *)
(* evidence`: main in analysis/src/aegis_analysis/cli.py, and the three    *)
(* sources that it reads, in sources.py and jaeger.py.                     *)
(*                                                                         *)
(* What matters here is which of the many ways to fail ends the run, and   *)
(* what has been printed by then.  An exception is the name of its class;  *)
(* an except clause is the set of the classes that it names.  How a record *)
(* is normalized and what the analysis makes of the traces is modelled by  *)
(* Jaeger, Observations and Evidence; here a record is read or refused.    *)
(***************************************************************************)
EXTENDS Integers, Sequences, FiniteSets

CONSTANTS
    Invocations,    \* the command lines
    Records,        \* the trace records that sources can hold
    Inputs,         \* Inputs[s]: what reading source s can come upon
    None, Unusable, Misfit

File == INSTANCE Fixture

Selectors == {"fixture", "jaeger_file", "service", "trace_id"}
Sources == {"fixture", "jaeger_file", "query"}

-----------------------------------------------------------------------------
(* Exceptions.                                                             *)

\* The classes an exception belongs to, as far as some except clause or some
\* property names them.
Bases ==
    [OSError |-> {"OSError"},
     URLError |-> {"URLError", "OSError"},
     TimeoutError |-> {"OSError"},
     HTTPException |-> {},
     ValueError |-> {"ValueError"},
     SourceError |-> {"ValueError"},
     JSONDecodeError |-> {"ValueError"},
     UnicodeDecodeError |-> {"ValueError"},
     UnicodeEncodeError |-> {"ValueError"},
     TypeError |-> {"TypeError"},
     KeyError |-> {"KeyError"},
     RecursionError |-> {},
     OverflowError |-> {}]

\* (Mutant: JSON of the wrong shape is not expected in a fixture.)
HandledUnshaped ==
    [fixture |-> {"OSError", "ValueError"},
     jaeger_file |-> {"OSError", "ValueError"},
     query |-> {"URLError", "OSError", "ValueError"}]

\* What the sources turn into SourceError.
Handled ==
    [fixture |-> {"OSError", "ValueError", "TypeError", "KeyError"},
     jaeger_file |-> {"OSError", "ValueError"},
     query |-> {"URLError", "OSError", "ValueError"}]

Caught(e, classes) == Bases[e] \cap classes # {}

\* What opening a source, decoding it and looking at its outermost object can
\* raise.  A fixture of another shape lacks keys, or cannot be indexed; the
\* adapter refuses other shapes itself.  A connection may be cut in the middle
\* of the answer, which http.client reports with a class of its own.
Faults ==
    [fixture |-> {"OSError", "UnicodeDecodeError", "JSONDecodeError",
                  "RecursionError", "TypeError", "KeyError", "ValueError"},
     jaeger_file |-> {"OSError", "UnicodeDecodeError", "JSONDecodeError",
                      "RecursionError", "SourceError"},
     query |-> {"URLError", "TimeoutError", "HTTPException", "OverflowError",
                "UnicodeDecodeError", "JSONDecodeError", "RecursionError",
                "SourceError"}]

ASSUME InvocationsAssumption ==
    \A a \in Invocations :
        /\ a.command \in {"dependencies", "evidence"}
        /\ a.selectors \subseteq Selectors
        /\ IsFiniteSet(a.selectors)
        /\ a.window \in Int \X Int
ASSUME InputsAssumption ==
    \A s \in Sources : \A i \in Inputs[s] :
        /\ i # None
        /\ i.fault \in Faults[s] \cup {"none"}
        /\ i.records \in Seq(Records)
ASSUME NoneAssumption == None \notin Int

VARIABLES
    pc,         \* the next statement of main
    args,       \* the command line
    source,     \* the source that was chosen
    input,      \* what it holds
    traces,     \* the records read so far
    stdout,     \* "nothing", "part" or "all" of the answer
    shown,      \* the traces of which the answer tells
    stderr,     \* what kinds of lines were printed to it
    exit        \* the exit code

vars == <<pc, args, source, input, traces, stdout, shown, stderr, exit>>

Init ==
    /\ pc = "arguments"
    /\ args \in Invocations
    /\ source = None
    /\ input = None
    /\ traces = <<>>
    /\ stdout = "nothing"
    /\ shown = None
    /\ stderr = {}
    /\ exit = None

Goto(place) == pc' = place /\ UNCHANGED exit

End(code, lines) ==
    /\ pc' = "exited"
    /\ exit' = code
    /\ stderr' = stderr \cup lines

\* main catches ValueError; the interpreter ends with a traceback and the same
\* exit code on any other exception.
Raise(e) ==
    End(1, IF Caught(e, {"ValueError"}) THEN {"message"} ELSE {"traceback"})

\* An exception of read_traces.
RaiseReading(e) ==
    Raise(IF Caught(e, Handled[source]) THEN "SourceError" ELSE e)

-----------------------------------------------------------------------------
(* Arguments.                                                              *)

\* argparse wants exactly one input selector, and numbers that are numbers.
WellFormed == Cardinality(args.selectors) = 1 /\ args.numbers = "valid"

ParseArguments ==
    /\ pc = "arguments"
    /\ IF ~WellFormed THEN End(2, {"usage"})
       ELSE /\ Goto(IF args.command = "evidence" THEN "window" ELSE "source")
            /\ UNCHANGED stderr
    /\ UNCHANGED <<args, source, input, traces, stdout, shown>>

\* (Mutant: a window is checked when it is used.)
CheckWindowLater ==
    /\ pc = "window"
    /\ Goto("source")
    /\ UNCHANGED <<args, source, input, traces, stdout, shown, stderr>>

CheckWindow ==
    /\ pc = "window"
    /\ IF args.window[1] >= args.window[2] THEN End(2, {"usage"})
       ELSE Goto("source") /\ UNCHANGED stderr
    /\ UNCHANGED <<args, source, input, traces, stdout, shown>>

\* A selector with an empty value selects nothing: JaegerSource then finds
\* neither a service nor a trace id.
Chosen ==
    IF args.value = "empty" THEN "query"
    ELSE IF "fixture" \in args.selectors THEN "fixture"
    ELSE IF "jaeger_file" \in args.selectors THEN "jaeger_file"
    ELSE "query"

\* The URL, the limit and the timeout are checked for queries only.
QueryRefused == args.value = "empty" \/ args.query = "invalid"

MakeSource ==
    /\ pc = "source"
    /\ source' = Chosen
    /\ IF Chosen = "query" /\ QueryRefused THEN Raise("SourceError")
       ELSE Goto("read") /\ UNCHANGED stderr
    /\ UNCHANGED <<args, input, traces, stdout, shown>>

-----------------------------------------------------------------------------
(* Reading: all of the records or none.                                    *)

ReadSource ==
    /\ pc = "read"
    /\ \E i \in Inputs[source] :
        /\ input' = i
        /\ IF i.fault # "none" THEN RaiseReading(i.fault)
           ELSE Goto("records") /\ UNCHANGED stderr
    /\ UNCHANGED <<args, source, traces, stdout, shown>>

\* Spans of a Jaeger record that make no sense are dropped with a diagnostic,
\* see Jaeger; those of a fixture refuse the fixture.
Readable(s, r) ==
    /\ r # Misfit /\ r.trace # Unusable /\ r.spans # Unusable
    /\ IF s = "fixture" THEN File!ValidRecord(r) ELSE r.processes # Unusable

\* What an unreadable record raises: in a fixture, one that is not even an
\* object of the expected shape is found out by the interpreter.
Refusals(s, r) ==
    IF s # "fixture" THEN {"SourceError"}
    ELSE IF r = Misfit THEN {"TypeError", "KeyError"}
    ELSE {"TypeError", "ValueError"}

\* (Mutant: a source holds one trace.)
ReadOne == traces # <<>> \/ input.records = <<>>

ReadAll == Len(traces) = Len(input.records)

Upcoming == input.records[Len(traces) + 1]

ReadRecord ==
    /\ pc = "records"
    /\ ~ReadAll
    /\ \/ /\ Readable(source, Upcoming)
          /\ traces' = Append(traces, Upcoming)
          /\ Goto("records")
          /\ UNCHANGED stderr
       \/ /\ ~Readable(source, Upcoming)
          /\ \E e \in Refusals(source, Upcoming) : RaiseReading(e)
          /\ UNCHANGED traces
    /\ UNCHANGED <<args, source, input, stdout, shown>>

RecordsEnd ==
    /\ pc = "records"
    /\ ReadAll
    /\ Goto("analysis")
    /\ UNCHANGED <<args, source, input, traces, stdout, shown, stderr>>

-----------------------------------------------------------------------------
(* Analysis and output.                                                    *)

Some(records, field) ==
    \E n \in DOMAIN records : records[n][field] = "yes"

\* Durations whose average no float can hold.
Unaverageable(records) == args.command = "evidence" /\ Some(records, "huge")

\* An empty graph is explained on stderr; an empty summary says it itself.
Notices ==
    IF args.command = "dependencies" /\ traces = <<>> THEN {"empty"} ELSE {}

Analyse ==
    /\ pc = "analysis"
    /\ IF Unaverageable(traces) THEN Raise("ValueError")
       ELSE Goto("output") /\ stderr' = stderr \cup Notices
    /\ UNCHANGED <<args, source, input, traces, stdout, shown>>

\* In text, the diagnostics of a graph are part of the answer; a summary
\* prints them, and its limitations, to stderr.
Remarks ==
    IF args.command = "evidence"
    THEN {"limitation"} \cup (IF Some(traces, "flawed") THEN {"warning"} ELSE {})
    ELSE {}

PrintJson ==
    /\ pc = "output"
    /\ args.json = "yes"
    /\ stdout' = "all"
    /\ shown' = traces
    /\ End(0, {})
    /\ UNCHANGED <<args, source, input, traces>>

\* Text is printed line by line, and stdout may be unable to encode a name.
PrintText ==
    /\ pc = "output"
    /\ args.json = "no"
    /\ \/ /\ ~Some(traces, "odd")
          /\ stdout' = "all"
          /\ shown' = traces
          /\ End(0, Remarks)
       \/ /\ Some(traces, "odd")
          /\ stdout' \in {"nothing", "part"}
          /\ Raise("UnicodeEncodeError")
          /\ UNCHANGED shown
    /\ UNCHANGED <<args, source, input, traces>>

Next ==
    \/ ParseArguments \/ CheckWindow \/ MakeSource
    \/ ReadSource \/ ReadRecord \/ RecordsEnd
    \/ Analyse \/ PrintJson \/ PrintText

Spec == Init /\ [][Next]_vars

-----------------------------------------------------------------------------
(* Properties.                                                             *)

TypeOK ==
    /\ pc \in {"arguments", "window", "source", "read", "records",
               "analysis", "output", "exited"}
    /\ args \in Invocations
    /\ source \in Sources \cup {None}
    /\ pc \in {"read", "records", "analysis", "output"} => source \in Sources
    /\ input # None => source \in Sources /\ input \in Inputs[source]
    /\ pc \in {"records", "analysis", "output"} => input # None
    /\ stdout \in {"nothing", "part", "all"}
    /\ exit \in {None, 0, 1, 2}
    /\ exit = None <=> pc # "exited"

\* The answer is about everything that the source holds, or there is none: a
\* run that succeeds has read every record, and in JSON a run that fails has
\* printed nothing ("--json prints only deterministic JSON to stdout",
\* analysis/README.md), however late it failed.
AnswerIsWhole ==
    /\ exit = 0 => stdout = "all" /\ input # None /\ shown = input.records
    /\ exit # 0 => shown = None
    /\ exit # 0 /\ args.json = "yes" => stdout = "nothing"

\* The exit code that the cause calls for.
Cause ==
    IF \/ ~WellFormed
       \/ args.command = "evidence" /\ args.window[1] >= args.window[2]
    THEN 2
    ELSE IF \/ Chosen = "query" /\ QueryRefused
            \/ input = None
            \/ input.fault # "none"
            \/ \E n \in DOMAIN input.records : ~Readable(source, input.records[n])
            \/ Unaverageable(input.records)
            \/ args.json = "no" /\ Some(input.records, "odd")
         THEN 1
         ELSE 0

\* "Operational failures use stderr and exit 1; argument errors exit 2.
\* Successful analysis, including partial or empty input, exits 0 ... Invalid
\* windows exit 2 before reading the source" (analysis/README.md): the code
\* depends on the command line and on what the source holds, not on which
\* statement found out first.
ExitCodeTellsCause ==
    exit # None => /\ exit = Cause
                   /\ exit = 2 => input = None

\* Whatever is wrong with what a source holds or with the query is reported as
\* such ("Invalid fixtures fail explicitly", sources.py).  A traceback ends the
\* run only for a broken answer of the server, a timeout beyond what sockets
\* take, or JSON too deep for the interpreter.
RefusalsAreExplicit ==
    "traceback" \in stderr =>
        /\ input # None
        /\ input.fault \in {"HTTPException", "OverflowError", "RecursionError"}

\* "malformed envelopes, query errors, connection errors and invalid JSON fail
\* explicitly" (docs/architecture/batch-4-trace-analysis.md), by a SourceError
\* that main reports.
ConnectionErrorsAreExplicit ==
    input # None /\ input.fault \in {"URLError", "TimeoutError", "HTTPException"}
        => "traceback" \notin stderr

-----------------------------------------------------------------------------
(* The inductive invariant behind them: what the run has established when  *)
(* it gets to a place.                                                     *)

WindowRefused == args.command = "evidence" /\ args.window[1] >= args.window[2]

\* Before its end the run has answered and refused nothing.
Undecided ==
    pc # "exited" => /\ stdout = "nothing" /\ shown = None
                     /\ "traceback" \notin stderr

ArgumentsPassed ==
    /\ pc \in {"arguments", "window", "source", "read"} => input = None
    /\ pc \in {"window", "source", "read", "records", "analysis", "output"}
           => WellFormed
    /\ pc = "window" => args.command = "evidence"
    /\ pc \in {"source", "read", "records", "analysis", "output"}
           => ~WindowRefused
    /\ pc \in {"read", "records", "analysis", "output"}
           => source = Chosen /\ ~(Chosen = "query" /\ QueryRefused)

RecordsPassed ==
    /\ traces \in Seq(Records)
    /\ pc \in {"arguments", "window", "source", "read"} => traces = <<>>
    /\ pc \in {"records", "analysis", "output"} =>
        /\ input.fault = "none"
        /\ Len(traces) <= Len(input.records)
        /\ \A n \in 1..Len(traces) :
              traces[n] = input.records[n] /\ Readable(source, input.records[n])
    /\ pc \in {"analysis", "output"} => Len(traces) = Len(input.records)
    /\ pc = "output" => ~Unaverageable(traces)

CliInv ==
    /\ TypeOK
    /\ Undecided
    /\ ArgumentsPassed
    /\ RecordsPassed
    /\ AnswerIsWhole
    /\ ExitCodeTellsCause
    /\ RefusalsAreExplicit
=============================================================================
