----------------------------- MODULE Cli_proofs -----------------------------
(***************************************************************************)
(* Proofs about Cli: whatever the command line is, and whatever a source   *)
(* of any length holds or fails with, the answer is whole, the exit code   *)
(* tells the cause, and refusals are messages.                             *)
(***************************************************************************)
EXTENDS Cli, SequenceTheorems, TLAPS

\* The three exceptions that nothing expects.
Unexpected == {"HTTPException", "OverflowError", "RecursionError"}

\* What main gets to see of an exception of read_traces.
Seen(s, e) == IF Caught(e, Handled[s]) THEN "SourceError" ELSE e

LEMMA RefusalIsMessage ==
    /\ Caught("SourceError", {"ValueError"})
    /\ Caught("ValueError", {"ValueError"})
    /\ Caught("UnicodeEncodeError", {"ValueError"})
  BY DEF Caught, Bases

\* Whatever a source can come upon is turned into a SourceError, but for these.
LEMMA FaultsAreSeen ==
    ASSUME NEW s \in Sources, NEW e \in Faults[s], e \notin Unexpected
    PROVE  Caught(Seen(s, e), {"ValueError"})
  <1>1. CASE s = "fixture"
    <2>1. e \in {"OSError", "UnicodeDecodeError", "JSONDecodeError", "TypeError",
                 "KeyError", "ValueError"}
      BY <1>1 DEF Faults, Unexpected
    <2>2. Handled[s] = {"OSError", "ValueError", "TypeError", "KeyError"}
      BY <1>1 DEF Handled
    <2>3. Caught(e, Handled[s])
      BY <2>1, <2>2 DEF Caught, Bases
    <2> QED BY <2>3, RefusalIsMessage DEF Seen
  <1>2. CASE s = "jaeger_file"
    <2>1. e \in {"OSError", "UnicodeDecodeError", "JSONDecodeError", "SourceError"}
      BY <1>2 DEF Faults, Unexpected
    <2>2. Handled[s] = {"OSError", "ValueError"}
      BY <1>2 DEF Handled
    <2>3. Caught(e, Handled[s])
      BY <2>1, <2>2 DEF Caught, Bases
    <2> QED BY <2>3, RefusalIsMessage DEF Seen
  <1>3. CASE s = "query"
    <2>1. e \in {"URLError", "TimeoutError", "UnicodeDecodeError",
                 "JSONDecodeError", "SourceError"}
      BY <1>3 DEF Faults, Unexpected
    <2>2. Handled[s] = {"URLError", "OSError", "ValueError"}
      BY <1>3 DEF Handled
    <2>3. Caught(e, Handled[s])
      BY <2>1, <2>2 DEF Caught, Bases
    <2> QED BY <2>3, RefusalIsMessage DEF Seen
  <1> QED BY <1>1, <1>2, <1>3 DEF Sources

\* So are the records that are refused.
LEMMA RefusalsAreSeen ==
    ASSUME NEW s \in Sources, NEW r, NEW e \in Refusals(s, r)
    PROVE  Caught(Seen(s, e), {"ValueError"})
  <1>1. CASE s = "fixture"
    <2>1. e \in {"TypeError", "KeyError", "ValueError"}
      BY <1>1 DEF Refusals
    <2>2. Handled[s] = {"OSError", "ValueError", "TypeError", "KeyError"}
      BY <1>1 DEF Handled
    <2>3. Caught(e, Handled[s])
      BY <2>1, <2>2 DEF Caught, Bases
    <2> QED BY <2>3, RefusalIsMessage DEF Seen
  <1>2. CASE s # "fixture"
    <2>1. e = "SourceError"
      BY <1>2 DEF Refusals
    <2> QED BY <2>1, RefusalIsMessage DEF Seen
  <1> QED BY <1>1, <1>2

\* What a raised exception does to the run.
LEMMA RaiseEnds ==
    ASSUME NEW e, Raise(e), "traceback" \notin stderr
    PROVE  /\ pc' = "exited" /\ exit' = 1
           /\ Caught(e, {"ValueError"}) => "traceback" \notin stderr'
  BY DEF Raise, End

LEMMA InitInv == Init => CliInv
  <1> SUFFICES ASSUME Init PROVE CliInv
    OBVIOUS
  <1>1. TypeOK
    BY DEF Init, TypeOK
  <1>2. Undecided /\ ArgumentsPassed
    BY DEF Init, Undecided, ArgumentsPassed
  <1>3. RecordsPassed
    BY DEF Init, RecordsPassed
  <1>4. exit = None /\ exit # 0 /\ stdout = "nothing" /\ shown = None /\ stderr = {}
    BY NoneAssumption DEF Init
  <1>5. AnswerIsWhole /\ ExitCodeTellsCause /\ RefusalsAreExplicit
    BY <1>4 DEF AnswerIsWhole, ExitCodeTellsCause, RefusalsAreExplicit
  <1> QED BY <1>1, <1>2, <1>3, <1>5 DEF CliInv

\* The run goes on: nothing is answered yet.
LEMMA GoingOn ==
    ASSUME CliInv, pc # "exited", UNCHANGED <<args, stdout, shown, exit>>,
           "traceback" \notin stderr'
    PROVE  /\ Undecided'
           /\ AnswerIsWhole' /\ ExitCodeTellsCause' /\ RefusalsAreExplicit'
  <1>1. exit = None /\ stdout = "nothing" /\ shown = None
    BY DEF CliInv, TypeOK, Undecided
  <1>2. exit' = None /\ exit' # 0 /\ stdout' = "nothing" /\ shown' = None
    BY <1>1, NoneAssumption
  <1>3. Undecided'
    BY <1>2 DEF Undecided
  <1>4. AnswerIsWhole'
    BY <1>2 DEF AnswerIsWhole
  <1>5. ExitCodeTellsCause'
    BY <1>2 DEF ExitCodeTellsCause
  <1>6. RefusalsAreExplicit'
    BY DEF RefusalsAreExplicit
  <1> QED BY <1>3, <1>4, <1>5, <1>6

\* The run ends with an error, before it has printed an answer in JSON.
LEMMA EndsInError ==
    ASSUME CliInv, pc' = "exited", exit' \in {1, 2}, shown' = None,
           args' = args, args \in Invocations,
           source' \in Sources \cup {None},
           input' # None => source' \in Sources /\ input' \in Inputs[source'],
           stdout' \in {"nothing", "part"},
           args.json = "yes" => stdout' = "nothing",
           exit' = Cause', exit' = 2 => input' = None,
           traces' \in Seq(Records),
           "traceback" \in stderr' =>
               input' # None /\ input'.fault \in Unexpected
    PROVE  CliInv'
  <1>1. exit' # None /\ exit' # 0
    BY NoneAssumption
  <1>2. TypeOK'
    BY <1>1 DEF TypeOK
  <1>3. Undecided' /\ ArgumentsPassed' /\ RecordsPassed'
    BY DEF Undecided, ArgumentsPassed, RecordsPassed
  <1>4. AnswerIsWhole'
    BY <1>1 DEF AnswerIsWhole
  <1>5. ExitCodeTellsCause'
    BY DEF ExitCodeTellsCause
  <1>6. RefusalsAreExplicit'
    BY DEF RefusalsAreExplicit, Unexpected
  <1> QED BY <1>2, <1>3, <1>4, <1>5, <1>6 DEF CliInv

\* The causes, of the same command line.
LEMMA CauseIs ==
    ASSUME args' = args
    PROVE  /\ ~WellFormed \/ WindowRefused => Cause' = 2
           /\ WellFormed /\ ~WindowRefused =>
                /\ Chosen = "query" /\ QueryRefused => Cause' = 1
                /\ input' = None => Cause' = 1
                /\ input'.fault # "none" => Cause' = 1
                /\ (\E n \in DOMAIN input'.records :
                       ~Readable(source', input'.records[n])) => Cause' = 1
                /\ Unaverageable(input'.records) => Cause' = 1
                /\ args.json = "no" /\ Some(input'.records, "odd") => Cause' = 1
  BY DEF Cause, WellFormed, WindowRefused, Chosen, QueryRefused, Unaverageable

\* Without any of them there is an answer.
LEMMA NoCause ==
    ASSUME args' = args, WellFormed, ~WindowRefused,
           ~(Chosen = "query" /\ QueryRefused), input' # None,
           input'.fault = "none",
           \A n \in DOMAIN input'.records : Readable(source', input'.records[n]),
           ~Unaverageable(input'.records),
           ~(args.json = "no" /\ Some(input'.records, "odd"))
    PROVE  Cause' = 0
  BY DEF Cause, WellFormed, WindowRefused, Chosen, QueryRefused, Unaverageable

\* When as many traces as records were read, they are the records.
LEMMA AllRead ==
    ASSUME CliInv, pc \in {"analysis", "output"}
    PROVE  /\ traces = input.records
           /\ input # None /\ source \in Sources /\ input \in Inputs[source]
           /\ input.fault = "none"
           /\ \A n \in DOMAIN input.records : Readable(source, input.records[n])
           /\ WellFormed /\ ~WindowRefused /\ ~(Chosen = "query" /\ QueryRefused)
  <1>1. input # None /\ source \in Sources /\ input \in Inputs[source]
    BY DEF CliInv, TypeOK
  <1>2. input.records \in Seq(Records) /\ traces \in Seq(Records)
    BY <1>1, InputsAssumption DEF CliInv, RecordsPassed
  <1>3. /\ Len(traces) = Len(input.records) /\ input.fault = "none"
        /\ \A n \in 1..Len(traces) :
              traces[n] = input.records[n] /\ Readable(source, input.records[n])
    BY DEF CliInv, RecordsPassed
  <1>4. DOMAIN input.records = 1..Len(input.records)
    BY <1>2
  <1>5. traces = input.records
    BY <1>2, <1>3, SeqEqual
  <1>6. WellFormed /\ ~WindowRefused /\ ~(Chosen = "query" /\ QueryRefused)
    BY DEF CliInv, ArgumentsPassed
  <1> QED BY <1>1, <1>3, <1>4, <1>5, <1>6

LEMMA SameArguments ==
    ASSUME args' = args
    PROVE  /\ WellFormed' <=> WellFormed
           /\ WindowRefused' <=> WindowRefused
           /\ Chosen' = Chosen
           /\ QueryRefused' <=> QueryRefused
  BY DEF WellFormed, WindowRefused, Chosen, QueryRefused

LEMMA ParseArgumentsInv ==
    ASSUME CliInv, ParseArguments
    PROVE  CliInv'
  <1>1. /\ pc = "arguments" /\ UNCHANGED <<args, source, input, traces, stdout, shown>>
        /\ input = None /\ traces = <<>> /\ stdout = "nothing" /\ shown = None
        /\ "traceback" \notin stderr /\ args \in Invocations
        /\ source \in Sources \cup {None}
    BY DEF ParseArguments, CliInv, TypeOK, Undecided, ArgumentsPassed, RecordsPassed
  <1>2. CASE ~WellFormed
    <2>1. pc' = "exited" /\ exit' = 2 /\ stderr' = stderr \cup {"usage"}
      BY <1>2 DEF ParseArguments, End
    <2>2. Cause' = 2
      BY <1>1, <1>2, CauseIs
    <2> QED BY <1>1, <2>1, <2>2, EndsInError
  <1>3. CASE WellFormed
    <2>1. /\ pc' = IF args.command = "evidence" THEN "window" ELSE "source"
          /\ UNCHANGED <<stderr, exit>>
      BY <1>3 DEF ParseArguments, Goto
    <2>2. /\ Undecided'
          /\ AnswerIsWhole' /\ ExitCodeTellsCause' /\ RefusalsAreExplicit'
      BY <1>1, <2>1, GoingOn
    <2>3. TypeOK'
      BY <1>1, <2>1 DEF CliInv, TypeOK
    <2>4. ArgumentsPassed'
      <3>1. pc' = "source" => ~WindowRefused
        BY <2>1 DEF WindowRefused
      <3>2. pc' = "window" => args.command = "evidence"
        BY <2>1
      <3>3. pc' \in {"window", "source"}
        BY <2>1
      <3> QED BY <1>1, <1>3, <3>1, <3>2, <3>3, SameArguments DEF ArgumentsPassed
    <2>5. RecordsPassed'
      BY <1>1, <2>1 DEF CliInv, RecordsPassed
    <2> QED BY <2>2, <2>3, <2>4, <2>5 DEF CliInv
  <1> QED BY <1>2, <1>3

LEMMA CheckWindowInv ==
    ASSUME CliInv, CheckWindow
    PROVE  CliInv'
  <1>1. /\ pc = "window" /\ UNCHANGED <<args, source, input, traces, stdout, shown>>
        /\ input = None /\ traces = <<>> /\ stdout = "nothing" /\ shown = None
        /\ "traceback" \notin stderr /\ args \in Invocations
        /\ source \in Sources \cup {None}
        /\ WellFormed /\ args.command = "evidence"
    BY DEF CheckWindow, CliInv, TypeOK, Undecided, ArgumentsPassed, RecordsPassed
  <1>2. CASE args.window[1] >= args.window[2]
    <2>1. pc' = "exited" /\ exit' = 2 /\ stderr' = stderr \cup {"usage"}
      BY <1>2 DEF CheckWindow, End
    <2>2. Cause' = 2
      BY <1>1, <1>2, CauseIs DEF WindowRefused
    <2> QED BY <1>1, <2>1, <2>2, EndsInError
  <1>3. CASE ~(args.window[1] >= args.window[2])
    <2>1. pc' = "source" /\ UNCHANGED <<stderr, exit>>
      BY <1>3 DEF CheckWindow, Goto
    <2>2. /\ Undecided'
          /\ AnswerIsWhole' /\ ExitCodeTellsCause' /\ RefusalsAreExplicit'
      BY <1>1, <2>1, GoingOn
    <2>3. TypeOK'
      BY <1>1, <2>1 DEF CliInv, TypeOK
    <2>4. ArgumentsPassed'
      <3>1. ~WindowRefused
        BY <1>3 DEF WindowRefused
      <3> QED BY <1>1, <2>1, <3>1, SameArguments DEF ArgumentsPassed
    <2>5. RecordsPassed'
      BY <1>1, <2>1 DEF CliInv, RecordsPassed
    <2> QED BY <2>2, <2>3, <2>4, <2>5 DEF CliInv
  <1> QED BY <1>2, <1>3

LEMMA MakeSourceInv ==
    ASSUME CliInv, MakeSource
    PROVE  CliInv'
  <1>1. /\ pc = "source" /\ UNCHANGED <<args, input, traces, stdout, shown>>
        /\ input = None /\ traces = <<>> /\ stdout = "nothing" /\ shown = None
        /\ "traceback" \notin stderr /\ args \in Invocations
        /\ WellFormed /\ ~WindowRefused
    BY DEF MakeSource, CliInv, TypeOK, Undecided, ArgumentsPassed, RecordsPassed
  <1>2. source' = Chosen /\ source' \in Sources
    BY DEF MakeSource, Chosen, Sources
  <1>3. CASE Chosen = "query" /\ QueryRefused
    <2>1. Raise("SourceError")
      BY <1>3 DEF MakeSource
    <2>2. pc' = "exited" /\ exit' = 1 /\ "traceback" \notin stderr'
      BY <1>1, <2>1, RaiseEnds, RefusalIsMessage
    <2>3. Cause' = 1
      BY <1>1, <1>3, CauseIs
    <2> QED BY <1>1, <1>2, <2>2, <2>3, EndsInError
  <1>4. CASE ~(Chosen = "query" /\ QueryRefused)
    <2>1. pc' = "read" /\ UNCHANGED <<stderr, exit>>
      BY <1>4 DEF MakeSource, Goto
    <2>2. /\ Undecided'
          /\ AnswerIsWhole' /\ ExitCodeTellsCause' /\ RefusalsAreExplicit'
      BY <1>1, <2>1, GoingOn
    <2>3. TypeOK'
      BY <1>1, <1>2, <2>1 DEF CliInv, TypeOK
    <2>4. ArgumentsPassed'
      BY <1>1, <1>2, <1>4, <2>1, SameArguments DEF ArgumentsPassed
    <2>5. RecordsPassed'
      BY <1>1, <2>1 DEF CliInv, RecordsPassed
    <2> QED BY <2>2, <2>3, <2>4, <2>5 DEF CliInv
  <1> QED BY <1>3, <1>4

LEMMA ReadSourceInv ==
    ASSUME CliInv, ReadSource
    PROVE  CliInv'
  <1>1. /\ pc = "read" /\ UNCHANGED <<args, source, traces, stdout, shown>>
        /\ traces = <<>> /\ stdout = "nothing" /\ shown = None
        /\ "traceback" \notin stderr /\ args \in Invocations /\ source \in Sources
        /\ WellFormed /\ ~WindowRefused
        /\ source = Chosen /\ ~(Chosen = "query" /\ QueryRefused)
    BY DEF ReadSource, CliInv, TypeOK, Undecided, ArgumentsPassed, RecordsPassed
  <1>2. /\ input' \in Inputs[source]
        /\ IF input'.fault # "none" THEN RaiseReading(input'.fault)
           ELSE Goto("records") /\ UNCHANGED stderr
    BY DEF ReadSource
  <1>3. /\ input' # None /\ input'.records \in Seq(Records)
        /\ input'.fault \in Faults[source] \cup {"none"}
    BY <1>1, <1>2, InputsAssumption
  <1>4. CASE input'.fault # "none"
    <2>1. Raise(Seen(source, input'.fault))
      BY <1>2, <1>4 DEF RaiseReading, Seen
    <2>2. /\ pc' = "exited" /\ exit' = 1
          /\ Caught(Seen(source, input'.fault), {"ValueError"})
                => "traceback" \notin stderr'
      BY <1>1, <2>1, RaiseEnds
    <2>3. "traceback" \in stderr' => input'.fault \in Unexpected
      BY <1>1, <1>3, <1>4, <2>2, FaultsAreSeen
    <2>4. Cause' = 1
      BY <1>1, <1>4, CauseIs
    <2>5. traces' \in Seq(Records)
      BY <1>1
    <2> QED BY <1>1, <1>2, <1>3, <2>2, <2>3, <2>4, <2>5, EndsInError
  <1>5. CASE input'.fault = "none"
    <2>1. pc' = "records" /\ UNCHANGED <<stderr, exit>>
      BY <1>2, <1>5 DEF Goto
    <2>2. /\ Undecided'
          /\ AnswerIsWhole' /\ ExitCodeTellsCause' /\ RefusalsAreExplicit'
      BY <1>1, <2>1, GoingOn
    <2>3. TypeOK'
      BY <1>1, <1>2, <1>3, <2>1 DEF CliInv, TypeOK
    <2>4. ArgumentsPassed'
      BY <1>1, <2>1, SameArguments DEF ArgumentsPassed
    <2>5. RecordsPassed'
      <3>1. traces' = <<>> /\ Len(traces') = 0 /\ traces' \in Seq(Records)
        BY <1>1
      <3>2. Len(input'.records) \in Nat
        BY <1>3
      <3> QED BY <1>5, <2>1, <3>1, <3>2 DEF RecordsPassed
    <2> QED BY <2>2, <2>3, <2>4, <2>5 DEF CliInv
  <1> QED BY <1>4, <1>5

LEMMA ReadRecordInv ==
    ASSUME CliInv, ReadRecord
    PROVE  CliInv'
  <1>1. /\ pc = "records" /\ UNCHANGED <<args, source, input, stdout, shown>>
        /\ stdout = "nothing" /\ shown = None
        /\ "traceback" \notin stderr /\ args \in Invocations /\ source \in Sources
        /\ WellFormed /\ ~WindowRefused
        /\ source = Chosen /\ ~(Chosen = "query" /\ QueryRefused)
        /\ input # None /\ input \in Inputs[source] /\ input.fault = "none"
        /\ traces \in Seq(Records) /\ Len(traces) <= Len(input.records)
        /\ \A n \in 1..Len(traces) :
              traces[n] = input.records[n] /\ Readable(source, input.records[n])
    BY DEF ReadRecord, CliInv, TypeOK, Undecided, ArgumentsPassed, RecordsPassed
  <1>2. input.records \in Seq(Records) /\ Len(traces) < Len(input.records)
    <2>1. input.records \in Seq(Records)
      BY <1>1, InputsAssumption
    <2>2. Len(traces) # Len(input.records)
      BY DEF ReadRecord, ReadAll
    <2> QED BY <1>1, <2>1, <2>2
  <1> DEFINE next == Len(traces) + 1
  <1>3. /\ Upcoming = input.records[next] /\ next \in DOMAIN input.records
        /\ Upcoming \in Records
    BY <1>1, <1>2 DEF Upcoming
  <1>4. CASE ~Readable(source, Upcoming)
    <2>1. traces' = traces
      BY <1>4 DEF ReadRecord
    <2>2. PICK e \in Refusals(source, Upcoming) : RaiseReading(e)
      BY <1>4 DEF ReadRecord
    <2>3. Raise(Seen(source, e))
      BY <2>2 DEF RaiseReading, Seen
    <2>4. pc' = "exited" /\ exit' = 1 /\ "traceback" \notin stderr'
      BY <1>1, <2>3, RaiseEnds, RefusalsAreSeen
    <2>5. \E n \in DOMAIN input'.records : ~Readable(source', input'.records[n])
      BY <1>1, <1>3, <1>4
    <2>6. Cause' = 1
      BY <1>1, <2>5, CauseIs
    <2> QED BY <1>1, <2>1, <2>4, <2>6, EndsInError
  <1>5. CASE Readable(source, Upcoming)
    <2>1. /\ pc' = "records" /\ UNCHANGED <<stderr, exit>>
          /\ traces' = Append(traces, Upcoming)
      BY <1>5 DEF ReadRecord, Goto
    <2>2. /\ Undecided'
          /\ AnswerIsWhole' /\ ExitCodeTellsCause' /\ RefusalsAreExplicit'
      BY <1>1, <2>1, GoingOn
    <2>3. TypeOK'
      BY <1>1, <2>1 DEF CliInv, TypeOK
    <2>4. ArgumentsPassed'
      BY <1>1, <2>1, SameArguments DEF ArgumentsPassed
    <2>5. RecordsPassed'
      <3>1. traces' \in Seq(Records) /\ Len(traces') = next
        BY <1>1, <1>3, <2>1
      <3>2. ASSUME NEW n \in 1..Len(traces')
            PROVE  /\ traces'[n] = input.records[n]
                   /\ Readable(source, input.records[n])
        <4>1. CASE n \in 1..Len(traces)
          <5>1. traces'[n] = traces[n]
            BY <1>1, <1>3, <2>1, <4>1
          <5> QED BY <1>1, <4>1, <5>1
        <4>2. CASE n = next
          <5>1. traces'[n] = Upcoming
            BY <1>1, <1>3, <2>1, <4>2
          <5> QED BY <1>3, <1>5, <4>2, <5>1
        <4> QED BY <1>1, <3>1, <4>1, <4>2
      <3>3. Len(traces') <= Len(input.records)
        BY <1>1, <1>2, <3>1
      <3>4. \A n \in 1..Len(traces') :
                traces'[n] = input'.records[n] /\ Readable(source', input'.records[n])
        BY <1>1, <3>2
      <3> QED BY <1>1, <2>1, <3>1, <3>3, <3>4 DEF RecordsPassed
    <2> QED BY <2>2, <2>3, <2>4, <2>5 DEF CliInv
  <1> QED BY <1>4, <1>5

LEMMA RecordsEndInv ==
    ASSUME CliInv, RecordsEnd
    PROVE  CliInv'
  <1>1. /\ pc = "records" /\ pc' = "analysis"
        /\ UNCHANGED <<args, source, input, traces, stdout, shown, stderr, exit>>
        /\ Len(traces) = Len(input.records) /\ "traceback" \notin stderr
    BY DEF RecordsEnd, Goto, ReadAll, CliInv, Undecided
  <1>2. /\ Undecided'
        /\ AnswerIsWhole' /\ ExitCodeTellsCause' /\ RefusalsAreExplicit'
    BY <1>1, GoingOn
  <1>3. TypeOK'
    BY <1>1 DEF CliInv, TypeOK
  <1>4. ArgumentsPassed'
    BY <1>1, SameArguments DEF CliInv, ArgumentsPassed
  <1>5. RecordsPassed'
    <2>1. \A n \in 1..Len(traces') :
              traces'[n] = input'.records[n] /\ Readable(source', input'.records[n])
      BY <1>1 DEF CliInv, RecordsPassed
    <2> QED BY <1>1, <2>1 DEF CliInv, RecordsPassed
  <1> QED BY <1>2, <1>3, <1>4, <1>5 DEF CliInv

LEMMA AnalyseInv ==
    ASSUME CliInv, Analyse
    PROVE  CliInv'
  <1>1. /\ pc = "analysis" /\ UNCHANGED <<args, source, input, traces, stdout, shown>>
        /\ stdout = "nothing" /\ shown = None
        /\ "traceback" \notin stderr /\ args \in Invocations
        /\ traces \in Seq(Records)
    BY DEF Analyse, CliInv, TypeOK, Undecided, RecordsPassed
  <1>2. /\ traces = input.records
        /\ input # None /\ source \in Sources /\ input \in Inputs[source]
        /\ WellFormed /\ ~WindowRefused
    BY <1>1, AllRead
  <1>3. CASE Unaverageable(traces)
    <2>1. Raise("ValueError")
      BY <1>3 DEF Analyse
    <2>2. pc' = "exited" /\ exit' = 1 /\ "traceback" \notin stderr'
      BY <1>1, <2>1, RaiseEnds, RefusalIsMessage
    <2>3. Cause' = 1
      BY <1>1, <1>2, <1>3, CauseIs
    <2> QED BY <1>1, <1>2, <2>2, <2>3, EndsInError
  <1>4. CASE ~Unaverageable(traces)
    <2>1. pc' = "output" /\ stderr' = stderr \cup Notices /\ exit' = exit
      BY <1>4 DEF Analyse, Goto
    <2>2. "traceback" \notin stderr'
      BY <1>1, <2>1 DEF Notices
    <2>3. /\ Undecided'
          /\ AnswerIsWhole' /\ ExitCodeTellsCause' /\ RefusalsAreExplicit'
      BY <1>1, <2>2, <2>1, GoingOn
    <2>4. TypeOK'
      BY <1>1, <2>1 DEF CliInv, TypeOK
    <2>5. ArgumentsPassed'
      BY <1>1, <2>1, SameArguments DEF CliInv, ArgumentsPassed
    <2>6. RecordsPassed'
      <3>1. ~Unaverageable(traces)'
        BY <1>1, <1>4 DEF Unaverageable
      <3>2. \A n \in 1..Len(traces') :
                traces'[n] = input'.records[n] /\ Readable(source', input'.records[n])
        BY <1>1 DEF CliInv, RecordsPassed
      <3> QED BY <1>1, <2>1, <3>1, <3>2 DEF CliInv, RecordsPassed
    <2> QED BY <2>3, <2>4, <2>5, <2>6 DEF CliInv
  <1> QED BY <1>3, <1>4

\* A run that prints everything ends well.
LEMMA EndsWell ==
    ASSUME CliInv, pc = "output", UNCHANGED <<args, source, input, traces>>,
           pc' = "exited", exit' = 0, stdout' = "all", shown' = traces,
           "traceback" \notin stderr',
           ~(args.json = "no" /\ Some(traces, "odd"))
    PROVE  CliInv'
  <1>1. /\ traces = input.records /\ input # None /\ source \in Sources
        /\ input \in Inputs[source] /\ input.fault = "none"
        /\ \A n \in DOMAIN input.records : Readable(source, input.records[n])
        /\ WellFormed /\ ~WindowRefused /\ ~(Chosen = "query" /\ QueryRefused)
    BY AllRead
  <1>2. ~Unaverageable(traces) /\ args \in Invocations /\ traces \in Seq(Records)
    BY DEF CliInv, RecordsPassed, TypeOK
  <1>3. Cause' = 0
    BY <1>1, <1>2, NoCause
  <1>4. exit' # None
    BY NoneAssumption
  <1>5. TypeOK'
    BY <1>1, <1>2, <1>4 DEF TypeOK
  <1>6. Undecided' /\ ArgumentsPassed' /\ RecordsPassed'
    BY <1>2 DEF Undecided, ArgumentsPassed, RecordsPassed
  <1>7. AnswerIsWhole'
    BY <1>1 DEF AnswerIsWhole
  <1>8. ExitCodeTellsCause' /\ RefusalsAreExplicit'
    BY <1>3 DEF ExitCodeTellsCause, RefusalsAreExplicit
  <1> QED BY <1>5, <1>6, <1>7, <1>8 DEF CliInv

LEMMA PrintJsonInv ==
    ASSUME CliInv, PrintJson
    PROVE  CliInv'
  <1>1. /\ pc = "output" /\ args.json = "yes"
        /\ UNCHANGED <<args, source, input, traces>>
        /\ pc' = "exited" /\ exit' = 0 /\ stdout' = "all" /\ shown' = traces
        /\ stderr' = stderr \cup {}
    BY DEF PrintJson, End
  <1>2. "traceback" \notin stderr'
    BY <1>1 DEF CliInv, Undecided
  <1> QED BY <1>1, <1>2, EndsWell

LEMMA PrintTextInv ==
    ASSUME CliInv, PrintText
    PROVE  CliInv'
  <1>1. /\ pc = "output" /\ args.json = "no"
        /\ UNCHANGED <<args, source, input, traces>>
        /\ "traceback" \notin stderr /\ shown = None
        /\ args \in Invocations /\ traces \in Seq(Records)
    BY DEF PrintText, CliInv, Undecided, TypeOK, RecordsPassed
  <1>2. CASE ~Some(traces, "odd")
    <2>1. /\ pc' = "exited" /\ exit' = 0 /\ stdout' = "all" /\ shown' = traces
          /\ stderr' = stderr \cup Remarks
      BY <1>2 DEF PrintText, End
    <2>2. "traceback" \notin stderr'
      BY <1>1, <2>1 DEF Remarks
    <2> QED BY <1>1, <1>2, <2>1, <2>2, EndsWell
  <1>3. CASE Some(traces, "odd")
    <2>1. /\ stdout' \in {"nothing", "part"} /\ shown' = None
          /\ Raise("UnicodeEncodeError")
      BY <1>1, <1>3 DEF PrintText
    <2>2. pc' = "exited" /\ exit' = 1 /\ "traceback" \notin stderr'
      BY <1>1, <2>1, RaiseEnds, RefusalIsMessage
    <2>3. /\ traces = input.records
          /\ input # None /\ source \in Sources /\ input \in Inputs[source]
          /\ WellFormed /\ ~WindowRefused
      BY <1>1, AllRead
    <2>4. Cause' = 1
      BY <1>1, <1>3, <2>3, CauseIs
    <2> QED BY <1>1, <2>1, <2>2, <2>3, <2>4, EndsInError
  <1> QED BY <1>2, <1>3

LEMMA NextInv ==
    ASSUME CliInv, [Next]_vars
    PROVE  CliInv'
  <1>1. CASE UNCHANGED vars
    <2>1. /\ UNCHANGED <<pc, args, source, input, traces>>
          /\ UNCHANGED <<stdout, shown, stderr, exit>>
      BY <1>1 DEF vars
    <2>2. TypeOK' /\ Undecided'
      BY <2>1 DEF CliInv, TypeOK, Undecided
    <2>3. ArgumentsPassed'
      BY <2>1, SameArguments DEF CliInv, ArgumentsPassed
    <2>4. RecordsPassed'
      BY <2>1 DEF CliInv, RecordsPassed, Unaverageable
    <2>5. AnswerIsWhole' /\ RefusalsAreExplicit'
      BY <2>1 DEF CliInv, AnswerIsWhole, RefusalsAreExplicit
    <2>6. Cause' = Cause
      BY <2>1 DEF Cause, WellFormed, Chosen, QueryRefused, Unaverageable
    <2>7. ExitCodeTellsCause'
      BY <2>1, <2>6 DEF CliInv, ExitCodeTellsCause
    <2> QED BY <2>2, <2>3, <2>4, <2>5, <2>7 DEF CliInv
  <1>2. CASE Next
    BY <1>2, ParseArgumentsInv, CheckWindowInv, MakeSourceInv, ReadSourceInv,
       ReadRecordInv, RecordsEndInv, AnalyseInv, PrintJsonInv, PrintTextInv
       DEF Next
  <1> QED BY <1>1, <1>2

THEOREM InductiveInvariant == Spec => []CliInv
  BY InitInv, NextInv, PTL DEF Spec

\* The command answers for everything that its source holds or not at all
\* (cli.py, main; sources.py and jaeger.py, read_traces).
THEOREM AnswersAreWhole == Spec => []AnswerIsWhole
  <1>1. CliInv => AnswerIsWhole
    BY DEF CliInv
  <1> QED BY <1>1, InductiveInvariant, PTL

\* The exit code is a function of the command line and of what the source
\* holds (cli.py, main).
THEOREM ExitCodesTellCauses == Spec => []ExitCodeTellsCause
  <1>1. CliInv => ExitCodeTellsCause
    BY DEF CliInv
  <1> QED BY <1>1, InductiveInvariant, PTL

\* Only three kinds of exceptions get past the except clauses of the sources
\* and of main (sources.py:60, jaeger.py:131 and 164, cli.py:92).
THEOREM RefusalsAreMessages == Spec => []RefusalsAreExplicit
  <1>1. CliInv => RefusalsAreExplicit
    BY DEF CliInv
  <1> QED BY <1>1, InductiveInvariant, PTL
=============================================================================
