------------------------------- MODULE Replay -------------------------------
(***************************************************************************)
(* What the adapter reads from Jaeger is kept as a fixture and read again: *)
(* scripts/validate-evidence.py and scripts/validate-trace-analysis.py     *)
(* write asdict(span) of every normalized span, and compare what the       *)
(* analyzer makes of the fixture with what it made of Jaeger's answer.     *)
(*                                                                         *)
(* Written as JSON and read back, a normalized span has the fields that it *)
(* had; the diagnostics of the adapter are not written.                    *)
(***************************************************************************)
EXTENDS Jaeger

File == INSTANCE Fixture WITH Misfit <- Malformed

\* The record that the scripts write for the trace.
Exported == [trace |-> TraceId, spans |-> spans]

ASSUME UsableAssumption == Unusable \notin {TraceId, None, Absent, ""}

\* Whatever Jaeger answers, the fixture source accepts what the adapter made
\* of it ("assert replay.stdout == cli.stdout", validate-evidence.py:131, would
\* else fail on the fixture's account): no span is normalized to something that
\* a fixture may not hold.
ExportIsAccepted ==
    /\ Exported.trace # Unusable
    /\ \A s \in Exported.spans : File!ValidSpan(Exported.trace, s)
=============================================================================
