----------------------------- MODULE MCEvidence -----------------------------
(***************************************************************************)
(* An instance of Observations and Evidence for TLC.                       *)
(***************************************************************************)
EXTENDS Evidence, TLC

\* m0 is a span that is never delivered: a parent reference to it dangles.
CONSTANTS t1, p1, p2, c1, c2, c3, m0, a, b

MCSpan(id, parent, service, error, kind, start, duration) ==
    [trace |-> t1, id |-> id, parent |-> parent, service |-> service,
     error |-> error,
     rest |-> [kind |-> kind, start |-> start, duration |-> duration]]

\* A caller's span lasts 0, 2 or 3, or an unknown time.  It may say that its
\* parent is a span that it has called, itself, or one that is missing, so that
\* cycles of one, two and three spans close, alone, entered by others or beside
\* each other.
MCCallers ==
    {MCSpan(p1, None, a, FALSE, "client", 1, d) : d \in {0, 3, None}}
    \cup {MCSpan(p1, c2, a, FALSE, "client", 1, 3)}
    \cup {MCSpan(p2, None, a, TRUE, "client", 0, 2)}
    \cup {MCSpan(p2, q, a, FALSE, "internal", 0, 2) : q \in {p1, p2, c2, m0}}

\* Three callees of the two; they start at no valid time, before, at and after
\* the boundaries.  One of them may have no service.
MCCallees ==
    {MCSpan(c1, p1, b, FALSE, "server", t, 1) : t \in {-1, 1}}
    \cup {MCSpan(c2, p2, b, TRUE, "server", 0, 1)}
    \cup {MCSpan(c3, p1, s, FALSE, "server", 2, 0) : s \in {b, Blank}}

\* Several spans of the same identity contradict each other; one has none.
MCSpans ==
    MCCallers \cup MCCallees
        \cup {MCSpan(Blank, None, b, FALSE, "server", 2, 0)}

\* Two adjacent windows, the one they make up, and an empty one.
MCWindows == {<<-1, 1>>, <<1, 3>>, <<-1, 3>>, <<2, 2>>}
=============================================================================
